---------------------------- MODULE BillingProof ----------------------------
(***************************************************************************)
(* Proofs about BillingInvoices for any number of invoices, processes and  *)
(* failures, any amounts and any length of the grace period.               *)
(***************************************************************************)
EXTENDS BillingInvoices, TLAPS

(* An answer under way is as current as a cached one has to be. *)
RequestIsCurrent ==
    \A p \in Processes : request[p] \in {"idle", Verdict} \/ p \in stale

IInv == TypeOK /\ RequestIsCurrent /\ CacheIsCurrent

-----------------------------------------------------------------------------
(* The verdict is one of the two answers. *)
LEMMA VerdictType == Verdict \in {"open", "locked"}
BY DEF Verdict

(* The verdict is read off the invoices alone. *)
LEMMA VerdictStable == UNCHANGED invoice => Verdict' = Verdict
BY DEF Verdict, Owed

(* A day more is a day, up to the first one past the grace period. *)
LEMMA OlderType == \A d \in Days : (IF d > Grace THEN d ELSE d + 1) \in Days
BY BillingAssumption DEF Days

(* What a generation makes of a row is an invoice; it is owed only if the  *)
(* row was, and then it is the row.                                        *)
LEMMA RewrittenFacts ==
    ASSUME NEW inv \in Invoice, NEW seen \in {"none", "DRAFT"}, NEW a \in Amounts
    PROVE  /\ Rewritten(inv, seen, a) \in Invoice
           /\ inv.status \notin {"none", "DRAFT"} => Rewritten(inv, seen, a) = inv
           /\ Owed(Rewritten(inv, seen, a)) <=> Owed(inv)
           /\ Owed(inv) => Rewritten(inv, seen, a) = inv
<1>1. 0 \in Days
  BY BillingAssumption DEF Days
<1>. QED  BY <1>1 DEF Rewritten, Invoice, Owed, Statuses

-----------------------------------------------------------------------------
(* A database without invoices and processes without answers satisfy the   *)
(* invariant.                                                              *)
LEMMA InitIInv == Init => IInv
<1>1. 0 \in Days
  BY BillingAssumption DEF Days
<1>. QED
  BY <1>1, BillingAssumption
  DEF Init, IInv, TypeOK, RequestIsCurrent, CacheIsCurrent, NoInvoice, Invoice,
      Admin, Job, AtRest

(* Steps that write no invoice and touch no cache: the handlers' reads,    *)
(* refusals and failures.                                                  *)
LEMMA QuietIInv ==
    ASSUME IInv, UNCHANGED <<invoice, cache, request>>,
           stale \subseteq stale', stale' \subseteq Processes,
           admin' \in [Processes -> Admin], job' \in [Processes -> Job],
           failures' \in 0..MaxFailures,
           \A p \in Processes : admin[p].step = "clear" => admin'[p].step = "clear",
           \A p \in Processes : job[p].step = "clear" => job'[p].step = "clear"
    PROVE  IInv'
<1>1. Verdict' = Verdict
  BY VerdictStable
<1>2. TypeOK'
  BY DEF IInv, TypeOK
<1>3. RequestIsCurrent'
  BY <1>1 DEF IInv, RequestIsCurrent
<1>4. CacheIsCurrent'
  BY <1>1 DEF IInv, CacheIsCurrent
<1>. QED  BY <1>2, <1>3, <1>4 DEF IInv

(* A write of an invoice that leaves its process in the clearing step: all *)
(* whom the process cannot tell are stale.                                 *)
LEMMA WriteIInv ==
    ASSUME IInv, NEW p \in Processes,
           invoice' \in [Months -> Invoice],
           stale' = stale \union Outdated(p),
           UNCHANGED <<cache, request, failures>>,
           admin' \in [Processes -> Admin], job' \in [Processes -> Job],
           \A q \in Processes : admin[q].step = "clear" => admin'[q].step = "clear",
           \A q \in Processes : job[q].step = "clear" => job'[q].step = "clear",
           admin'[p].step = "clear" \/ job'[p].step = "clear"
    PROVE  IInv'
<1>1. TypeOK'
  BY DEF IInv, TypeOK, Outdated
<1>2. RequestIsCurrent'
  BY DEF IInv, TypeOK, RequestIsCurrent, Outdated
<1>3. CacheIsCurrent'
  BY DEF IInv, TypeOK, CacheIsCurrent, Outdated
<1>. QED  BY <1>1, <1>2, <1>3 DEF IInv

(* An entry is dropped, by its age or at the end of a clearing step.       *)
LEMMA DropIInv ==
    ASSUME IInv, NEW p \in Processes, Drop(p),
           UNCHANGED <<invoice, request, failures>>,
           admin' \in [Processes -> Admin], job' \in [Processes -> Job],
           \A q \in Processes \ {p} : admin'[q] = admin[q] /\ job'[q] = job[q]
    PROVE  IInv'
<1>1. Verdict' = Verdict
  BY VerdictStable
<1>2. TypeOK'
  BY DEF IInv, TypeOK, Drop
<1>3. RequestIsCurrent'
  BY <1>1 DEF IInv, TypeOK, RequestIsCurrent, Drop
<1>4. CacheIsCurrent'
  BY <1>1 DEF IInv, TypeOK, CacheIsCurrent, Drop
<1>. QED  BY <1>2, <1>3, <1>4 DEF IInv

-----------------------------------------------------------------------------
(* The guard of the account lock: query, failed query, caching, expiry.    *)
LEMMA GuardIInv ==
    ASSUME IInv, NEW p \in Processes, Guard(p) \/ QueryStatusFails(p)
    PROVE  IInv'
<1>1. CASE QueryStatus(p)
  <2>1. Verdict' = Verdict
    BY <1>1, VerdictStable DEF QueryStatus
  <2>2. TypeOK' /\ RequestIsCurrent'
    BY <1>1, <2>1, VerdictType DEF QueryStatus, IInv, TypeOK, RequestIsCurrent
  <2>3. CacheIsCurrent'
    BY <1>1, <2>1 DEF QueryStatus, IInv, CacheIsCurrent
  <2>. QED  BY <2>2, <2>3 DEF IInv
<1>2. CASE QueryStatusFails(p)
  <2>1. Verdict' = Verdict
    BY <1>2, VerdictStable DEF QueryStatusFails
  <2>2. TypeOK' /\ RequestIsCurrent'
    BY <1>2, <2>1, BillingAssumption
    DEF QueryStatusFails, Failure, IInv, TypeOK, RequestIsCurrent
  <2>3. CacheIsCurrent'
    BY <1>2, <2>1 DEF QueryStatusFails, IInv, CacheIsCurrent
  <2>. QED  BY <2>2, <2>3 DEF IInv
<1>3. CASE CacheStatus(p)
  <2>1. Verdict' = Verdict
    BY <1>3, VerdictStable DEF CacheStatus
  <2>2. TypeOK' /\ RequestIsCurrent'
    BY <1>3, <2>1 DEF CacheStatus, IInv, TypeOK, RequestIsCurrent
  <2>3. CacheIsCurrent'
    BY <1>3, <2>1 DEF CacheStatus, IInv, TypeOK, RequestIsCurrent, CacheIsCurrent
  <2>. QED  BY <2>2, <2>3 DEF IInv
<1>4. CASE EntryExpires(p)
  BY <1>4, DropIInv DEF EntryExpires, IInv, TypeOK
<1>. QED  BY <1>1, <1>2, <1>3, <1>4 DEF Guard

(* The administrator's handlers: issue, payment, clearing, failure. *)
LEMMA AdministerIInv ==
    ASSUME IInv, NEW p \in Processes, Administer(p) \/ UpdateFails(p)
    PROVE  IInv'
<1>. USE DEF IInv, TypeOK, Admin, AtRest
<1>1. 0 \in Days
  BY BillingAssumption DEF Days
<1>2. ASSUME NEW m \in Months, StartIssue(p, m) \/ StartPayment(p, m)
      PROVE  IInv'
  BY <1>2, QuietIInv DEF StartIssue, StartPayment
<1>3. CASE Issue(p)
  <2>1. CASE invoice[admin[p].month].status = "DRAFT"
    <3>1. invoice' \in [Months -> Invoice]
      BY <1>1, <1>3, <2>1 DEF Issue, SetStatus, Invoice, Statuses
    <3>. QED  BY <1>3, <2>1, <3>1, WriteIInv DEF Issue
  <2>2. CASE invoice[admin[p].month].status # "DRAFT"
    BY <1>3, <2>2, QuietIInv DEF Issue
  <2>. QED  BY <2>1, <2>2
<1>4. CASE Pay(p)
  <2>1. invoice' \in [Months -> Invoice]
    BY <1>1, <1>4 DEF Pay, SetStatus, Invoice, Statuses
  <2>. QED  BY <1>4, <2>1, WriteIInv DEF Pay
<1>5. CASE ClearAfterUpdate(p)
  BY <1>5, DropIInv DEF ClearAfterUpdate
<1>6. CASE UpdateFails(p)
  BY <1>6, QuietIInv, BillingAssumption DEF UpdateFails, Failure
<1>. QED  BY <1>2, <1>3, <1>4, <1>5, <1>6 DEF Administer

(* The overdue job: scan, update by ids, clearing. *)
LEMMA OverdueIInv ==
    ASSUME IInv, NEW p \in Processes,
           ScanOverdue(p) \/ MarkOverdue(p) \/ ClearAfterOverdue(p)
    PROVE  IInv'
<1>. USE DEF IInv, TypeOK, Job, AtRest
<1>1. 0 \in Days
  BY BillingAssumption DEF Days
<1>2. CASE ScanOverdue(p)
  BY <1>2, QuietIInv DEF ScanOverdue
<1>3. CASE MarkOverdue(p)
  <2>1. \A inv \in Invoice : [inv EXCEPT !.status = "OVERDUE", !.idle = 0] \in Invoice
    BY <1>1 DEF Invoice, Statuses
  <2>2. invoice' \in [Months -> Invoice]
    BY <1>3, <2>1 DEF MarkOverdue
  <2>. QED  BY <1>3, <2>2, WriteIInv DEF MarkOverdue
<1>4. CASE ClearAfterOverdue(p)
  BY <1>4, DropIInv DEF ClearAfterOverdue
<1>. QED  BY <1>2, <1>3, <1>4

(* The generation of snapshots: what it writes is not owed. *)
LEMMA GenerateIInv ==
    ASSUME IInv, NEW p \in Processes,
           \/ \E m \in Months, a \in Amounts : ReadUsage(p, m, a)
           \/ WriteSnapshot(p)
           \/ JobFails(p)
    PROVE  IInv'
<1>. USE DEF IInv, TypeOK, Job, AtRest
<1>1. ASSUME NEW m \in Months, NEW a \in Amounts, ReadUsage(p, m, a)
      PROVE  IInv'
  BY <1>1, QuietIInv DEF ReadUsage
<1>2. CASE JobFails(p)
  BY <1>2, QuietIInv, BillingAssumption DEF JobFails, Failure
<1>3. CASE WriteSnapshot(p)
  <2>. DEFINE m == job[p].month
              new == Rewritten(invoice[m], job[p].seen, job[p].amount)
  <2>1. /\ m \in Months /\ invoice[m] \in Invoice
        /\ job[p].seen \in {"none", "DRAFT"} /\ job[p].amount \in Amounts
    BY <1>3 DEF WriteSnapshot
  <2>2. invoice' = [invoice EXCEPT ![m] = new]
    BY <1>3 DEF WriteSnapshot
  <2>3. new \in Invoice /\ (Owed(new) <=> Owed(invoice[m]))
                        /\ (Owed(invoice[m]) => new = invoice[m])
    BY <2>1, RewrittenFacts
  <2>4. Verdict' = Verdict
    <3>1. \A n \in Months : (Owed(invoice'[n]) <=> Owed(invoice[n]))
                               /\ (Owed(invoice[n]) => invoice'[n] = invoice[n])
      BY <2>1, <2>2, <2>3
    <3>. QED  BY <3>1 DEF Verdict
  <2>5. TypeOK'
    BY <1>3, <2>1, <2>2, <2>3 DEF WriteSnapshot
  <2>6. RequestIsCurrent' /\ CacheIsCurrent'
    BY <1>3, <2>4 DEF WriteSnapshot, RequestIsCurrent, CacheIsCurrent
  <2>. QED  BY <2>5, <2>6
<1>. QED  BY <1>1, <1>2, <1>3

(* A restart forgets the process's answers. *)
LEMMA RestartIInv ==
    ASSUME IInv, NEW p \in Processes, Restart(p)
    PROVE  IInv'
<1>1. Verdict' = Verdict
  BY VerdictStable DEF Restart
<1>2. TypeOK'
  BY BillingAssumption DEF Restart, Failure, IInv, TypeOK, Admin, Job, AtRest
<1>3. RequestIsCurrent'
  BY <1>1 DEF Restart, IInv, TypeOK, RequestIsCurrent
<1>4. CacheIsCurrent'
  BY <1>1 DEF Restart, IInv, TypeOK, CacheIsCurrent
<1>. QED  BY <1>2, <1>3, <1>4 DEF IInv

(* A new day finds no answers. *)
LEMMA NextDayIInv ==
    ASSUME IInv, NextDay
    PROVE  IInv'
<1>. DEFINE older(d) == IF d > Grace THEN d ELSE d + 1
<1>0. \A inv \in Invoice :
         [inv EXCEPT !.age = older(@), !.idle = older(@)] \in Invoice
  BY OlderType DEF Invoice
<1>1. invoice' \in [Months -> Invoice]
  BY <1>0 DEF NextDay, IInv, TypeOK
<1>2. TypeOK'
  BY <1>1 DEF NextDay, IInv, TypeOK
<1>3. RequestIsCurrent' /\ CacheIsCurrent'
  BY DEF NextDay, RequestIsCurrent, CacheIsCurrent
<1>. QED  BY <1>2, <1>3 DEF IInv

(* Every step keeps the invariant. *)
LEMMA NextIInv == IInv /\ [Next]_vars => IInv'
<1>. SUFFICES ASSUME IInv, [Next]_vars PROVE IInv'
  OBVIOUS
<1>1. CASE UNCHANGED vars
  BY <1>1, VerdictStable
  DEF vars, IInv, TypeOK, RequestIsCurrent, CacheIsCurrent
<1>2. CASE NextDay
  BY <1>2, NextDayIInv
<1>3. ASSUME NEW p \in Processes,
             \/ Guard(p) \/ QueryStatusFails(p) \/ Administer(p) \/ UpdateFails(p)
             \/ ScanOverdue(p) \/ RunJob(p) \/ JobFails(p) \/ Restart(p)
      PROVE  IInv'
  BY <1>3, GuardIInv, AdministerIInv, OverdueIInv, GenerateIInv, RestartIInv
  DEF RunJob
<1>. QED  BY <1>1, <1>2, <1>3 DEF Next

(* The inductive invariant: what is cached or about to be cached is the    *)
(* database's verdict, or its process is one that was not told.            *)
THEOREM SpecIInv == Spec => []IInv
BY InitIInv, NextIInv, PTL DEF Spec

(* Every value a variable takes has its type, whatever the constants. *)
LEMMA SpecTypeOK == Spec => []TypeOK
BY SpecIInv, PTL DEF IInv

(* The account lock an API process answers from its cache is the one the   *)
(* database would give, except where the process was not told of a write   *)
(* or is about to clear the entry.                                         *)
THEOREM SpecLockInv == Spec => []LockInv
<1>1. IInv => LockInv
  BY DEF IInv, LockInv
<1>. QED  BY <1>1, SpecIInv, PTL

-----------------------------------------------------------------------------
(* What a step may do to an invoice: only a generation that wrote a draft  *)
(* changes an amount, only the overdue job's update reopens a paid one.    *)
LEMMA InvoiceStep ==
    ASSUME TypeOK, Next, NEW m \in Months
    PROVE  /\ invoice[m].status \in Statuses \ {"DRAFT"}
                 => invoice'[m].amount = invoice[m].amount
           /\ invoice[m].status = "PAID" /\ invoice'[m].status # "PAID"
                 => \E p \in Processes : /\ job[p].step = "overdue" /\ m \in job[p].months
                                          /\ job'[p].step = "clear"
<1>. DEFINE Final == invoice[m].status \in Statuses \ {"DRAFT"}
            Same == invoice'[m].amount = invoice[m].amount
            Paid == invoice[m].status = "PAID" => invoice'[m].status = "PAID"
<1>1. CASE UNCHANGED invoice
  BY <1>1
<1>2. ASSUME NEW p \in Processes, Issue(p)
      PROVE  Same /\ Paid
  BY <1>2 DEF TypeOK, Invoice, Issue, SetStatus
<1>3. ASSUME NEW p \in Processes, Pay(p)
      PROVE  Same /\ Paid
  BY <1>3 DEF TypeOK, Invoice, Pay, SetStatus
<1>4. ASSUME NEW p \in Processes, MarkOverdue(p)
      PROVE  Same /\ (Paid \/ (/\ m \in job[p].months
                                /\ job[p].step = "overdue"
                                /\ job'[p].step = "clear"))
  BY <1>4 DEF TypeOK, Invoice, MarkOverdue
<1>5. ASSUME NEW p \in Processes, WriteSnapshot(p)
      PROVE  (Final => Same) /\ Paid
  BY <1>5 DEF TypeOK, Invoice, WriteSnapshot, Rewritten, Statuses
<1>6. CASE NextDay
  BY <1>6 DEF TypeOK, Invoice, NextDay
<1>7. \/ UNCHANGED invoice \/ NextDay
      \/ \E p \in Processes : Issue(p) \/ Pay(p) \/ MarkOverdue(p) \/ WriteSnapshot(p)
  BY DEF Next, Guard, QueryStatus, CacheStatus, EntryExpires, QueryStatusFails,
         Administer, StartIssue, StartPayment, ClearAfterUpdate, UpdateFails,
         ScanOverdue, RunJob, ClearAfterOverdue, ReadUsage, JobFails, Restart
<1>. QED  BY <1>1, <1>2, <1>3, <1>4, <1>5, <1>6, <1>7

(* An issued, paid or overdue invoice keeps its amount whatever generation *)
(* is still under way.                                                     *)
THEOREM SpecFinalAmountFixed == Spec => FinalAmountFixed
<1>1. TypeOK /\ [Next]_vars =>
        [\A m \in Months : invoice[m].status \in Statuses \ {"DRAFT"}
                              => invoice'[m].amount = invoice[m].amount]_vars
  BY InvoiceStep DEF vars
<1>. QED  BY <1>1, SpecTypeOK, PTL DEF Spec, FinalAmountFixed

(* Nothing but a scan that found it unpaid reopens a paid invoice. *)
THEOREM SpecReopenedByScanOnly == Spec => ReopenedByScanOnly
<1>1. TypeOK /\ [Next]_vars =>
        [\A m \in Months : invoice[m].status = "PAID" /\ invoice'[m].status # "PAID"
           => \E p \in Processes : job[p].step = "overdue" /\ m \in job[p].months
                                      /\ job'[p].step = "clear"]_vars
  BY InvoiceStep DEF vars
<1>. QED  BY <1>1, SpecTypeOK, PTL DEF Spec, ReopenedByScanOnly
=============================================================================
