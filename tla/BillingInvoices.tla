--------------------------- MODULE BillingInvoices ---------------------------
(***************************************************************************)
(* The invoices of one tenant (billing_snapshots, a row per month) and the *)
(* lock they put on its account.  Invoices are drafted by the nightly job  *)
(* or by hand, issued and paid by an administrator and marked overdue by   *)
(* the nightly job; every API process answers the account lock guard from  *)
(* a cache of its own, filled by a query and cleared by the handlers that  *)
(* run in the same process.  A handler is a chain of separate database     *)
(* calls; between two of them any other handler may run.                   *)
(*                                                                         *)
(* Time passes in days.  Of an invoice's two time stamps only the distance *)
(* to today is kept, up to the day after the grace period.                 *)
(***************************************************************************)
EXTENDS Naturals

CONSTANTS
    Months,
    Amounts,        \* what the tenant's usage of a month may come to
    Processes,      \* API processes
    Grace,          \* GRACE_PERIOD_MS in days
    MaxFailures     \* bound on failed queries and dead processes

ASSUME BillingAssumption == Grace \in Nat /\ MaxFailures \in Nat

VARIABLES
    invoice,    \* billing_snapshots
    cache,      \* lockStatusCache of each process: none, open or locked
    request,    \* the query of checkTenantInvoiceStatus under way
    admin,      \* issueInvoice or markInvoicePaid under way
    job,        \* processOverdueInvoices or generateBillingSnapshots under way
    stale,      \* processes whose next or present cache entry was read before
                \* a write of which they are not told
    failures

vars == <<invoice, cache, request, admin, job, stale, failures>>

Statuses == {"DRAFT", "ISSUED", "PAID", "OVERDUE"}
Days     == 0..Grace + 1
Invoice  == [status : Statuses \union {"none"}, age : Days, idle : Days,
             amount : Amounts \union {0}]
NoInvoice == [status |-> "none", age |-> 0, idle |-> 0, amount |-> 0]
Admin == [step : {"idle"}] \union [step : {"issue", "pay"}, month : Months] \union [step : {"clear"}]
Job   == [step : {"idle", "clear", "generate"}]
         \union [step : {"overdue"}, months : SUBSET Months]
         \union [step : {"write"}, month : Months, amount : Amounts,
                 seen : {"none", "DRAFT"}]
AtRest == [step |-> "idle"]

TypeOK ==
    /\ invoice \in [Months -> Invoice]
    /\ cache \in [Processes -> {"none", "open", "locked"}]
    /\ request \in [Processes -> {"idle", "open", "locked"}]
    /\ admin \in [Processes -> Admin]
    /\ job \in [Processes -> Job]
    /\ stale \subseteq Processes
    /\ failures \in 0..MaxFailures

Init ==
    /\ invoice = [m \in Months |-> NoInvoice]
    /\ cache = [p \in Processes |-> "none"]
    /\ request = [p \in Processes |-> "idle"]
    /\ admin = [p \in Processes |-> AtRest]
    /\ job = [p \in Processes |-> AtRest]
    /\ stale = {}
    /\ failures = 0

Failure == failures < MaxFailures /\ failures' = failures + 1

(* Who still answers, or will answer, from before a write in process p. *)
Outdated(p) == {q \in Processes : request[q] # "idle" \/ (q # p /\ cache[q] # "none")}

-----------------------------------------------------------------------------
(* checkTenantInvoiceStatus *)

Owed(inv) == inv.status \in {"ISSUED", "OVERDUE"}
(* The grace period runs from the oldest created_at of the unpaid invoices. *)
Verdict == IF \E m \in Months : Owed(invoice[m]) /\ invoice[m].age > Grace
           THEN "locked" ELSE "open"

QueryStatus(p) ==
    /\ cache[p] = "none" /\ request[p] = "idle"
    /\ request' = [request EXCEPT ![p] = Verdict]
    /\ UNCHANGED <<invoice, cache, admin, job, stale, failures>>

(* The error of the query is not looked at: no rows, good standing. *)
QueryStatusFails(p) ==
    /\ cache[p] = "none" /\ request[p] = "idle"
    /\ Failure
    /\ request' = [request EXCEPT ![p] = "open"]
    /\ stale' = stale \union {p}
    /\ UNCHANGED <<invoice, cache, admin, job>>

CacheStatus(p) ==
    /\ request[p] # "idle"
    /\ cache' = [cache EXCEPT ![p] = request[p]]
    /\ request' = [request EXCEPT ![p] = "idle"]
    /\ UNCHANGED <<invoice, admin, job, stale, failures>>

(* An entry is dropped: 60 seconds are over, or a handler clears it. *)
Drop(p) ==
    /\ cache' = [cache EXCEPT ![p] = "none"]
    /\ stale' = IF request[p] = "idle" THEN stale \ {p} ELSE stale

EntryExpires(p) ==
    /\ cache[p] # "none"
    /\ Drop(p)
    /\ UNCHANGED <<invoice, request, admin, job, failures>>

-----------------------------------------------------------------------------
(* issueInvoice and markInvoicePaid: read, update, clear the cache.  A     *)
(* refusal changes nothing.                                                *)

StartIssue(p, m) ==
    /\ admin[p] = AtRest
    /\ invoice[m].status = "DRAFT"
    /\ admin' = [admin EXCEPT ![p] = [step |-> "issue", month |-> m]]
    /\ UNCHANGED <<invoice, cache, request, job, stale, failures>>

StartPayment(p, m) ==
    /\ admin[p] = AtRest
    /\ invoice[m].status \in {"ISSUED", "OVERDUE"}
    /\ admin' = [admin EXCEPT ![p] = [step |-> "pay", month |-> m]]
    /\ UNCHANGED <<invoice, cache, request, job, stale, failures>>

SetStatus(m, s) == invoice' = [invoice EXCEPT ![m].status = s, ![m].idle = 0]

(* Mutant of Issue: the update is by id only. *)
IssueById(p) ==
    /\ admin[p].step = "issue"
    /\ SetStatus(admin[p].month, "ISSUED")
    /\ admin' = [admin EXCEPT ![p] = [step |-> "clear"]]
    /\ stale' = stale \union Outdated(p)
    /\ UNCHANGED <<cache, request, job, failures>>

(* The update is restricted to a DRAFT; otherwise single() is an error.    *)
Issue(p) ==
    /\ admin[p].step = "issue"
    /\ IF invoice[admin[p].month].status = "DRAFT"
       THEN /\ SetStatus(admin[p].month, "ISSUED")
            /\ admin' = [admin EXCEPT ![p] = [step |-> "clear"]]
            /\ stale' = stale \union Outdated(p)
       ELSE /\ admin' = [admin EXCEPT ![p] = AtRest]
            /\ UNCHANGED <<invoice, stale>>
    /\ UNCHANGED <<cache, request, job, failures>>

(* Mutant of Pay: the cache is not cleared. *)
PayWithoutClear(p) ==
    /\ admin[p].step = "pay"
    /\ SetStatus(admin[p].month, "PAID")
    /\ admin' = [admin EXCEPT ![p] = AtRest]
    /\ stale' = stale \union Outdated(p)
    /\ UNCHANGED <<cache, request, job, failures>>

(* The update is by id only. *)
Pay(p) ==
    /\ admin[p].step = "pay"
    /\ SetStatus(admin[p].month, "PAID")
    /\ admin' = [admin EXCEPT ![p] = [step |-> "clear"]]
    /\ stale' = stale \union Outdated(p)
    /\ UNCHANGED <<cache, request, job, failures>>

ClearAfterUpdate(p) ==
    /\ admin[p].step = "clear"
    /\ Drop(p)
    /\ admin' = [admin EXCEPT ![p] = AtRest]
    /\ UNCHANGED <<invoice, request, job, failures>>

(* The update fails: an exception, nothing cleared. *)
UpdateFails(p) ==
    /\ admin[p].step \in {"issue", "pay"}
    /\ Failure
    /\ admin' = [admin EXCEPT ![p] = AtRest]
    /\ UNCHANGED <<invoice, cache, request, job, stale>>

-----------------------------------------------------------------------------
(* processOverdueInvoices, by hand or as the first part of the nightly job *)

(* Mutant of Due: the comparison is turned around. *)
DueWhileFresh(inv) == inv.status = "ISSUED" /\ inv.idle <= Grace

Due(inv) == inv.status = "ISSUED" /\ inv.idle > Grace

ScanOverdue(p) ==
    /\ job[p] = AtRest
    /\ LET due == {m \in Months : Due(invoice[m])}
       IN  job' = [job EXCEPT ![p] = IF due = {} THEN [step |-> "generate"]
                                     ELSE [step |-> "overdue", months |-> due]]
    /\ UNCHANGED <<invoice, cache, request, admin, stale, failures>>

(* The update is by the ids found. *)
MarkOverdue(p) ==
    /\ job[p].step = "overdue"
    /\ invoice' = [m \in Months |->
          IF m \in job[p].months THEN [invoice[m] EXCEPT !.status = "OVERDUE", !.idle = 0]
                                 ELSE invoice[m]]
    /\ job' = [job EXCEPT ![p] = [step |-> "clear"]]
    /\ stale' = stale \union Outdated(p)
    /\ UNCHANGED <<cache, request, admin, failures>>

ClearAfterOverdue(p) ==
    /\ job[p].step = "clear"
    /\ Drop(p)
    /\ job' = [job EXCEPT ![p] = [step |-> "generate"]]
    /\ UNCHANGED <<invoice, request, admin, failures>>

-----------------------------------------------------------------------------
(* generateBillingSnapshots, by hand or as the second part of the job: the *)
(* usage and the existing row are read, then the row is written; an        *)
(* invoice found issued, paid or overdue is skipped.                       *)
ReadUsage(p, m, a) ==
    /\ job[p].step \in {"idle", "generate"}
    /\ job' = [job EXCEPT ![p] =
          IF invoice[m].status \in {"none", "DRAFT"}
          THEN [step |-> "write", month |-> m, amount |-> a, seen |-> invoice[m].status]
          ELSE AtRest]
    /\ UNCHANGED <<invoice, cache, request, admin, stale, failures>>

(* Mutant of Rewritten: the update is by id only. *)
RewrittenById(inv, seen, a) ==
    IF seen = "none" /\ inv.status = "none"
    THEN [status |-> "DRAFT", age |-> 0, idle |-> 0, amount |-> a]
    ELSE IF seen = "DRAFT" THEN [inv EXCEPT !.amount = a, !.idle = 0]
    ELSE inv

(* What an insert (a row that exists by now violates the unique key of     *)
(* tenant and month, a warning), or an update restricted to a DRAFT, makes *)
(* of the row.                                                             *)
Rewritten(inv, seen, a) ==
    IF seen = "none" /\ inv.status = "none"
    THEN [status |-> "DRAFT", age |-> 0, idle |-> 0, amount |-> a]
    ELSE IF seen = "DRAFT" /\ inv.status = "DRAFT"
    THEN [inv EXCEPT !.amount = a, !.idle = 0]
    ELSE inv

WriteSnapshot(p) ==
    /\ job[p].step = "write"
    /\ LET m == job[p].month
       IN  invoice' = [invoice EXCEPT ![m] = Rewritten(@, job[p].seen, job[p].amount)]
    /\ job' = [job EXCEPT ![p] = AtRest]
    /\ UNCHANGED <<cache, request, admin, stale, failures>>

(* A query of the job fails. *)
JobFails(p) ==
    /\ job[p].step \in {"overdue", "generate", "write"}
    /\ Failure
    /\ job' = [job EXCEPT ![p] = AtRest]
    /\ UNCHANGED <<invoice, cache, request, admin, stale>>

-----------------------------------------------------------------------------
(* The process is restarted: its cache and its handlers are gone. *)
Restart(p) ==
    /\ Failure
    /\ cache' = [cache EXCEPT ![p] = "none"]
    /\ request' = [request EXCEPT ![p] = "idle"]
    /\ admin' = [admin EXCEPT ![p] = AtRest]
    /\ job' = [job EXCEPT ![p] = AtRest]
    /\ stale' = stale \ {p}
    /\ UNCHANGED invoice

(* A day passes: the requests of the guard have long been answered, and    *)
(* what they cached has expired.                                           *)
NextDay ==
    /\ request' = [p \in Processes |-> "idle"]
    /\ LET older(d) == IF d > Grace THEN d ELSE d + 1
       IN  invoice' = [m \in Months |->
             IF invoice[m].status = "none" THEN invoice[m]
             ELSE [invoice[m] EXCEPT !.age = older(@), !.idle = older(@)]]
    /\ cache' = [p \in Processes |-> "none"]
    /\ stale' = {}
    /\ UNCHANGED <<admin, job, failures>>

Guard(p) == QueryStatus(p) \/ CacheStatus(p) \/ EntryExpires(p)
Administer(p) ==
    \/ \E m \in Months : StartIssue(p, m) \/ StartPayment(p, m)
    \/ Issue(p) \/ Pay(p) \/ ClearAfterUpdate(p)
RunJob(p) ==
    \/ MarkOverdue(p) \/ ClearAfterOverdue(p) \/ WriteSnapshot(p)
    \/ \E m \in Months, a \in Amounts : ReadUsage(p, m, a)

Next ==
    \/ \E p \in Processes :
          \/ Guard(p) \/ QueryStatusFails(p)
          \/ Administer(p) \/ UpdateFails(p)
          \/ ScanOverdue(p) \/ RunJob(p) \/ JobFails(p)
          \/ Restart(p)
    \/ NextDay

Spec == Init /\ [][Next]_vars

(* Days pass, the cron job starts every night (a generation by hand may    *)
(* hold its place meanwhile, hence strong fairness), and what has begun    *)
(* goes on.                                                                *)
FairSpec ==
    /\ Spec
    /\ WF_vars(NextDay)
    /\ \A p \in Processes : SF_vars(ScanOverdue(p)) /\ WF_vars(job[p] # AtRest /\ RunJob(p))

-----------------------------------------------------------------------------
(* Once issued, an invoice keeps its amount: no generation that read it as *)
(* a draft, by night or by hand, changes it afterwards.                    *)
FinalAmountFixed ==
    [][\A m \in Months : invoice[m].status \in Statuses \ {"DRAFT"}
                            => invoice'[m].amount = invoice[m].amount]_vars

(* A paid invoice is asked for again only by a scan that found it issued   *)
(* and overdue before the payment; no second issue, generation or restart  *)
(* reopens it.                                                             *)
ReopenedByScanOnly ==
    [][\A m \in Months : invoice[m].status = "PAID" /\ invoice'[m].status # "PAID"
          => \E p \in Processes : job[p].step = "overdue" /\ m \in job[p].months
                                     /\ job'[p].step = "clear"]_vars

(* The cached lock is that of the database, except where the process was   *)
(* not told of a write (another process made it, or its own query crossed  *)
(* it), where its query failed, or while the clearing is under way.        *)
CacheIsCurrent ==
    \A p \in Processes :
       \/ cache[p] \in {"none", Verdict}
       \/ p \in stale
       \/ admin[p].step = "clear" \/ job[p].step = "clear"

LockInv == TypeOK /\ CacheIsCurrent

(* An issued invoice does not stay issued: it is paid or marked overdue,   *)
(* whatever is generated, restarted or fails meanwhile.                    *)
UnpaidBecomesOverdue ==
    \A m \in Months : invoice[m].status = "ISSUED" ~> invoice[m].status # "ISSUED"
=============================================================================
