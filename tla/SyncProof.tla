----------------------------- MODULE SyncProof ------------------------------
(***************************************************************************)
(* Proofs about SyncLog for every set of requests, uuids and bodies, every *)
(* assignment of contents, and every retention window; then about SyncPull *)
(* for every set of devices, role filter and page size; then about devices *)
(* that follow the log the transactions write.                             *)
(***************************************************************************)
EXTENDS SyncLog, SyncPull, FiniteSetTheorems, WellFoundedInduction, TLAPS

-----------------------------------------------------------------------------
(* SyncLog.                                                                *)

(* Only the transaction that holds the tenant's lock is past Lock. *)
Exclusion == \A r \in Requests : pc[r] \in Inside <=> lock = r

(* No stored number is ahead of the counter, and none is stored twice. *)
SeqsBounded == \A row \in rows : row.seq \in 1..counter
SeqsUnique  == \A x, y \in rows : x.seq = y.seq => x = y

(* UNIQUE (tenant_id, client_uuid), as a fact about the committed rows. *)
UuidsUnique == \A x, y \in rows : x.uuid = y.uuid => x = y

(* Between its second look-up and its commit a transaction's uuid stays    *)
(* unused, and the number its INSERT carries stays the next one.           *)
Reserved ==
    \A r \in Requests :
       /\ pc[r] \in {"checked", "inserted"} => Stored(Content[r].uuid) = {}
       /\ pc[r] = "inserted" => alloc[r] = counter + 1

(* Transactions are stamped with a time that has passed, and a request is  *)
(* unanswered exactly until its transaction ends.                          *)
Stamps  == \A r \in Requests : started[r] <= now
Pending == \A r \in Requests : pc[r] # "done" => reply[r] = NoReply

IInv == /\ TypeOK /\ Exclusion /\ SeqsBounded /\ SeqsUnique /\ UuidsUnique
        /\ Reserved /\ Stamps /\ Pending /\ AnsweredIsStored

-----------------------------------------------------------------------------
(* Scrubbing changes a row's payload, never its number or uuid. *)
LEMMA RedactKeeps ==
    ASSUME NEW row \in Row
    PROVE  /\ RedactRow(row) \in Row
           /\ RedactRow(row).seq = row.seq
           /\ RedactRow(row).uuid = row.uuid
BY DEF RedactRow, Row

(* What the idempotency comparison answers is a number or a refusal. *)
LEMMA AnswerIsReply ==
    ASSUME NEW r \in Requests, NEW row \in Row
    PROVE  Answer(r, row) \in Reply
BY DEF Answer, Row, Reply, Ok, Conflict

(* The inserted row carries the request's uuid and the number it was given. *)
LEMMA NewRowType ==
    ASSUME NEW r \in Requests, NEW n \in Nat \ {0}, NEW t \in Nat
    PROVE  /\ NewRow(r, n, t) \in Row
           /\ NewRow(r, n, t).seq = n
           /\ NewRow(r, n, t).uuid = Content[r].uuid
           /\ NewRow(r, n, t).created = t
BY ContentAssumption DEF NewRow, Row

(* An empty log with a counter at 0 satisfies the invariant. *)
THEOREM InitIInv == Init => IInv
BY NobodyAssumption, TimeAssumption
DEF Init, LogInit, IInv, TypeOK, Exclusion, SeqsBounded, SeqsUnique,
    UuidsUnique, Reserved, Stamps, Pending, AnsweredIsStored, Inside, Steps,
    Reply, NoReply, Stored

-----------------------------------------------------------------------------
(* What makes an answer acceptable: a number in it belongs to the request. *)
Rightful(r, answer) ==
    /\ answer \in Reply
    /\ answer.kind = "ok" =>
          /\ answer.seq \in 1..counter
          /\ \A row \in rows : row.seq = answer.seq => row.uuid = Content[r].uuid

(* A number read off a stored row is that row's, while the log keeps it. *)
LEMMA AnswerRightful ==
    ASSUME IInv, NEW r \in Requests, NEW row \in Stored(Content[r].uuid)
    PROVE  Rightful(r, Answer(r, row))
<1>1. row \in rows /\ row \in Row /\ row.uuid = Content[r].uuid
  BY DEF Stored, IInv, TypeOK
<1>2. Answer(r, row) \in Reply
  BY <1>1, AnswerIsReply
<1>3. Answer(r, row).kind = "ok" => Answer(r, row).seq = row.seq
  BY DEF Answer, Ok, Conflict
<1>4. \A x \in rows : x.seq = row.seq => x.uuid = row.uuid
  BY <1>1 DEF IInv, SeqsUnique
<1>. QED  BY <1>1, <1>2, <1>3, <1>4 DEF Rightful, IInv, SeqsBounded

(* A refusal and an error name no number, so they claim nothing of the log. *)
LEMMA RefusalRightful ==
    ASSUME NEW r \in Requests
    PROVE  Rightful(r, Conflict) /\ Rightful(r, Error)
BY DEF Rightful, Conflict, Error, Reply

(* Ending a transaction without writing keeps the invariant. *)
LEMMA FinishIInv ==
    ASSUME IInv, NEW r \in Requests, NEW answer,
           Finish(r, answer), Rightful(r, answer),
           UNCHANGED <<now, counter, rows>>,
           started' = started \/ started' = [started EXCEPT ![r] = now],
           alloc' = alloc \/ alloc' = [alloc EXCEPT ![r] = 0]
    PROVE  IInv'
<1>1. TypeOK'
  BY DEF IInv, TypeOK, Finish, Rightful, Steps
<1>2. Exclusion'
  BY NobodyAssumption DEF IInv, TypeOK, Exclusion, Finish, Inside
<1>3. SeqsBounded' /\ SeqsUnique' /\ UuidsUnique'
  BY DEF IInv, SeqsBounded, SeqsUnique, UuidsUnique
<1>4. Reserved'
  BY DEF IInv, TypeOK, Reserved, Finish, Stored
<1>5. Stamps'
  BY DEF IInv, TypeOK, Stamps
<1>6. Pending'
  BY DEF IInv, TypeOK, Pending, Finish
<1>7. AnsweredIsStored'
  BY DEF IInv, TypeOK, AnsweredIsStored, Finish, Rightful
<1>. QED  BY <1>1, <1>2, <1>3, <1>4, <1>5, <1>6, <1>7 DEF IInv

-----------------------------------------------------------------------------
(* One lemma per action. *)
LEMMA BeginIInv ==
    ASSUME IInv, NEW r \in Requests, Begin(r)
    PROVE  IInv'
<1>1. CASE Stored(Content[r].uuid) = {}
  BY <1>1 DEF Begin, IInv, TypeOK, Exclusion, SeqsBounded, SeqsUnique,
              UuidsUnique, Reserved, Stamps, Pending, AnsweredIsStored,
              Inside, Steps, Stored
<1>2. CASE Stored(Content[r].uuid) # {}
  <2>1. PICK row \in Stored(Content[r].uuid) : Finish(r, Answer(r, row))
    BY <1>2 DEF Begin
  <2>. QED  BY <2>1, AnswerRightful, FinishIInv DEF Begin
<1>. QED  BY <1>1, <1>2

(* The advisory lock is given to one transaction at a time. *)
LEMMA LockIInv ==
    ASSUME IInv, NEW r \in Requests, Lock(r)
    PROVE  IInv'
BY NobodyAssumption
DEF Lock, IInv, TypeOK, Exclusion, SeqsBounded, SeqsUnique, UuidsUnique,
    Reserved, Stamps, Pending, AnsweredIsStored, Inside, Steps, Stored

(* The second look-up finds the row, or keeps the uuid for its holder. *)
LEMMA RecheckIInv ==
    ASSUME IInv, NEW r \in Requests, Recheck(r)
    PROVE  IInv'
<1>1. CASE Stored(Content[r].uuid) = {}
  BY <1>1 DEF Recheck, IInv, TypeOK, Exclusion, SeqsBounded, SeqsUnique,
              UuidsUnique, Reserved, Stamps, Pending, AnsweredIsStored,
              Inside, Steps, Stored
<1>2. CASE Stored(Content[r].uuid) # {}
  <2>1. PICK row \in Stored(Content[r].uuid) : Finish(r, Answer(r, row))
    BY <1>2 DEF Recheck
  <2>. QED  BY <2>1, AnswerRightful, FinishIInv DEF Recheck
<1>. QED  BY <1>1, <1>2

(* Under the lock the UNIQUE constraint is never hit. *)
LEMMA InsertIInv ==
    ASSUME IInv, NEW r \in Requests, Insert(r)
    PROVE  IInv'
<1>1. Stored(Content[r].uuid) = {}
  BY DEF Insert, IInv, Reserved
<1>. QED
  BY <1>1 DEF Insert, IInv, TypeOK, Exclusion, SeqsBounded, SeqsUnique,
              UuidsUnique, Reserved, Stamps, Pending, AnsweredIsStored,
              Inside, Steps, Stored

(* A roll-back leaves counter and rows as they were committed. *)
LEMMA AbortIInv ==
    ASSUME IInv, NEW r \in Requests, Abort(r)
    PROVE  IInv'
BY RefusalRightful, FinishIInv DEF Abort

(* The commit publishes counter and row together. *)
LEMMA CommitIInv ==
    ASSUME IInv, NEW r \in Requests, Commit(r)
    PROVE  IInv'
<1> DEFINE new == NewRow(r, alloc[r], started[r])
<1>1. /\ alloc[r] = counter + 1 /\ counter \in Nat /\ started[r] \in Nat
      /\ Stored(Content[r].uuid) = {} /\ lock = r
      /\ \A s \in Requests \ {r} : pc[s] \notin Inside
  BY DEF Commit, IInv, TypeOK, Reserved, Exclusion, Inside
<1>2. new \in Row /\ new.seq = counter + 1 /\ new.uuid = Content[r].uuid
  <2>1. alloc[r] \in Nat \ {0}
    BY <1>1
  <2>. QED  BY <1>1, <2>1, NewRowType
<1>3. /\ rows' = rows \union {new} /\ counter' = counter + 1
      /\ \A row \in rows : row.seq <= counter /\ row.uuid # Content[r].uuid
  BY <1>1 DEF Commit, IInv, SeqsBounded, Stored
<1>4. TypeOK'
  BY <1>1, <1>2, <1>3 DEF Commit, Finish, IInv, TypeOK, Steps, Reply, Ok
<1>5. Exclusion'
  BY <1>1, NobodyAssumption DEF Commit, Finish, IInv, TypeOK, Exclusion, Inside
<1>6. SeqsBounded' /\ SeqsUnique' /\ UuidsUnique'
  <2>1. \A row \in rows : row.seq \in 1..counter
    BY DEF IInv, SeqsBounded
  <2>. QED  BY <1>1, <1>2, <1>3, <2>1
            DEF IInv, SeqsBounded, SeqsUnique, UuidsUnique
<1>7. Reserved'
  BY <1>1 DEF Commit, Finish, IInv, TypeOK, Reserved, Inside
<1>8. Stamps' /\ Pending'
  BY DEF Commit, Finish, IInv, TypeOK, Stamps, Pending
<1>9. AnsweredIsStored'
  <2>1. \A s \in Requests \ {r} : reply'[s] = reply[s]
    BY DEF Commit, Finish, IInv, TypeOK
  <2>2. reply'[r] = Ok(counter + 1)
    BY <1>1 DEF Commit, Finish, IInv, TypeOK
  <2>3. ASSUME NEW s \in Requests \ {r}, reply[s].kind = "ok"
        PROVE  reply[s].seq \in 1..counter'
               /\ \A row \in rows' : row.seq = reply[s].seq => row.uuid = Content[s].uuid
    BY <1>1, <1>2, <1>3, <2>3 DEF IInv, AnsweredIsStored
  <2>4. \A row \in rows' : row.seq = counter + 1 => row.uuid = Content[r].uuid
    BY <1>1, <1>2, <1>3 DEF IInv, SeqsBounded
  <2>. QED  BY <1>1, <1>3, <2>1, <2>2, <2>3, <2>4 DEF AnsweredIsStored, Ok
<1>. QED  BY <1>4, <1>5, <1>6, <1>7, <1>8, <1>9 DEF IInv

(* The clock only makes rows older. *)
LEMMA TickIInv ==
    ASSUME IInv, ClockTick
    PROVE  IInv'
BY DEF ClockTick, Tick, txnVars, IInv, TypeOK, Exclusion, SeqsBounded, SeqsUnique,
       UuidsUnique, Reserved, Stamps, Pending, AnsweredIsStored, Stored

(* The retention purge removes rows and leaves the counter. *)
LEMMA PurgeIInv ==
    ASSUME IInv, PurgeOldSyncEvents
    PROVE  IInv'
<1>1. rows' \subseteq rows /\ UNCHANGED <<now, counter, reply, pc, started, alloc, lock>>
  BY DEF PurgeOldSyncEvents, Purge, txnVars
<1>. QED  BY <1>1
          DEF IInv, TypeOK, Exclusion, SeqsBounded, SeqsUnique, UuidsUnique,
              Reserved, Stamps, Pending, AnsweredIsStored, Stored

(* The scrub maps rows one to one. *)
LEMMA ScrubIInv ==
    ASSUME IInv, ScrubUserPii
    PROVE  IInv'
<1>1. UNCHANGED <<now, counter, reply, pc, started, alloc, lock>>
  BY DEF ScrubUserPii, Scrub, txnVars
<1>2. \A x \in rows' : \E row \in rows : x = RedactRow(row)
  BY DEF ScrubUserPii, Scrub
<1>3. \A row \in rows : /\ row \in Row /\ RedactRow(row) \in Row
                        /\ RedactRow(row).seq = row.seq
                        /\ RedactRow(row).uuid = row.uuid
  BY RedactKeeps DEF IInv, TypeOK
<1>4. TypeOK' /\ Exclusion' /\ Stamps' /\ Pending'
  BY <1>1, <1>2, <1>3 DEF IInv, TypeOK, Exclusion, Stamps, Pending
<1>5. SeqsBounded' /\ SeqsUnique' /\ UuidsUnique'
  <2>1. SeqsBounded'
    BY <1>1, <1>2, <1>3 DEF IInv, SeqsBounded
  <2>2. SeqsUnique'
    BY <1>2, <1>3 DEF IInv, SeqsUnique
  <2>3. UuidsUnique'
    BY <1>2, <1>3 DEF IInv, UuidsUnique
  <2>. QED  BY <2>1, <2>2, <2>3
<1>6. Reserved' /\ AnsweredIsStored'
  BY <1>1, <1>2, <1>3 DEF IInv, Reserved, AnsweredIsStored, Stored
<1>. QED  BY <1>4, <1>5, <1>6 DEF IInv

(* Every step of every transaction and of the maintenance keeps it. *)
LEMMA NextIInv == IInv /\ [Next]_vars => IInv'
<1>1. CASE UNCHANGED vars
  BY <1>1 DEF vars, IInv, TypeOK, Exclusion, SeqsBounded, SeqsUnique,
              UuidsUnique, Reserved, Stamps, Pending, AnsweredIsStored, Stored
<1>2. CASE Next
  BY <1>2, BeginIInv, LockIInv, RecheckIInv, InsertIInv, CommitIInv, AbortIInv,
     TickIInv, PurgeIInv, ScrubIInv DEF Next, Transaction
<1>. QED  BY <1>1, <1>2

(* The invariant that carries every other result about the transaction:    *)
(* exclusion by the advisory lock, numbers and uuids stored at most once,  *)
(* reserved numbers still the next ones when they are committed.           *)
THEOREM SpecIInv == Spec => []IInv
BY InitIInv, NextIInv, PTL DEF Spec

(* AnsweredIsStored of every reachable state: the number a caller holds    *)
(* names its own event while the log retains it.                           *)
THEOREM SpecAnswerInv == Spec => []AnswerInv
<1>1. IInv => AnswerInv
  BY DEF IInv, AnswerInv
<1>. QED  BY <1>1, SpecIInv, PTL

-----------------------------------------------------------------------------
(* A step of the transaction moves the counter only with its row.          *)
LEMMA GaplessStep ==
    ASSUME IInv, [Next]_vars
    PROVE  IF counter' = counter
           THEN Seqs(rows') \subseteq Seqs(rows)
           ELSE /\ counter' = counter + 1
                /\ Seqs(rows') = Seqs(rows) \union {counter'}
<1>1. CASE UNCHANGED <<counter, rows>>
  BY <1>1 DEF Seqs
<1>2. ASSUME NEW r \in Requests, Commit(r)
      PROVE  counter' = counter + 1 /\ Seqs(rows') = Seqs(rows) \union {counter'}
  <2>1. alloc[r] = counter + 1
    BY <1>2 DEF Commit, IInv, Reserved
  <2>2. rows' = rows \union {NewRow(r, alloc[r], started[r])} /\ counter' = counter + 1
    BY <1>2, <2>1 DEF Commit
  <2>3. NewRow(r, alloc[r], started[r]).seq = counter + 1
    BY <2>1 DEF NewRow
  <2>. QED  BY <2>2, <2>3 DEF Seqs
<1>3. CASE PurgeOldSyncEvents
  BY <1>3 DEF PurgeOldSyncEvents, Purge, Seqs
<1>4. CASE ScrubUserPii
  <2>1. \A x \in rows' : \E row \in rows : x = RedactRow(row)
    BY <1>4 DEF ScrubUserPii, Scrub
  <2>2. \A row \in rows : RedactRow(row).seq = row.seq
    BY RedactKeeps DEF IInv, TypeOK
  <2>. QED  BY <1>4, <2>1, <2>2 DEF ScrubUserPii, Scrub, Seqs
<1>5. counter \in Nat
  BY DEF IInv, TypeOK
<1>6. ASSUME NEW r \in Requests, Begin(r) \/ Lock(r) \/ Recheck(r) \/ Insert(r) \/ Abort(r)
      PROVE  UNCHANGED <<counter, rows>>
  BY <1>6 DEF Begin, Lock, Recheck, Insert, Abort
<1>7. CASE UNCHANGED vars \/ ClockTick
  BY <1>1, <1>7 DEF vars, ClockTick, Tick
<1>. QED  BY <1>1, <1>2, <1>3, <1>4, <1>5, <1>6, <1>7 DEF Next, Transaction

(* ADR-002's promise about the numbers: handed out in commit order, with   *)
(* zero gaps, whatever is rolled back and however requests interleave.     *)
THEOREM SpecGapless == Spec => GaplessCommitOrder
<1>1. IInv /\ [Next]_vars =>
        [IF counter' = counter
         THEN Seqs(rows') \subseteq Seqs(rows)
         ELSE /\ counter' = counter + 1
              /\ Seqs(rows') = Seqs(rows) \union {counter'}]_vars
  BY GaplessStep
<1>. QED  BY <1>1, SpecIInv, PTL DEF Spec, GaplessCommitOrder

(* A retry is refused only when its uuid is stored with another body: the  *)
(* lock and the second look-up leave nothing for the UNIQUE constraint.    *)
THEOREM SpecConflict == Spec => ConflictOnlyOnOtherContent
<1> DEFINE Justified ==
      \A r \in Requests :
         reply[r] # Conflict /\ reply'[r] = Conflict =>
            \E row \in Stored(Content[r].uuid) : row.body # Content[r].body
<1>1. ASSUME IInv, [Next]_vars PROVE Justified
  <2> SUFFICES ASSUME NEW r \in Requests, reply[r] # Conflict, reply'[r] = Conflict
               PROVE  \E row \in Stored(Content[r].uuid) : row.body # Content[r].body
    OBVIOUS
  <2>1. ASSUME NEW s \in Requests, NEW answer, Finish(s, answer)
        PROVE  s = r /\ answer = Conflict
    BY <1>1, <2>1 DEF Finish, IInv, TypeOK
  <2>2. ASSUME NEW s \in Requests, NEW row \in Stored(Content[s].uuid),
               Finish(s, Answer(s, row))
        PROVE  \E x \in Stored(Content[r].uuid) : x.body # Content[r].body
    BY <2>1, <2>2 DEF Answer, Ok, Conflict
  <2>3. ASSUME NEW s \in Requests, Commit(s) PROVE FALSE
    BY <2>1, <2>3 DEF Commit, Ok, Conflict
  <2>4. ASSUME NEW s \in Requests, Abort(s) PROVE FALSE
    BY <2>1, <2>4 DEF Abort, Error, Conflict
  <2>5. ASSUME NEW s \in Requests, Insert(s) PROVE UNCHANGED reply
    <3>1. Stored(Content[s].uuid) = {}
      BY <1>1, <2>5 DEF Insert, IInv, Reserved
    <3>. QED  BY <2>5, <3>1 DEF Insert
  <2>6. ASSUME NEW s \in Requests, Begin(s) \/ Recheck(s)
        PROVE  \E x \in Stored(Content[r].uuid) : x.body # Content[r].body
    BY <2>2, <2>6 DEF Begin, Recheck
  <2>7. ~(UNCHANGED reply)
    OBVIOUS
  <2>. QED  BY <1>1, <2>3, <2>4, <2>5, <2>6, <2>7
            DEF Next, Transaction, Lock, ClockTick, Tick, PurgeOldSyncEvents, Purge,
                ScrubUserPii, Scrub, vars
<1>2. IInv /\ [Next]_vars => [Justified]_vars
  BY <1>1
<1>. QED  BY <1>2, SpecIInv, PTL DEF Spec, ConflictOnlyOnOtherContent

-----------------------------------------------------------------------------
(* Each step of the transaction is a step of the abstract log or a stutter *)
LEMMA RefineStep ==
    ASSUME IInv, [Next]_vars
    PROVE  [LogNext]_logVars
<1>1. ASSUME NEW r \in Requests, pc[r] # "done", NEW row \in Stored(Content[r].uuid),
             Finish(r, Answer(r, row)), UNCHANGED <<now, counter, rows>>
      PROVE  Repeat(r)
  BY <1>1 DEF Finish, Repeat, IInv, Pending
<1>2. ASSUME NEW r \in Requests, Begin(r) \/ Recheck(r)
      PROVE  [LogNext]_logVars
  <2>1. CASE Stored(Content[r].uuid) = {}
    BY <1>2, <2>1 DEF Begin, Recheck, logVars
  <2>2. CASE Stored(Content[r].uuid) # {}
    <3>1. PICK row \in Stored(Content[r].uuid) : Finish(r, Answer(r, row))
      BY <1>2, <2>2 DEF Begin, Recheck
    <3>2. pc[r] # "done" /\ UNCHANGED <<now, counter, rows>>
      BY <1>2 DEF Begin, Recheck
    <3>. QED  BY <1>1, <3>1, <3>2 DEF LogNext
  <2>. QED  BY <2>1, <2>2
<1>3. ASSUME NEW r \in Requests, Lock(r) \/ Insert(r)
      PROVE  UNCHANGED logVars
  <2>1. CASE Lock(r)
    BY <2>1 DEF Lock, logVars
  <2>2. CASE Insert(r)
    BY <2>2 DEF Insert, IInv, Reserved, logVars
  <2>. QED  BY <1>3, <2>1, <2>2
<1>4. ASSUME NEW r \in Requests, Commit(r)
      PROVE  Append(r)
  <2>1. /\ reply[r] = NoReply /\ Stored(Content[r].uuid) = {}
        /\ alloc[r] = counter + 1 /\ started[r] \in 0..now
    BY <1>4 DEF Commit, IInv, TypeOK, Pending, Reserved, Stamps
  <2>. QED  BY <1>4, <2>1 DEF Commit, Finish, Append
<1>5. ASSUME NEW r \in Requests, Abort(r)
      PROVE  Fail(r)
  BY <1>5 DEF Abort, Finish, Fail, IInv, Pending, Inside
<1>6. CASE ClockTick \/ PurgeOldSyncEvents \/ ScrubUserPii
  BY <1>6 DEF ClockTick, PurgeOldSyncEvents, ScrubUserPii, LogNext
<1>7. CASE UNCHANGED vars
  BY <1>7 DEF vars, logVars
<1>. QED  BY <1>2, <1>3, <1>4, <1>5, <1>6, <1>7 DEF Next, Transaction, LogNext

(* The transaction in the migration implements the indivisible append that *)
(* the device-side models are built on.                                    *)
THEOREM SpecImplementsEventLog == Spec => ImplementsEventLog
<1>1. Init => LogInit
  BY DEF Init
<1>2. IInv /\ [Next]_vars => [LogNext]_logVars
  BY RefineStep
<1>. QED  BY <1>1, <1>2, SpecIInv, PTL DEF Spec, ImplementsEventLog, LogSpec

-----------------------------------------------------------------------------
(* SyncPull.  A set of naturals has a least element. *)
LEMMA MinIsLeast ==
    ASSUME NEW S \in SUBSET Nat, S # {}
    PROVE  Min(S) \in S /\ \A s \in S : Min(S) <= s
<1> DEFINE T == {0..s : s \in S}
<1>1. T \subseteq FiniteSubsetsOf(Nat) /\ T # {}
  <2>1. \A s \in S : IsFiniteSet(0..s) /\ 0..s \in SUBSET Nat
    BY FS_Interval
  <2>. QED  BY <2>1 DEF FiniteSubsetsOf
<1>2. PICK X \in T : \A Y \in T : <<Y, X>> \notin StrictSubsetOrdering(Nat)
  BY <1>1, FS_StrictSubsetOrderingWellFounded, WFMin
<1>3. PICK x \in S : X = 0..x
  BY <1>2
<1>4. \A y \in S : ~(y < x)
  <2>1. SUFFICES ASSUME NEW y \in S, y < x  PROVE FALSE
    OBVIOUS
  <2>2. 0..y \in T /\ 0..y \subseteq X /\ 0..y # X /\ X \subseteq Nat
    BY <1>3, <2>1
  <2>. QED  BY <1>2, <2>2 DEF StrictSubsetOrdering
<1>5. \A y \in S : x <= y
  BY <1>4
<1>. QED  BY <1>5 DEF Min

(* One that does not go beyond n has a greatest element. *)
LEMMA MaxIsGreatest ==
    ASSUME NEW S \in SUBSET Nat, S # {}, NEW n \in Nat, \A s \in S : s <= n
    PROVE  Max(S) \in S /\ \A s \in S : s <= Max(S)
<1> DEFINE T == {n - s : s \in S}
<1>1. T \in SUBSET Nat /\ T # {}
  <2>1. \A s \in S : n - s \in Nat
    OBVIOUS
  <2>. QED  BY <2>1
<1>2. PICK x \in S : \A s \in S : n - x <= n - s
  <2>1. Min(T) \in T /\ \A t \in T : Min(T) <= t
    BY <1>1, MinIsLeast
  <2>2. PICK x \in S : Min(T) = n - x
    BY <2>1
  <2>. QED  BY <2>1, <2>2
<1>3. x \in S /\ \A s \in S : x >= s
  BY <1>2
<1>. QED  BY <1>3 DEF Max

(* What a page takes is a beginning of what there is: with a number, every *)
(* smaller one.                                                            *)
LEMMA LowestIsPrefix ==
    ASSUME NEW S \in SUBSET Nat, IsFiniteSet(S), NEW n \in Nat,
           NEW t \in Lowest(S, n), NEW s \in S, s <= t
    PROVE  s \in Lowest(S, n)
<1> DEFINE Below(k) == {u \in S : u < k}
<1>1. IsFiniteSet(Below(t)) /\ Below(s) \in SUBSET Below(t)
  <2>1. Below(t) \in SUBSET S /\ t \in Nat
    BY DEF Lowest
  <2>2. IsFiniteSet(Below(t))
    BY <2>1, FS_Subset
  <2>3. \A u \in S : u < s => u < t
    BY <2>1
  <2>4. Below(s) \in SUBSET Below(t)
    BY <2>3
  <2>. QED  BY <2>2, <2>4
<1>2. Cardinality(Below(s)) <= Cardinality(Below(t)) /\ IsFiniteSet(Below(s))
  BY <1>1, FS_Subset
<1>3. Cardinality(Below(t)) \in Nat /\ Cardinality(Below(s)) \in Nat
  BY <1>1, <1>2, FS_CardinalityType
<1>. QED  BY <1>2, <1>3 DEF Lowest

-----------------------------------------------------------------------------
(* A device's cursor never counts more than the log has handed out, and    *)
(* the request in progress began where the cursor still stands.            *)
CursorsBounded ==
    \A d \in Devices :
       /\ cursor[d] <= counter /\ call[d].latest <= counter
       /\ call[d].step # "idle" => call[d].since = cursor[d]

(* From the moment a page is read until its cursor is stored, what the     *)
(* cursor is going to pass is on the page, applied already, or veiled.     *)
PageComplete ==
    \A d \in Devices : call[d].step \in {"touch", "reply", "apply"} =>
       /\ call[d].since <= call[d].latest
       /\ \A row \in rows :
             row.uuid \in Visible[d] /\ row.seq \in (call[d].since + 1)..call[d].latest
                => row.seq \in call[d].events \union got[d] \union veiled[d]

(* A snapshot stands for no less than the cursor it replaces, unless its   *)
(* counter was not read: then it stands for nothing.                       *)
SnapshotAhead ==
    \A d \in Devices : call[d].step \in {"snaptouch", "snapped"} =>
       cursor[d] <= call[d].latest \/ (call[d].unread /\ call[d].latest = 0)

PullIInv == /\ PullTypeOK /\ SeqsBounded /\ CursorsBounded /\ PageComplete
            /\ SnapshotAhead /\ NoRetainedEventSkipped

(* Devices with no cursor over an empty log satisfy the invariant. *)
THEOREM PullInitIInv == PullInit => PullIInv
BY PageAssumption
DEF PullInit, LogInit, PullIInv, PullTypeOK, SeqsBounded, CursorsBounded, PageComplete,
    SnapshotAhead, NoRetainedEventSkipped, Idle, Call, CallSteps, ServerSteps, ReplySteps

(* The parts of the state of a device, with their types. *)
LEMMA DeviceTypes ==
    ASSUME PullTypeOK, NEW d \in Devices
    PROVE  /\ cursor[d] \in Nat /\ base[d] \in Nat /\ got[d] \in SUBSET Nat
           /\ call[d] \in Call /\ call[d].since \in Nat /\ call[d].latest \in Nat
           /\ call[d].events \in SUBSET Nat /\ call[d].more \in BOOLEAN
           /\ veiled[d] \in SUBSET Nat
BY DEF PullTypeOK, Call

(* What a step of the log does to the rows: a row is an old one, with its  *)
(* number and uuid, or the new one with the next number.                   *)
LEMMA RowsKept ==
    ASSUME PullTypeOK, LogNext
    PROVE  /\ rows' \subseteq Row /\ now' \in Nat
           /\ counter' = counter \/ counter' = counter + 1
           /\ \A row \in rows' :
                 \/ \E old \in rows : row.seq = old.seq /\ row.uuid = old.uuid
                 \/ row.seq = counter + 1 /\ counter' = counter + 1
<1>1. ASSUME NEW r \in Requests, Append(r)
      PROVE  /\ rows' \subseteq Row /\ now' \in Nat /\ counter' = counter + 1
             /\ \A row \in rows' : row \in rows \/ row.seq = counter + 1
  BY <1>1, ContentAssumption DEF Append, NewRow, Row, PullTypeOK
<1>2. ASSUME NEW r \in Requests, Repeat(r) \/ Fail(r)
      PROVE  UNCHANGED <<now, counter, rows>>
  BY <1>2 DEF Repeat, Fail
<1>3. CASE Tick
  BY <1>3 DEF Tick, PullTypeOK
<1>4. CASE Purge
  BY <1>4 DEF Purge, PullTypeOK
<1>5. CASE Scrub
  BY <1>5 DEF Scrub, RedactRow, Row, PullTypeOK
<1>. QED  BY <1>1, <1>2, <1>3, <1>4, <1>5 DEF LogNext, PullTypeOK

(* The log may do anything between two statements of the handler. *)
LEMMA LogStepIInv ==
    ASSUME PullIInv, LogNext, UNCHANGED pullVars
    PROVE  PullIInv'
<1>1. PullTypeOK' /\ counter <= counter'
  BY RowsKept DEF PullIInv, PullTypeOK, pullVars
<1>2. SeqsBounded'
  BY RowsKept DEF PullIInv, PullTypeOK, SeqsBounded
<1>3. CursorsBounded'
  BY <1>1, RowsKept, DeviceTypes DEF PullIInv, PullTypeOK, CursorsBounded, pullVars
<1>4. \A d \in Devices : \A row \in rows' :
         row.seq <= cursor[d] \/ row.seq <= call[d].latest =>
            \E old \in rows : row.seq = old.seq /\ row.uuid = old.uuid
  BY RowsKept, DeviceTypes DEF PullIInv, PullTypeOK, CursorsBounded
<1>5. PageComplete'
  BY <1>4, DeviceTypes DEF PullIInv, PageComplete, pullVars
<1>6. SnapshotAhead'
  BY DEF PullIInv, SnapshotAhead, pullVars
<1>7. NoRetainedEventSkipped'
  BY <1>4 DEF PullIInv, NoRetainedEventSkipped, pullVars
<1>. QED  BY <1>1, <1>2, <1>3, <1>5, <1>6, <1>7 DEF PullIInv

-----------------------------------------------------------------------------
(* One lemma per statement of the handler and of the device. *)
LEMMA StartPullIInv ==
    ASSUME PullIInv, NEW d \in Devices, StartPull(d)
    PROVE  PullIInv'
<1>1. PullTypeOK'
  BY DeviceTypes DEF PullIInv, PullTypeOK, StartPull, Ask, Idle, logVars,
                     Call, CallSteps, ServerSteps, ReplySteps
<1>. QED
  BY <1>1, DeviceTypes
  DEF PullIInv, PullTypeOK, SeqsBounded, CursorsBounded, PageComplete, SnapshotAhead,
      NoRetainedEventSkipped, StartPull, Ask, Idle, logVars

(* The steps that only send the request on: its content stays.             *)
LEMMA GotoIInv ==
    ASSUME PullIInv, NEW d \in Devices, NEW step \in CallSteps \ {"idle"},
           ~At(d, "idle"), Goto(d, step),
           step \in {"touch", "reply", "apply"} => call[d].step \in {"touch", "reply", "apply"},
           step \in {"snaptouch", "snapped"} => call[d].step \in {"snaptouch", "snapped"},
           registered' \in [Devices -> Nat],
           failures' \in 0..MaxFailures,
           UNCHANGED <<logVars, cursor, got, base, veiled>>
    PROVE  PullIInv'
<1>1. PullTypeOK'
  BY DEF PullIInv, PullTypeOK, Goto, logVars, Call
<1>2. /\ \A e \in Devices \ {d} : call'[e] = call[e]
      /\ call'[d] = [call[d] EXCEPT !.step = step]
  BY DEF PullIInv, PullTypeOK, Goto
<1>3. /\ call'[d].step = step /\ call'[d].since = call[d].since
      /\ call'[d].latest = call[d].latest /\ call'[d].events = call[d].events
      /\ call'[d].unread = call[d].unread
  BY <1>2, DeviceTypes DEF Call, PullIInv
<1>4. SeqsBounded' /\ CursorsBounded'
  BY <1>2, <1>3 DEF PullIInv, SeqsBounded, CursorsBounded, At, logVars
<1>5. PageComplete' /\ SnapshotAhead'
  BY <1>2, <1>3 DEF PullIInv, PageComplete, SnapshotAhead, logVars
<1>6. NoRetainedEventSkipped'
  BY DEF PullIInv, NoRetainedEventSkipped, logVars
<1>. QED  BY <1>1, <1>4, <1>5, <1>6 DEF PullIInv

(* The retention check decides between the page and the 410. *)
LEMMA CheckRetentionIInv ==
    ASSUME PullIInv, NEW d \in Devices, CheckRetention(d)
    PROVE  PullIInv'
BY GotoIInv DEF CheckRetention, At, CallSteps, ServerSteps, ReplySteps, PullIInv, PullTypeOK

(* A query of the check that fails costs no more than the 410 or the page  *)
(* the answer would have ruled out.                                        *)
LEMMA UnreadIInv ==
    ASSUME PullIInv, NEW d \in Devices, RetentionUnread(d) \/ CounterUnread(d)
    PROVE  PullIInv'
<1>1. failures' \in 0..MaxFailures
  BY PageAssumption DEF RetentionUnread, CounterUnread, QueryFails, PullIInv, PullTypeOK
<1>. QED  BY <1>1, GotoIInv DEF RetentionUnread, CounterUnread, At, CallSteps, ServerSteps,
                               ReplySteps, PullIInv, PullTypeOK

(* So does the counter, when the log is empty. *)
LEMMA CheckCounterIInv ==
    ASSUME PullIInv, NEW d \in Devices, CheckCounter(d)
    PROVE  PullIInv'
BY GotoIInv DEF CheckCounter, At, CallSteps, ServerSteps, ReplySteps, PullIInv, PullTypeOK

(* The health registry is no part of what the cursor promises. *)
LEMMA TouchIInv ==
    ASSUME PullIInv, NEW d \in Devices, Touch(d)
    PROVE  PullIInv'
<1>1. registered' \in [Devices -> Nat]
  BY DeviceTypes DEF Touch, PullIInv, PullTypeOK
<1>2. failures' \in 0..MaxFailures
  BY PageAssumption DEF Touch, QueryFails, PullIInv, PullTypeOK
<1>. QED  BY <1>1, <1>2, GotoIInv DEF Touch, At, CallSteps, ServerSteps, ReplySteps

(* A page that arrives is the page that was read, ... *)
LEMMA ReceiveIInv ==
    ASSUME PullIInv, NEW d \in Devices, Receive(d)
    PROVE  PullIInv'
BY GotoIInv DEF Receive, At, CallSteps, PullIInv, PullTypeOK

(* ... and after a 410 the snapshot is asked for, with no page kept. *)
LEMMA ReceiveGoneIInv ==
    ASSUME PullIInv, NEW d \in Devices, ReceiveGone(d)
    PROVE  PullIInv'
BY GotoIInv DEF ReceiveGone, At, CallSteps, ServerSteps, PullIInv, PullTypeOK

(* The page and its cursor: what lies up to the cursor is on the page. *)
LEMMA PageIsComplete ==
    ASSUME NEW since \in Nat, NEW S \in SUBSET Nat, NEW n \in Nat,
           \A s \in S : s <= n, since <= n, \A s \in S : since < s
    PROVE  LET page   == Lowest(Lowest(S, PageSize + 1), PageSize)
               latest == Max(page \union {since})
           IN  /\ page \subseteq S /\ latest \in since..n
               /\ \A s \in S : s <= latest => s \in page
<1> DEFINE fetched == Lowest(S, PageSize + 1)
           page    == Lowest(fetched, PageSize)
           latest  == Max(page \union {since})
<1>1. IsFiniteSet(S)
  BY FS_BoundedSetOfNaturals
<1>2. fetched \in SUBSET S /\ page \in SUBSET fetched /\ IsFiniteSet(fetched)
  <2>1. fetched \in SUBSET S /\ page \in SUBSET fetched
    BY DEF Lowest
  <2>. QED  BY <1>1, <2>1, FS_Subset
<1>3. /\ latest \in page \union {since}
      /\ \A s \in page \union {since} : s <= latest
  <2>1. page \union {since} \in SUBSET Nat /\ \A s \in page \union {since} : s <= n
    BY <1>2
  <2>. HIDE DEF page
  <2>. QED  BY <2>1, MaxIsGreatest
<1>4. ASSUME NEW s \in S, s <= latest  PROVE s \in page
  <2>1. latest \in page
    BY <1>3, <1>4
  <2>2. latest \in fetched
    BY <2>1, <1>2
  <2>3. PageSize + 1 \in Nat /\ PageSize \in Nat
    BY PageAssumption
  <2>4. s \in fetched
    BY <1>1, <1>4, <2>2, <2>3, LowestIsPrefix
  <2>5. fetched \in SUBSET Nat
    BY <1>2
  <2>. HIDE DEF fetched
  <2>. QED  BY <1>2, <1>4, <2>1, <2>3, <2>4, <2>5, LowestIsPrefix
<1>5. page \subseteq S /\ latest \in since..n
  <2>1. page \subseteq S /\ latest \in page \union {since} /\ since <= latest
    BY <1>2, <1>3
  <2>2. latest \in Nat /\ latest <= n
    BY <2>1
  <2>. QED  BY <2>1, <2>2
<1>. QED  BY <1>4, <1>5

(* A page read establishes PageComplete for its device: whatever of the    *)
(* page it is not sent is counted as veiled.                               *)
LEMMA PageIInv ==
    ASSUME PullIInv, NEW d \in Devices, At(d, "page"), NEW events \in SUBSET Shown(d),
           AnswerPage(d, events, Max(Page(d) \union {call[d].since})),
           veiled' = [veiled EXCEPT ![d] = @ \union (Shown(d) \ events)],
           failures' \in 0..MaxFailures,
           UNCHANGED <<logVars, cursor, got, base, registered>>
    PROVE  PullIInv'
<1> DEFINE since == call[d].since
           S == {s \in Seqs(rows) : s > since}
           latest == Max(Page(d) \union {since})
<1>1. /\ since \in Nat /\ counter \in Nat /\ since <= counter /\ since = cursor[d]
      /\ S \in SUBSET Nat /\ \A s \in S : s <= counter /\ since < s
  <2>1. since \in Nat /\ counter \in Nat /\ since <= counter /\ since = cursor[d]
    BY DeviceTypes DEF At, PullIInv, PullTypeOK, CursorsBounded
  <2>2. \A row \in rows : row.seq \in 1..counter
    BY DEF PullIInv, SeqsBounded
  <2>. QED  BY <2>1, <2>2 DEF Seqs
<1>2. Page(d) \subseteq S /\ latest \in since..counter /\ \A s \in S : s <= latest => s \in Page(d)
  <2> DEFINE page == Lowest(Lowest(S, PageSize + 1), PageSize)
             top  == Max(page \union {since})
  <2>1. page \subseteq S /\ top \in since..counter /\ \A s \in S : s <= top => s \in page
    <3>. HIDE DEF S
    <3>. QED  BY <1>1, PageIsComplete
  <2>2. Page(d) = page
    BY DEF Page, Fetched
  <2>. HIDE DEF S, page
  <2>. QED  BY <2>1, <2>2
<1>3. Shown(d) \in SUBSET Nat /\ latest \in Nat
  BY <1>1, <1>2 DEF Shown
<1>4. \A row \in rows : row.uuid \in Visible[d] /\ row.seq \in (since + 1)..latest
            => row.seq \in Shown(d)
  <2>. SUFFICES ASSUME NEW row \in rows, row.uuid \in Visible[d],
                       row.seq \in (since + 1)..latest
                PROVE  row.seq \in Shown(d)
    OBVIOUS
  <2>1. row.seq \in Seqs(rows)
    BY DEF Seqs
  <2>. HIDE DEF latest
  <2>2. row.seq \in S /\ row.seq <= latest
    BY <1>1, <1>3, <2>1
  <2>3. row.seq \in Page(d)
    BY <1>2, <2>2 DEF latest
  <2>. QED  BY <2>3 DEF Shown
<1>. HIDE DEF S, latest
<1>5. /\ call' \in [Devices -> Call] /\ \A e \in Devices \ {d} : call'[e] = call[e]
      /\ call'[d].step = "touch" /\ call'[d].since = since
      /\ call'[d].latest = latest /\ call'[d].events = events
  <2> DEFINE more == Fetched(d) # Page(d)
             c == [call[d] EXCEPT !.step = "touch", !.events = events, !.latest = latest,
                                  !.more = more]
  <2>1. call' = [call EXCEPT ![d] = c]
    BY DEF AnswerPage, latest, PullIInv, PullTypeOK
  <2>2. events \in SUBSET Nat /\ more \in BOOLEAN /\ call[d] \in Call
    BY <1>3, DeviceTypes DEF PullIInv
  <2>. HIDE DEF more
  <2>3. /\ c \in Call /\ c.step = "touch" /\ c.since = since /\ c.latest = latest
        /\ c.events = events
    BY <1>3, <2>2 DEF Call, CallSteps, ServerSteps
  <2>. HIDE DEF c
  <2>. QED  BY <2>1, <2>3 DEF PullIInv, PullTypeOK
<1>6. /\ veiled' \in [Devices -> SUBSET Nat] /\ \A e \in Devices \ {d} : veiled'[e] = veiled[e]
      /\ veiled'[d] = veiled[d] \union (Shown(d) \ events)
  BY <1>3 DEF PullIInv, PullTypeOK
<1>7. PullTypeOK' /\ SeqsBounded'
  BY <1>5, <1>6 DEF PullIInv, PullTypeOK, SeqsBounded, logVars
<1>8. CursorsBounded' /\ SnapshotAhead'
  BY <1>1, <1>2, <1>5 DEF PullIInv, PullTypeOK, CursorsBounded, SnapshotAhead, logVars, latest
<1>9. PageComplete'
  <2>1. ASSUME NEW e \in Devices \ {d}
        PROVE  veiled'[e] = veiled[e] /\ call'[e] = call[e] /\ got'[e] = got[e] /\ rows' = rows
    BY <1>5, <1>6 DEF logVars
  <2>2. since <= latest
    BY <1>1, <1>2 DEF latest
  <2>3. \A row \in rows : row.uuid \in Visible[d] /\ row.seq \in (since + 1)..latest
           => row.seq \in events \union veiled'[d]
    BY <1>4, <1>6
  <2>4. rows' = rows /\ got' = got
    BY DEF logVars
  <2>. QED  BY <1>5, <2>1, <2>2, <2>3, <2>4 DEF PullIInv, PageComplete
<1>10. NoRetainedEventSkipped'
  BY <1>6 DEF PullIInv, NoRetainedEventSkipped, logVars
<1>. QED  BY <1>7, <1>8, <1>9, <1>10 DEF PullIInv

(* With every look-up answered nothing is veiled, ... *)
LEMMA ReadPageIInv ==
    ASSUME PullIInv, NEW d \in Devices, ReadPage(d)
    PROVE  PullIInv'
<1>1. veiled' = [veiled EXCEPT ![d] = @ \union (Shown(d) \ Shown(d))]
  <2>1. [veiled EXCEPT ![d] = @ \union (Shown(d) \ Shown(d))] = veiled
    BY DEF PullIInv, PullTypeOK
  <2>. QED  BY <2>1 DEF ReadPage
<1>. QED  BY <1>1, PageIInv DEF ReadPage, PullIInv, PullTypeOK

(* ... and with a failed one what is left out is. *)
LEMMA ReadPageVeiledIInv ==
    ASSUME PullIInv, NEW d \in Devices, ReadPageVeiled(d)
    PROVE  PullIInv'
<1>1. failures' \in 0..MaxFailures
  BY PageAssumption DEF ReadPageVeiled, QueryFails, PullIInv, PullTypeOK
<1>. QED  BY <1>1, PageIInv DEF ReadPageVeiled

(* The snapshot's number is the counter's, or 0 and known to be unread.    *)
LEMMA ReadSnapshotIInv ==
    ASSUME PullIInv, NEW d \in Devices, ReadSnapshot(d)
    PROVE  PullIInv'
<1>1. /\ call' \in [Devices -> Call] /\ \A e \in Devices \ {d} : call'[e] = call[e]
      /\ call'[d].step = "snaptouch" /\ call'[d].since = call[d].since
      /\ call'[d].latest = counter \/ (call'[d].latest = 0 /\ call'[d].unread)
      /\ failures' \in 0..MaxFailures
  <2>1. failures' \in 0..MaxFailures
    BY PageAssumption DEF ReadSnapshot, QueryFails, PullIInv, PullTypeOK
  <2>2. CASE call' = [call EXCEPT ![d].step = "snaptouch", ![d].latest = counter]
    <3> DEFINE c == [call[d] EXCEPT !.step = "snaptouch", !.latest = counter]
    <3>1. call' = [call EXCEPT ![d] = c]
      BY <2>2 DEF PullIInv, PullTypeOK
    <3>2. /\ c \in Call /\ c.step = "snaptouch" /\ c.since = call[d].since
          /\ c.latest = counter
      BY DEF PullIInv, PullTypeOK, Call, CallSteps, ServerSteps
    <3>. HIDE DEF c
    <3>. QED  BY <2>1, <3>1, <3>2 DEF PullIInv, PullTypeOK
  <2>3. CASE call' = [call EXCEPT ![d].step = "snaptouch", ![d].latest = 0, ![d].unread = TRUE]
    <3> DEFINE c == [call[d] EXCEPT !.step = "snaptouch", !.latest = 0, !.unread = TRUE]
    <3>1. call' = [call EXCEPT ![d] = c]
      BY <2>3 DEF PullIInv, PullTypeOK
    <3>2. /\ c \in Call /\ c.step = "snaptouch" /\ c.since = call[d].since
          /\ c.latest = 0 /\ c.unread
      BY DEF PullIInv, PullTypeOK, Call, CallSteps, ServerSteps
    <3>. HIDE DEF c
    <3>. QED  BY <2>1, <3>1, <3>2 DEF PullIInv, PullTypeOK
  <2>. QED  BY <2>2, <2>3 DEF ReadSnapshot
<1>2. PullTypeOK' /\ SeqsBounded'
  BY <1>1 DEF ReadSnapshot, PullIInv, PullTypeOK, SeqsBounded, logVars
<1>3. CursorsBounded' /\ SnapshotAhead'
  BY <1>1 DEF ReadSnapshot, PullIInv, PullTypeOK, CursorsBounded, SnapshotAhead, At, logVars
<1>4. PageComplete' /\ NoRetainedEventSkipped'
  BY <1>1 DEF ReadSnapshot, PullIInv, PageComplete, NoRetainedEventSkipped, logVars
<1>. QED  BY <1>2, <1>3, <1>4 DEF PullIInv

(* An event moves from the page to what has been applied. *)
LEMMA ApplyEventIInv ==
    ASSUME PullIInv, NEW d \in Devices, ApplyEvent(d)
    PROVE  PullIInv'
<1> DEFINE s == Min(call[d].events)
<1>1. s \in Nat
  BY MinIsLeast, DeviceTypes DEF ApplyEvent, PullIInv
<1>2. /\ got' = [got EXCEPT ![d] = @ \union {s}]
      /\ call' = [call EXCEPT ![d].events = @ \ {s}]
      /\ UNCHANGED <<logVars, cursor, base, veiled, registered, failures>> /\ At(d, "apply")
  BY DEF ApplyEvent
<1>. HIDE DEF s
<1>3. /\ got' \in [Devices -> SUBSET Nat] /\ \A e \in Devices \ {d} : got'[e] = got[e]
      /\ got'[d] = got[d] \union {s}
      /\ call' \in [Devices -> Call] /\ \A e \in Devices \ {d} : call'[e] = call[e]
      /\ call'[d].step = call[d].step /\ call'[d].since = call[d].since
      /\ call'[d].latest = call[d].latest /\ call'[d].events = call[d].events \ {s}
      /\ call'[d].unread = call[d].unread
  BY <1>1, <1>2 DEF PullIInv, PullTypeOK, Call
<1>4. PullTypeOK' /\ SeqsBounded'
  BY <1>2, <1>3 DEF PullIInv, PullTypeOK, SeqsBounded, logVars
<1>5. CursorsBounded' /\ SnapshotAhead'
  BY <1>2, <1>3 DEF PullIInv, CursorsBounded, SnapshotAhead, logVars
<1>6. PageComplete'
  BY <1>2, <1>3 DEF PullIInv, PageComplete, logVars
<1>7. NoRetainedEventSkipped'
  BY <1>2, <1>3 DEF PullIInv, NoRetainedEventSkipped, logVars
<1>. QED  BY <1>4, <1>5, <1>6, <1>7 DEF PullIInv

(* The cursor passes the page only when all of it has been applied. *)
LEMMA SaveCursorIInv ==
    ASSUME PullIInv, NEW d \in Devices, SaveCursor(d)
    PROVE  PullIInv' /\ cursor[d] <= cursor'[d] /\ \A e \in Devices \ {d} : cursor'[e] = cursor[e]
<1> DEFINE next == Max({call[d].since, call[d].latest})
<1>1. /\ call[d].since = cursor[d] /\ call[d].since <= call[d].latest
      /\ call[d].latest <= counter /\ counter \in Nat
      /\ call[d].since \in Nat /\ call[d].latest \in Nat
  BY DeviceTypes DEF SaveCursor, At, PullIInv, PullTypeOK, CursorsBounded, PageComplete
<1>2. next = call[d].latest
  <2>1. next \in {call[d].since, call[d].latest} /\ call[d].latest <= next
    BY <1>1, MaxIsGreatest
  <2>. QED  BY <1>1, <2>1
<1>3. /\ cursor' = [cursor EXCEPT ![d] = next]
      /\ IF call[d].more THEN Ask(d, next) ELSE call' = [call EXCEPT ![d] = Idle]
      /\ call[d].events = {} /\ At(d, "apply")
      /\ UNCHANGED <<logVars, got, base, veiled, registered, failures>>
  BY DEF SaveCursor
<1>. HIDE DEF next
<1>4. /\ call' \in [Devices -> Call] /\ \A e \in Devices \ {d} : call'[e] = call[e]
      /\ call'[d].step \in {"idle", "retention", "page"} /\ call'[d].latest = 0
      /\ call'[d].step # "idle" => call'[d].since = next
  <2> DEFINE asked == [Idle EXCEPT !.step = IF next > 0 THEN "retention" ELSE "page",
                                   !.since = next]
             c == IF call[d].more THEN asked ELSE Idle
  <2>1. call' = [call EXCEPT ![d] = c]
    BY <1>3 DEF Ask
  <2>2. /\ c \in Call /\ c.step \in {"idle", "retention", "page"} /\ c.latest = 0
        /\ c.step # "idle" => c.since = next
    <3>1. /\ asked \in Call /\ asked.step \in {"retention", "page"} /\ asked.latest = 0
          /\ asked.since = next
      BY <1>1, <1>2 DEF Idle, Call, CallSteps, ServerSteps
    <3>2. Idle \in Call /\ Idle.step = "idle" /\ Idle.latest = 0
      BY DEF Idle, Call, CallSteps
    <3>. HIDE DEF asked
    <3>. QED  BY <3>1, <3>2
  <2>. HIDE DEF c
  <2>. QED  BY <2>1, <2>2 DEF PullIInv, PullTypeOK
<1>5. /\ cursor' \in [Devices -> Nat] /\ \A e \in Devices \ {d} : cursor'[e] = cursor[e]
      /\ cursor'[d] = next
  BY <1>1, <1>2, <1>3 DEF PullIInv, PullTypeOK
<1>6. PullTypeOK' /\ SeqsBounded'
  BY <1>3, <1>4, <1>5 DEF PullIInv, PullTypeOK, SeqsBounded, logVars
<1>7. CursorsBounded' /\ SnapshotAhead'
  BY <1>1, <1>2, <1>3, <1>4, <1>5 DEF PullIInv, CursorsBounded, SnapshotAhead, logVars
<1>8. PageComplete'
  BY <1>3, <1>4 DEF PullIInv, PageComplete, logVars
<1>9. NoRetainedEventSkipped'
  <2>1. ASSUME NEW row \in rows, row.uuid \in Visible[d], row.seq <= next
        PROVE  row.seq \in got[d] \union veiled[d] \/ row.seq <= base[d]
    <3>1. row.seq \in Nat
      BY DEF PullIInv, PullTypeOK, Row
    <3>2. CASE row.seq <= cursor[d]
      BY <2>1, <3>2 DEF PullIInv, NoRetainedEventSkipped
    <3>3. CASE ~(row.seq <= cursor[d])
      BY <1>1, <1>2, <1>3, <2>1, <3>1, <3>3 DEF PullIInv, PageComplete, At
    <3>. QED  BY <3>2, <3>3
  <2>. QED  BY <1>3, <1>5, <2>1 DEF PullIInv, NoRetainedEventSkipped, logVars
<1>. QED  BY <1>1, <1>2, <1>5, <1>6, <1>7, <1>8, <1>9 DEF PullIInv

(* What a step may do to the cursors. *)
Back(d) == \/ cursor[d] <= cursor'[d]
           \/ At(d, "snapped") /\ call[d].unread /\ cursor'[d] = 0

(* The snapshot stands for everything up to its number. *)
LEMMA SaveSnapshotIInv ==
    ASSUME PullIInv, NEW d \in Devices, SaveSnapshot(d)
    PROVE  PullIInv' /\ Back(d) /\ \A e \in Devices \ {d} : cursor'[e] = cursor[e]
<1>1. /\ call' \in [Devices -> Call] /\ \A e \in Devices \ {d} : call'[e] = call[e]
      /\ call'[d].step = "idle" /\ call'[d].latest = 0
      /\ cursor' \in [Devices -> Nat] /\ \A e \in Devices \ {d} : cursor'[e] = cursor[e]
      /\ cursor'[d] = call[d].latest /\ Back(d)
      /\ base' \in [Devices -> Nat] /\ \A e \in Devices \ {d} : base'[e] = base[e]
      /\ base'[d] = call[d].latest
  BY DeviceTypes DEF SaveSnapshot, Back, At, PullIInv, PullTypeOK, SnapshotAhead, Idle, Call, CallSteps
<1>2. PullTypeOK' /\ SeqsBounded'
  BY <1>1 DEF SaveSnapshot, PullIInv, PullTypeOK, SeqsBounded, logVars
<1>3. CursorsBounded' /\ SnapshotAhead'
  BY <1>1 DEF SaveSnapshot, PullIInv, PullTypeOK, CursorsBounded, SnapshotAhead, logVars
<1>4. PageComplete'
  BY <1>1 DEF SaveSnapshot, PullIInv, PageComplete, logVars
<1>5. NoRetainedEventSkipped'
  BY <1>1 DEF SaveSnapshot, PullIInv, NoRetainedEventSkipped, logVars
<1>. QED  BY <1>1, <1>2, <1>3, <1>4, <1>5 DEF PullIInv

(* What is lost with a pass is only the request. *)
LEMMA BreakIInv ==
    ASSUME PullIInv, NEW d \in Devices, Break(d)
    PROVE  PullIInv'
<1>1. /\ call' \in [Devices -> Call] /\ \A e \in Devices \ {d} : call'[e] = call[e]
      /\ call'[d].step = "idle" /\ call'[d].latest = 0
  BY DEF Break, PullIInv, PullTypeOK, Idle, Call, CallSteps
<1>2. PullTypeOK' /\ SeqsBounded'
  BY <1>1, PageAssumption DEF Break, PullIInv, PullTypeOK, SeqsBounded, logVars
<1>3. CursorsBounded' /\ SnapshotAhead'
  BY <1>1 DEF Break, PullIInv, PullTypeOK, CursorsBounded, SnapshotAhead, logVars
<1>4. PageComplete' /\ NoRetainedEventSkipped'
  BY <1>1 DEF Break, PullIInv, PageComplete, NoRetainedEventSkipped, logVars
<1>. QED  BY <1>2, <1>3, <1>4 DEF PullIInv

(* Only the ends of a page and of a snapshot write the cursor. *)
LEMMA CursorStays ==
    ASSUME PullIInv, NEW d \in Devices,
           \/ StartPull(d) \/ CheckRetention(d) \/ CheckCounter(d) \/ ReadPage(d)
           \/ RetentionUnread(d) \/ CounterUnread(d) \/ ReadPageVeiled(d)
           \/ ReadSnapshot(d) \/ Touch(d) \/ Receive(d) \/ ApplyEvent(d)
           \/ ReceiveGone(d) \/ Break(d)
    PROVE  UNCHANGED cursor
BY DEF StartPull, CheckRetention, CheckCounter, ReadPage, RetentionUnread, CounterUnread,
       ReadPageVeiled, ReadSnapshot, Touch, Receive, ApplyEvent, ReceiveGone, Break

(* Every step keeps the invariant, and moves a cursor back only to 0, for  *)
(* a snapshot without a number.                                            *)
THEOREM PullStepIInv ==
    ASSUME PullIInv, [PullNext]_systemVars
    PROVE  PullIInv' /\ \A d \in Devices : Back(d)
<1>1. CASE LogNext /\ UNCHANGED pullVars
  BY <1>1, LogStepIInv, DeviceTypes DEF pullVars, PullIInv, Back
<1>2. ASSUME NEW d \in Devices, Pull(d) \/ Break(d)
      PROVE  PullIInv' /\ \A e \in Devices : Back(e)
  <2>1. CASE SaveCursor(d)
    BY <2>1, SaveCursorIInv, DeviceTypes DEF PullIInv, Back
  <2>2. CASE SaveSnapshot(d)
    BY <2>2, SaveSnapshotIInv, DeviceTypes DEF PullIInv, Back
  <2>3. CASE ~SaveCursor(d) /\ ~SaveSnapshot(d)
    <3>1. \A e \in Devices : Back(e)
      BY <1>2, <2>3, CursorStays, DeviceTypes DEF Pull, PullIInv, Back
    <3>2. PullIInv'
      BY <1>2, <2>3, StartPullIInv, CheckRetentionIInv, CheckCounterIInv, ReadPageIInv,
         UnreadIInv, ReadPageVeiledIInv, ReadSnapshotIInv, TouchIInv, ReceiveIInv, ApplyEventIInv, ReceiveGoneIInv,
         BreakIInv DEF Pull
    <3>. QED  BY <3>1, <3>2
  <2>. QED  BY <2>1, <2>2, <2>3
<1>3. CASE UNCHANGED systemVars
  <2>1. PullIInv'
    BY <1>3 DEF systemVars, PullIInv, PullTypeOK, SeqsBounded, CursorsBounded, PageComplete,
                SnapshotAhead, NoRetainedEventSkipped
  <2>. QED  BY <1>3, <2>1, DeviceTypes DEF systemVars, PullIInv, Back
<1>. QED  BY <1>1, <1>2, <1>3 DEF PullNext

(* For any number of devices, any role filter, page size and number of     *)
(* failures: the cursor never passes a retained event the device may see   *)
(* without the device having applied it, a snapshot that stands for it, or *)
(* a failed look-up of what the device may see.                            *)
THEOREM NothingRetainedIsSkipped == PullSpec => []PullInv
<1>1. PullIInv => PullInv
  BY DEF PullIInv, PullInv
<1>. QED  BY PullInitIInv, PullStepIInv, <1>1, PTL DEF PullSpec

(* A stored cursor is moved back by nothing but a snapshot whose counter   *)
(* was not read, and by that to 0, whatever else fails or is purged.       *)
THEOREM CursorGoesBackOnlyUnread == PullSpec => CursorBackOnlyUnread
<1>1. PullSpec => []PullIInv
  BY PullInitIInv, PullStepIInv, PTL DEF PullSpec
<1>2. PullIInv /\ [PullNext]_systemVars => [\A d \in Devices : Back(d)]_systemVars
  BY PullStepIInv
<1>. QED  BY <1>1, <1>2, PTL DEF PullSpec, CursorBackOnlyUnread, Back

-----------------------------------------------------------------------------
(* Devices that follow the log as the transactions of SyncLog write it,    *)
(* statement by statement, instead of the indivisible append.              *)
JoinedInit == Init /\ PullInit
JoinedNext == \/ Next /\ UNCHANGED pullVars
              \/ (\E d \in Devices : Pull(d) \/ Break(d)) /\ UNCHANGED txnVars
joinedVars == <<systemVars, txnVars>>
JoinedSpec == JoinedInit /\ [][JoinedNext]_joinedVars

(* A device reads the log and never writes it. *)
LEMMA DevicesOnlyRead ==
    ASSUME NEW d \in Devices, Pull(d) \/ Break(d)
    PROVE  UNCHANGED logVars
BY DEF Pull, Break, StartPull, CheckRetention, CheckCounter, ReadPage, RetentionUnread,
       CounterUnread, ReadPageVeiled, ReadSnapshot, Touch, Receive, ApplyEvent, SaveCursor, ReceiveGone, SaveSnapshot, logVars

(* A step of the whole is a step of the transactions, and of the devices   *)
(* over the indivisible log; the invariants of both hold together.         *)
LEMMA JoinedStep ==
    ASSUME IInv, [JoinedNext]_joinedVars
    PROVE  [Next]_vars /\ [PullNext]_systemVars
<1>1. CASE Next /\ UNCHANGED pullVars
  <2>1. [LogNext]_logVars
    BY <1>1, RefineStep
  <2>. QED  BY <1>1, <2>1 DEF PullNext, systemVars, pullVars, logVars
<1>2. ASSUME NEW d \in Devices, Pull(d) \/ Break(d), UNCHANGED txnVars
      PROVE  [Next]_vars /\ [PullNext]_systemVars
  BY <1>2, DevicesOnlyRead DEF PullNext, logVars, txnVars, vars
<1>3. CASE UNCHANGED joinedVars
  BY <1>3 DEF joinedVars, systemVars, txnVars, vars
<1>. QED  BY <1>1, <1>2, <1>3 DEF JoinedNext

(* No event is skipped (but by a failed look-up), and no cursor set back   *)
(* (but unread), by a device that follows the transactions' log,           *)
(* whichever of them are in progress, repeated or rolled back meanwhile.   *)
THEOREM NothingCommittedIsSkipped == JoinedSpec => []PullInv /\ CursorBackOnlyUnread
<1>1. JoinedSpec => [](IInv /\ PullIInv)
  <2>1. JoinedInit => IInv /\ PullIInv
    BY InitIInv, PullInitIInv DEF JoinedInit
  <2>2. IInv /\ PullIInv /\ [JoinedNext]_joinedVars => (IInv /\ PullIInv)'
    BY JoinedStep, NextIInv, PullStepIInv
  <2>. QED  BY <2>1, <2>2, PTL DEF JoinedSpec
<1>2. PullIInv => PullInv
  BY DEF PullIInv, PullInv
<1>3. IInv /\ PullIInv /\ [JoinedNext]_joinedVars
         => [\A d \in Devices : Back(d)]_systemVars
  BY JoinedStep, PullStepIInv
<1>. QED  BY <1>1, <1>2, <1>3, PTL DEF JoinedSpec, CursorBackOnlyUnread, Back
=============================================================================
