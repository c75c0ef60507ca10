------------------------------ MODULE SyncLog -------------------------------
(***************************************************************************)
(* public.append_sync_event as PostgreSQL runs it: one transaction per     *)
(* request at READ COMMITTED, each statement seeing the rows committed     *)
(* before it.  The idempotency look-up is first made without a lock, then  *)
(* again under the tenant's advisory transaction lock; the sequence number *)
(* is taken and the row inserted under that lock, which the end of the     *)
(* transaction releases.  A transaction may be rolled back at any of its   *)
(* steps (connection lost, statement timeout).  The tenant's counter row   *)
(* exists from the tenant's creation (a trigger), so "ensure the counter   *)
(* row" changes nothing.                                                   *)
(***************************************************************************)
EXTENDS EventLog

CONSTANT Nobody     \* the value of lock when no transaction holds it
ASSUME NobodyAssumption == Nobody \notin Requests

VARIABLES
    pc,         \* the statement each transaction has reached
    started,    \* NOW() of each transaction
    alloc,      \* the number an uncommitted INSERT carries (0: none)
    lock        \* holder of pg_advisory_xact_lock for the tenant

txnVars == <<pc, started, alloc, lock>>
vars    == <<now, counter, rows, reply, pc, started, alloc, lock>>

Steps  == {"idle", "waiting", "locked", "checked", "inserted", "done"}
Inside == {"locked", "checked", "inserted"}     \* between lock and commit

TypeOK ==
    /\ now \in Nat /\ counter \in Nat
    /\ rows \subseteq Row
    /\ reply \in [Requests -> Reply]
    /\ pc \in [Requests -> Steps]
    /\ started \in [Requests -> Nat]
    /\ alloc \in [Requests -> Nat]
    /\ lock \in Requests \union {Nobody}

Init ==
    /\ LogInit
    /\ pc = [r \in Requests |-> "idle"]
    /\ started = [r \in Requests |-> 0]
    /\ alloc = [r \in Requests |-> 0]
    /\ lock = Nobody

-----------------------------------------------------------------------------
(* The end of a transaction: its answer is known and its locks are free. *)
Finish(r, answer) ==
    /\ pc' = [pc EXCEPT ![r] = "done"]
    /\ reply' = [reply EXCEPT ![r] = answer]
    /\ lock' = IF lock = r THEN Nobody ELSE lock

(* Mutant of Begin: the fast path answers by uuid alone. *)
BeginByUuidOnly(r) ==
    /\ pc[r] = "idle"
    /\ started' = [started EXCEPT ![r] = now]
    /\ IF Stored(Content[r].uuid) = {}
       THEN /\ pc' = [pc EXCEPT ![r] = "waiting"]
            /\ UNCHANGED <<reply, lock>>
       ELSE \E row \in Stored(Content[r].uuid) : Finish(r, Ok(row.seq))
    /\ UNCHANGED <<now, counter, rows, alloc>>

(* BEGIN and the fast path: the look-up made before any lock. *)
Begin(r) ==
    /\ pc[r] = "idle"
    /\ started' = [started EXCEPT ![r] = now]
    /\ IF Stored(Content[r].uuid) = {}
       THEN /\ pc' = [pc EXCEPT ![r] = "waiting"]
            /\ UNCHANGED <<reply, lock>>
       ELSE \E row \in Stored(Content[r].uuid) : Finish(r, Answer(r, row))
    /\ UNCHANGED <<now, counter, rows, alloc>>

(* Mutant of Lock: the advisory lock is not taken. *)
LockNothing(r) ==
    /\ pc[r] = "waiting"
    /\ pc' = [pc EXCEPT ![r] = "locked"]
    /\ UNCHANGED <<now, counter, rows, reply, started, alloc, lock>>

Lock(r) ==
    /\ pc[r] = "waiting"
    /\ lock = Nobody
    /\ lock' = r
    /\ pc' = [pc EXCEPT ![r] = "locked"]
    /\ UNCHANGED <<now, counter, rows, reply, started, alloc>>

(* The look-up repeated under the lock. *)
Recheck(r) ==
    /\ pc[r] = "locked"
    /\ IF Stored(Content[r].uuid) = {}
       THEN /\ pc' = [pc EXCEPT ![r] = "checked"]
            /\ UNCHANGED <<reply, lock>>
       ELSE \E row \in Stored(Content[r].uuid) : Finish(r, Answer(r, row))
    /\ UNCHANGED <<now, counter, rows, started, alloc>>

(* UPDATE ... RETURNING feeding the INSERT, not yet committed.  The UPDATE *)
(* waits for any other uncommitted one on the counter row; the INSERT      *)
(* fails on UNIQUE (tenant_id, client_uuid), which the API reports as 409. *)
Insert(r) ==
    /\ pc[r] = "checked"
    /\ \A s \in Requests : pc[s] # "inserted"
    /\ IF Stored(Content[r].uuid) = {}
       THEN /\ alloc' = [alloc EXCEPT ![r] = counter + 1]
            /\ pc' = [pc EXCEPT ![r] = "inserted"]
            /\ UNCHANGED <<reply, lock>>
       ELSE Finish(r, Conflict) /\ UNCHANGED alloc
    /\ UNCHANGED <<now, counter, rows, started>>

(* Mutant of Commit: the answer is the counter read before the UPDATE. *)
CommitAnswersOldCounter(r) ==
    /\ pc[r] = "inserted"
    /\ counter' = alloc[r]
    /\ rows' = rows \union {NewRow(r, alloc[r], started[r])}
    /\ Finish(r, Ok(counter))
    /\ alloc' = [alloc EXCEPT ![r] = 0]
    /\ UNCHANGED <<now, started>>

Commit(r) ==
    /\ pc[r] = "inserted"
    /\ counter' = alloc[r]
    /\ rows' = rows \union {NewRow(r, alloc[r], started[r])}
    /\ Finish(r, Ok(alloc[r]))
    /\ alloc' = [alloc EXCEPT ![r] = 0]
    /\ UNCHANGED <<now, started>>

(* Mutants of Abort: the number comes from a SQL sequence, which a roll-   *)
(* back does not return; the lock is a session lock, which it keeps.       *)
AbortBurnsNumber(r) ==
    /\ pc[r] \in {"waiting"} \union Inside
    /\ Finish(r, Error)
    /\ counter' = IF pc[r] = "inserted" THEN alloc[r] ELSE counter
    /\ alloc' = [alloc EXCEPT ![r] = 0]
    /\ UNCHANGED <<now, rows, started>>
AbortKeepsLock(r) ==
    /\ pc[r] \in {"waiting"} \union Inside
    /\ pc' = [pc EXCEPT ![r] = "done"]
    /\ reply' = [reply EXCEPT ![r] = Error]
    /\ alloc' = [alloc EXCEPT ![r] = 0]
    /\ UNCHANGED <<now, counter, rows, started, lock>>

(* ROLLBACK: the counter and the row never changed for anybody else. *)
Abort(r) ==
    /\ pc[r] \in {"waiting"} \union Inside
    /\ Finish(r, Error)
    /\ alloc' = [alloc EXCEPT ![r] = 0]
    /\ UNCHANGED <<now, counter, rows, started>>

ClockTick == Tick /\ UNCHANGED txnVars
PurgeOldSyncEvents == rows # {} /\ Purge /\ UNCHANGED txnVars
ScrubUserPii == rows # {} /\ Scrub /\ UNCHANGED txnVars

Transaction(r) ==
    Begin(r) \/ Lock(r) \/ Recheck(r) \/ Insert(r) \/ Commit(r)

Next ==
    \/ \E r \in Requests : Transaction(r) \/ Abort(r)
    \/ ClockTick \/ PurgeOldSyncEvents \/ ScrubUserPii

(* The database keeps running the transactions it has been given. *)
Fairness == \A r \in Requests : WF_vars(Transaction(r))

Spec == Init /\ [][Next]_vars
FairSpec == Spec /\ Fairness

-----------------------------------------------------------------------------
(* Sequence numbers are handed out in commit order without a gap: the      *)
(* counter moves only together with the row that carries its new value,    *)
(* and a roll-back gives its number back (ADR-002, "sequence order         *)
(* strictly mirrors commit order with zero gaps").                         *)
GaplessCommitOrder ==
    [][IF counter' = counter
       THEN Seqs(rows') \subseteq Seqs(rows)
       ELSE /\ counter' = counter + 1
            /\ Seqs(rows') = Seqs(rows) \union {counter'}]_vars

(* A request is refused only when the row stored under its uuid differs    *)
(* from what it carries: a retry that races its own first attempt must be  *)
(* answered with the first one's number, never with 409.                   *)
ConflictOnlyOnOtherContent ==
    [][\A r \in Requests :
         reply[r] # Conflict /\ reply'[r] = Conflict =>
            \E row \in Stored(Content[r].uuid) : row.body # Content[r].body]_vars

(* The number a caller was given is the number of its own event, for as    *)
(* long as the log retains it, whichever of the two look-ups answered.     *)
AnsweredIsStored ==
    \A r \in Requests : reply[r].kind = "ok" =>
       /\ reply[r].seq \in 1..counter
       /\ \A row \in rows : row.seq = reply[r].seq => row.uuid = Content[r].uuid

AnswerInv == TypeOK /\ AnsweredIsStored

(* Every transaction that began is answered: no roll-back keeps the        *)
(* tenant's lock.                                                          *)
AllAnswered == \A r \in Requests : pc[r] # "idle" ~> pc[r] = "done"

(* The transaction refines the indivisible append: its committed rows,     *)
(* counter and answers are the abstract log's, its other steps stutter.    *)
ImplementsEventLog == LogSpec
=============================================================================
