------------------------------ MODULE EventLog ------------------------------
(***************************************************************************)
(* What the per-tenant synchronisation log promises its callers: one       *)
(* tenant's rows of public.sync_events behave as if every call of          *)
(* append_sync_event were one indivisible step.  A call either appends the *)
(* next sequence number, or answers with the row already stored under its  *)
(* client_uuid, or is refused because that uuid was used for something     *)
(* else, or fails and leaves no trace.  SyncLog shows that the transaction *)
(* in the migration keeps this promise; SyncPull is built on it.           *)
(***************************************************************************)
EXTENDS Naturals, FiniteSets

CONSTANTS
    Requests,   \* calls of append_sync_event (a retry is another request)
    Uuids,      \* client idempotency keys
    Bodies,     \* what a request stores: entity, event type and payload
    Redacted,   \* the body left behind by scrub_user_sync_events_pii
    Content,    \* Content[r]: the uuid and body request r carries
    Personal,   \* uuids of the events that mention the user being erased
    Retention,  \* the 90 day window of purge_old_sync_events, in ticks
    MaxTime     \* bound: the clock stops here

ASSUME ContentAssumption ==
    Content \in [Requests -> [uuid : Uuids, body : Bodies]]
ASSUME RedactedAssumption == Redacted \notin Bodies
ASSUME TimeAssumption == Retention \in Nat /\ MaxTime \in Nat

VARIABLES
    now,        \* the database clock
    counter,    \* tenant_sync_counters.last_sequence
    rows,       \* committed rows of sync_events
    reply       \* what each request was answered

logVars == <<now, counter, rows, reply>>

Row == [seq : Nat \ {0}, uuid : Uuids, body : Bodies \union {Redacted},
        created : Nat]
Reply == [kind : {"none", "ok", "conflict", "error"}, seq : Nat]

NoReply  == [kind |-> "none", seq |-> 0]
Ok(n)    == [kind |-> "ok", seq |-> n]
Conflict == [kind |-> "conflict", seq |-> 0]
Error    == [kind |-> "error", seq |-> 0]

Seqs(S)   == {row.seq : row \in S}
Stored(u) == {row \in rows : row.uuid = u}
Answer(r, row) == IF row.body = Content[r].body THEN Ok(row.seq) ELSE Conflict
Expired(row) == row.created + Retention < now
NewRow(r, n, t) == [seq |-> n, uuid |-> Content[r].uuid,
                    body |-> Content[r].body, created |-> t]
RedactRow(row) == IF row.uuid \in Personal THEN [row EXCEPT !.body = Redacted]
                                           ELSE row

LogInit ==
    /\ now = 0
    /\ counter = 0
    /\ rows = {}
    /\ reply = [r \in Requests |-> NoReply]

-----------------------------------------------------------------------------
(* A new uuid takes the next number.  created_at is NOW(), the time the    *)
(* transaction began, so it may be older than the moment of the commit.    *)
Append(r) ==
    /\ reply[r] = NoReply
    /\ Stored(Content[r].uuid) = {}
    /\ \E t \in 0..now : rows' = rows \union {NewRow(r, counter + 1, t)}
    /\ counter' = counter + 1
    /\ reply' = [reply EXCEPT ![r] = Ok(counter + 1)]
    /\ UNCHANGED now

(* A uuid already stored: the same number again, or a refusal. *)
Repeat(r) ==
    /\ reply[r] = NoReply
    /\ \E row \in Stored(Content[r].uuid) :
          reply' = [reply EXCEPT ![r] = Answer(r, row)]
    /\ UNCHANGED <<now, counter, rows>>

Fail(r) ==
    /\ reply[r] = NoReply
    /\ reply' = [reply EXCEPT ![r] = Error]
    /\ UNCHANGED <<now, counter, rows>>

Tick ==
    /\ now < MaxTime
    /\ now' = now + 1
    /\ UNCHANGED <<counter, rows, reply>>

(* purge_old_sync_events: one DELETE over all expired rows. *)
Purge ==
    /\ rows' = {row \in rows : ~Expired(row)}
    /\ UNCHANGED <<now, counter, reply>>

(* scrub_user_sync_events_pii: one UPDATE; the rows keep their numbers. *)
Scrub ==
    /\ rows' = {RedactRow(row) : row \in rows}
    /\ UNCHANGED <<now, counter, reply>>

LogNext ==
    \/ \E r \in Requests : Append(r) \/ Repeat(r) \/ Fail(r)
    \/ Tick \/ Purge \/ Scrub

LogSpec == LogInit /\ [][LogNext]_logVars
=============================================================================
