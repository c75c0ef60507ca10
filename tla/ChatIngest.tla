----------------------------- MODULE ChatIngest -----------------------------
(***************************************************************************)
(* Chat messages written offline.  The sender's device pushes the messages *)
(* of its outbox one at a time; for each push the API (MobileSyncService.  *)
(* appendSyncEvent, chat_message) authorises the sender, writes the        *)
(* conversation's participants into the payload, appends the event to the  *)
(* sync log and then inserts the row of chat_messages that web users read. *)
(* Each of these is a database call of its own: the conversation changes   *)
(* between them, the process may die between them, and the device may give *)
(* up and push the message again while the first attempt still runs.       *)
(***************************************************************************)
EXTENDS Naturals, FiniteSets

CONSTANTS
    Messages,       \* client uuids of the queued messages, also their ids
    Rank,           \* created_at order in the outbox
    Author,         \* the user who wrote them
    Others,         \* users who may join or leave the conversation
    Workers,        \* handlers the API can run at a time (bound)
    Nobody,         \* no handler awaited
    MaxSetbacks     \* bound on server errors, client timeouts and retry presses

ASSUME MessagesAssumption ==
    Messages # {} /\ Rank \in [Messages -> Nat] /\ Author \notin Others
ASSUME WorkersAssumption == Nobody \notin Workers /\ MaxSetbacks \in Nat

VARIABLES
    members,    \* chat_participants of the conversation
    logged,     \* each message's sync_events row: NoEvent or its payload
    chat,       \* the messages in chat_messages
    outbox,     \* sync_outbox.status on the device
    awaited,    \* the handler the device waits for
    h,          \* the handlers running appendSyncEvent
    cut,        \* messages of which a handler stopped short of the insert
    setbacks

chatVars == <<members, logged, chat, outbox, awaited, h, cut, setbacks>>

NoEvent == [known |-> FALSE, to |-> {}, applied |-> FALSE]
Event   == [known : BOOLEAN, to : SUBSET (Others \union {Author}), applied : BOOLEAN]

HandlerSteps == {"idle", "authorise", "enrich", "precheck", "append", "exists",
                 "insert", "ok", "refused"}
Handler == [step : HandlerSteps, msg : Messages, to : SUBSET (Others \union {Author}),
            applied : BOOLEAN]
Fresh(m)    == [step |-> "authorise", msg |-> m, to |-> {}, applied |-> FALSE]
IdleHandler == [Fresh(CHOOSE m \in Messages : TRUE) EXCEPT !.step = "idle"]

ChatTypeOK ==
    /\ members \subseteq Others \union {Author}
    /\ logged \in [Messages -> Event]
    /\ chat \subseteq Messages /\ cut \subseteq Messages
    /\ outbox \in [Messages -> {"PENDING", "SYNCED", "FAILED"}]
    /\ awaited \in Workers \union {Nobody}
    /\ h \in [Workers -> Handler]
    /\ setbacks \in 0..MaxSetbacks

ChatInit ==
    /\ members = Others \union {Author}
    /\ logged = [m \in Messages |-> NoEvent]
    /\ chat = {} /\ cut = {}
    /\ outbox = [m \in Messages |-> "PENDING"]
    /\ awaited = Nobody
    /\ h = [w \in Workers |-> IdleHandler]
    /\ setbacks = 0

-----------------------------------------------------------------------------
At(w, step) == h[w].step = step
Goto(w, step) == h' = [h EXCEPT ![w].step = step]
Setback == setbacks < MaxSetbacks /\ setbacks' = setbacks + 1
Released(w) == IF awaited = w THEN Nobody ELSE awaited

(* pushOutbox: the pending messages in the order they were written. *)
Push ==
    /\ awaited = Nobody
    /\ \E m \in Messages, w \in Workers :
          /\ outbox[m] = "PENDING" /\ At(w, "idle")
          /\ \A n \in Messages : outbox[n] = "PENDING" => Rank[m] <= Rank[n]
          /\ h' = [h EXCEPT ![w] = Fresh(m)]
          /\ awaited' = w
    /\ UNCHANGED <<members, logged, chat, outbox, cut, setbacks>>

(* The request times out on the device; the handler runs on. *)
GiveUp ==
    /\ awaited # Nobody
    /\ Setback
    /\ awaited' = Nobody
    /\ UNCHANGED <<members, logged, chat, outbox, h, cut>>

(* Mutant of AfterRefusal: a 4xx answer is treated as transient. *)
AfterRefusalPending == "PENDING"

(* A 403, 404 or 409 is permanent for the device. *)
AfterRefusal == "FAILED"

(* The connection breaks in a way that is none of those pushOutbox takes   *)
(* for transient: the device marks the message FAILED, the handler runs on.*)
BreakUnknown ==
    /\ awaited # Nobody
    /\ Setback
    /\ outbox' = [outbox EXCEPT ![h[awaited].msg] = AfterRefusal]
    /\ awaited' = Nobody
    /\ UNCHANGED <<members, logged, chat, h, cut>>

(* The caller must be a participant: 403 otherwise, and 403 or 404 if he   *)
(* is muted or one of the look-ups fails.                                  *)
Authorise(w) ==
    /\ At(w, "authorise")
    /\ \/ /\ Goto(w, IF Author \in members THEN "enrich" ELSE "refused")
          /\ UNCHANGED setbacks
       \/ Setback /\ Goto(w, "refused")
    /\ UNCHANGED <<members, logged, chat, outbox, awaited, cut>>

(* participant_ids and recipient_ids are read again and put in the         *)
(* payload; a query that fails has found nobody.                           *)
Enrich(w) ==
    /\ At(w, "enrich")
    /\ \E found \in {members, {}} :
          /\ h' = [h EXCEPT ![w].step = "precheck", ![w].to = found]
          /\ IF found = members THEN UNCHANGED setbacks ELSE Setback
    /\ UNCHANGED <<members, logged, chat, outbox, awaited, cut>>

(* A query that fails has found no event. *)
Precheck(w) ==
    /\ At(w, "precheck")
    /\ \E found \in {logged[h[w].msg].applied, FALSE} :
          /\ h' = [h EXCEPT ![w].step = "append", ![w].applied = found]
          /\ IF found = logged[h[w].msg].applied THEN UNCHANGED setbacks ELSE Setback
    /\ UNCHANGED <<members, logged, chat, outbox, awaited, cut>>

(* Mutant of AppendEvent: an event found in the log is taken as persisted. *)
AppendEventSkipsKnown(w) ==
    LET m == h[w].msg IN
    /\ At(w, "append")
    /\ logged' = IF logged[m].known THEN logged
                 ELSE [logged EXCEPT ![m] = [known |-> TRUE, to |-> h[w].to,
                                             applied |-> TRUE]]
    /\ Goto(w, IF logged'[m].to # h[w].to THEN "refused" ELSE "ok")
    /\ UNCHANGED <<members, chat, outbox, awaited, cut, setbacks>>

(* append_sync_event: a new row is stored with applied = TRUE (only        *)
(* attendance starts unapplied); the same uuid with another payload is     *)
(* refused (409).                                                          *)
AppendEvent(w) ==
    LET m == h[w].msg IN
    /\ At(w, "append")
    /\ logged' = IF logged[m].known THEN logged
                 ELSE [logged EXCEPT ![m] = [known |-> TRUE, to |-> h[w].to,
                                             applied |-> TRUE]]
    /\ Goto(w, IF logged'[m].to # h[w].to THEN "refused"
               ELSE IF h[w].applied THEN "ok" ELSE "exists")
    /\ UNCHANGED <<members, chat, outbox, awaited, cut, setbacks>>

(* "Verify whether a chat message with this ID already exists": a query    *)
(* that fails has found none.                                              *)
LookUp(w) ==
    /\ At(w, "exists")
    /\ \/ Goto(w, IF h[w].msg \in chat THEN "ok" ELSE "insert") /\ UNCHANGED setbacks
       \/ h[w].msg \in chat /\ Setback /\ Goto(w, "insert")
    /\ UNCHANGED <<members, logged, chat, outbox, awaited, cut>>

(* The insert; an error, a duplicate key for one, is only logged.  Setting *)
(* applied again changes nothing.                                          *)
InsertMessage(w) ==
    /\ At(w, "insert")
    /\ Goto(w, "ok")
    /\ \/ chat' = chat \union {h[w].msg} /\ UNCHANGED <<cut, setbacks>>
       \/ Setback /\ cut' = cut \union {h[w].msg} /\ UNCHANGED chat
    /\ UNCHANGED <<members, logged, outbox, awaited>>

Reply(w, status) ==
    /\ outbox' = IF awaited = w THEN [outbox EXCEPT ![h[w].msg] = status] ELSE outbox
    /\ awaited' = Released(w)
    /\ h' = [h EXCEPT ![w] = IdleHandler]
    /\ UNCHANGED <<members, logged, chat, cut, setbacks>>

Accept(w) == At(w, "ok") /\ Reply(w, "SYNCED")
Refuse(w) == At(w, "refused") /\ Reply(w, AfterRefusal)

(* The append fails (5xx) or the process dies: what was written stays.     *)
ServerError(w) ==
    /\ h[w].step \in HandlerSteps \ {"idle", "ok", "refused"}
    /\ Setback
    /\ cut' = IF h[w].step \in {"exists", "insert"} THEN cut \union {h[w].msg} ELSE cut
    /\ awaited' = Released(w)
    /\ h' = [h EXCEPT ![w] = IdleHandler]
    /\ UNCHANGED <<members, logged, chat, outbox>>

(* retryFailedOutboxEvents, the user's button (pressed a bounded number of *)
(* times, counted with the failures).                                      *)
RetryFailed ==
    /\ \E m \in Messages : outbox[m] = "FAILED"
    /\ Setback
    /\ outbox' = [m \in Messages |-> IF outbox[m] = "FAILED" THEN "PENDING" ELSE outbox[m]]
    /\ UNCHANGED <<members, logged, chat, awaited, h, cut>>

(* The conversation changes: anybody may be added or removed. *)
Join(u)  == u \notin members /\ members' = members \union {u}
            /\ UNCHANGED <<logged, chat, outbox, awaited, h, cut, setbacks>>
Leave(u) == u \in members /\ members' = members \ {u}
            /\ UNCHANGED <<logged, chat, outbox, awaited, h, cut, setbacks>>

Handle(w) ==
    \/ Authorise(w) \/ Enrich(w) \/ Precheck(w) \/ AppendEvent(w) \/ LookUp(w)
    \/ InsertMessage(w) \/ Accept(w) \/ Refuse(w)

ChatNext ==
    \/ Push \/ GiveUp \/ BreakUnknown \/ RetryFailed
    \/ \E w \in Workers : Handle(w) \/ ServerError(w)
    \/ \E u \in Others \union {Author} : Join(u) \/ Leave(u)

(* The device retries on its timer; the API runs what it has accepted. *)
Fairness == WF_chatVars(Push) /\ \A w \in Workers : WF_chatVars(Handle(w))

ChatSpec == ChatInit /\ [][ChatNext]_chatVars
ChatFairSpec == ChatSpec /\ Fairness

-----------------------------------------------------------------------------
(* A message is not lost without a failure exactly between the append and  *)
(* the insert: overlapping attempts, timeouts before or after, refusals    *)
(* and membership changes never leave an acknowledged message unwritten.   *)
LossNeedsCut ==
    \A m \in Messages : outbox[m] = "SYNCED" /\ m \notin chat =>
       m \in cut \/ \E w \in Workers : h[w].msg = m /\ h[w].step \in {"exists", "insert"}

ChatInv == ChatTypeOK /\ LossNeedsCut

(* A message leaves the queue whether it is accepted or refused: one that  *)
(* can never be accepted does not hold up the ones behind it.              *)
EveryMessageSettles == \A m \in Messages : <>(outbox[m] # "PENDING")
=============================================================================
