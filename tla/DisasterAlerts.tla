--------------------------- MODULE DisasterAlerts ---------------------------
(***************************************************************************)
(* Disaster mode of one school.  TenantService switches the mode and       *)
(* writes disaster_events in one stored procedure, then queues a text for  *)
(* every parent; the SmsProcessor sends and records the texts; Twilio      *)
(* reports what became of them to the webhook of SmsController, which      *)
(* looks a text up, writes its status and counts it for the event, each in *)
(* a call of its own.  Callbacks come early, late, twice and two at a time.*)
(***************************************************************************)
EXTENDS Integers, Sequences, FiniteSets

CONSTANTS
    Admins,         \* requests of administrators
    Parents,        \* recipients of the texts
    Hooks,          \* callbacks that are handled at the same time
    MaxEvents,      \* bound on the activations
    MaxCounted,     \* bound: a text counted so often gets no more callbacks
    MaxFailures     \* bound on failed calls and deaths

ASSUME BoundsAssumption ==
    /\ IsFiniteSet(Parents) /\ IsFiniteSet(Hooks)
    /\ MaxEvents \in Nat \ {0} /\ {MaxCounted, MaxFailures} \subseteq Nat

VARIABLES
    mode,       \* tenants.disaster_mode
    events,     \* disaster_events, oldest first: is_active and sms_queued_count
    admin,      \* the request of each administrator
    text,       \* by event and parent: the job, its sms_logs row, how often the
                \* event's counters have counted it, whether the webhook has
                \* answered Twilio's final word on it, and (history) how many
                \* times a failed query has kept that word out of the row
    hook,       \* the callback each handler works on
    slip,       \* texts a callback reached early or across another write
    failures

vars == <<mode, events, admin, text, hook, slip, failures>>

(* FINAL stands for DELIVERED and FAILED. *)
Status == {"none", "QUEUED", "SENT", "FINAL"}
Text == [job : {"none", "waiting", "sent", "recorded", "done", "failed"}, row : Status,
         counted : Nat, answered : BOOLEAN, missed : Nat]
Blank(job) == [job |-> job, row |-> "none", counted |-> 0, answered |-> FALSE, missed |-> 0]
NoText == Blank("none")
Idle == [step |-> "idle", event |-> 0]
Nobody == "nobody"
NoCall == [step |-> "idle", event |-> 0, parent |-> Nobody, status |-> "SENT", seen |-> "none"]
Call == [step : {"apply", "count"}, event : 1..MaxEvents, parent : Parents,
         status : {"SENT", "FINAL"}, seen : Status \union {"unread"}]

TypeOK ==
    /\ mode \in BOOLEAN
    /\ events \in Seq([active : BOOLEAN, queued : Nat]) /\ Len(events) <= MaxEvents
    /\ admin \in [Admins -> [step : {"idle", "activate", "deactivate", "queue", "tell"},
                             event : 0..MaxEvents]]
    /\ text \in [1..MaxEvents -> [Parents -> Text]]
    /\ hook \in [Hooks -> Call \union {NoCall}]
    /\ slip \subseteq (1..MaxEvents) \X Parents
    /\ failures \in 0..MaxFailures

Init ==
    /\ mode = FALSE /\ events = <<>>
    /\ admin = [a \in Admins |-> Idle]
    /\ text = [e \in 1..MaxEvents |-> [p \in Parents |-> NoText]]
    /\ hook = [h \in Hooks |-> NoCall]
    /\ slip = {} /\ failures = 0

Failure == failures < MaxFailures /\ failures' = failures + 1
Do(a, step, e) == admin' = [admin EXCEPT ![a] = [step |-> step, event |-> e]]
Events == <<mode, events>>

-----------------------------------------------------------------------------
(* TenantService *)

(* toggleDisasterMode reads the mode before it decides. *)
Toggle(a) ==
    /\ admin[a] = Idle
    /\ Do(a, IF mode THEN "deactivate" ELSE "activate", 0)
    /\ UNCHANGED <<Events, text, hook, slip, failures>>

(* Mutant of Activate: the procedure does not look at the mode. *)
ActivateAgain(a) ==
    /\ admin[a].step \in {"idle", "activate"}
    /\ Len(events) < MaxEvents
    /\ mode' = TRUE
    /\ events' = Append(events, [active |-> TRUE, queued |-> 0])
    /\ Do(a, "queue", Len(events'))
    /\ UNCHANGED <<text, hook, slip, failures>>

(* The procedure activate_disaster_mode, under a lock of the tenant's row; *)
(* an active mode is a conflict.                                           *)
Activate(a) ==
    /\ admin[a].step \in {"idle", "activate"}
    /\ Len(events) < MaxEvents
    /\ IF mode
       THEN Do(a, "idle", 0) /\ UNCHANGED Events
       ELSE /\ mode' = TRUE
            /\ events' = Append(events, [active |-> TRUE, queued |-> 0])
            /\ Do(a, "queue", Len(events'))
    /\ UNCHANGED <<text, hook, slip, failures>>

(* sendBatchSms queues a text for every parent. *)
QueueTexts(a) ==
    /\ admin[a].step = "queue"
    /\ LET e == admin[a].event IN
       /\ text' = [text EXCEPT ![e] = [p \in Parents |-> Blank("waiting")]]
       /\ Do(a, "tell", e)
    /\ UNCHANGED <<Events, hook, slip, failures>>

(* sendBatchSms throws, or the process dies: the mode stays on. *)
QueueTextsFails(a) ==
    /\ admin[a].step = "queue"
    /\ Failure
    /\ Do(a, "idle", 0)
    /\ UNCHANGED <<Events, text, hook, slip>>

(* sms_queued_count; an error of this update is not looked at. *)
Tell(a) ==
    /\ admin[a].step = "tell"
    /\ events' = [events EXCEPT ![admin[a].event].queued = Cardinality(Parents)]
    /\ Do(a, "idle", 0)
    /\ UNCHANGED <<mode, text, hook, slip, failures>>

TellFails(a) ==
    /\ admin[a].step = "tell"
    /\ Failure
    /\ Do(a, "idle", 0)
    /\ UNCHANGED <<Events, text, hook, slip>>

(* The procedure deactivate_disaster_mode. *)
Deactivate(a) ==
    /\ admin[a].step \in {"idle", "deactivate"}
    /\ Do(a, "idle", 0)
    /\ mode' = FALSE
    /\ events' = IF mode THEN [i \in DOMAIN events |-> [events[i] EXCEPT !.active = FALSE]]
                         ELSE events
    /\ UNCHANGED <<text, hook, slip, failures>>

-----------------------------------------------------------------------------
(* SmsProcessor, for the texts of a disaster *)

Texts == {<<e, p>> : e \in 1..MaxEvents, p \in Parents}
At(t) == text[t[1]][t[2]]
Put(t, r) == text' = [text EXCEPT ![t[1]][t[2]] = r]
SmsOnly == UNCHANGED <<Events, admin, hook>>

(* Twilio takes the text and the sid is stored in the job. *)
Send(t) ==
    /\ At(t).job = "waiting"
    /\ Put(t, [At(t) EXCEPT !.job = "sent"])
    /\ SmsOnly /\ UNCHANGED <<slip, failures>>

(* The last attempt fails: a FAILED row with a sid of its own. *)
SendFails(t) ==
    /\ At(t).job = "waiting"
    /\ Failure
    /\ Put(t, [At(t) EXCEPT !.job = "failed", !.row = "FINAL"])
    /\ SmsOnly /\ UNCHANGED slip

(* The upsert by sid writes QUEUED, whatever the row says. *)
Record(t) ==
    /\ At(t).job = "sent"
    /\ Put(t, [At(t) EXCEPT !.job = "recorded", !.row = "QUEUED"])
    /\ slip' = IF At(t).row = "none" THEN slip ELSE slip \union {t}
    /\ SmsOnly /\ UNCHANGED failures

Complete(t) ==
    /\ At(t).job = "recorded"
    /\ Put(t, [At(t) EXCEPT !.job = "done"])
    /\ SmsOnly /\ UNCHANGED <<slip, failures>>

(* The worker dies after the record: the next one records again. *)
WorkerDies(t) ==
    /\ At(t).job = "recorded"
    /\ Failure
    /\ Put(t, [At(t) EXCEPT !.job = "sent"])
    /\ SmsOnly /\ UNCHANGED slip

-----------------------------------------------------------------------------
(* The webhook *)

Rank(status) == CASE status = "FINAL"  -> 3
                  [] status = "SENT"   -> 2
                  [] status = "QUEUED" -> 1
                  [] OTHER             -> 0

CallText(h) == <<hook[h].event, hook[h].parent>>

(* A callback arrives, for the first time or again, and the row is read; a *)
(* query that fails reads as no row.                                       *)
Lookup(h) ==
    /\ hook[h] = NoCall
    /\ \E t \in Texts, s \in {"SENT", "FINAL"}, read \in BOOLEAN :
          /\ At(t).job \in {"sent", "recorded", "done"} /\ At(t).counted < MaxCounted
          /\ hook' = [hook EXCEPT ![h] = [step |-> "apply", event |-> t[1], parent |-> t[2],
                                          status |-> s,
                                          seen |-> IF read THEN At(t).row ELSE "unread"]]
          /\ slip' = IF At(t).row = "none" THEN slip \union {t} ELSE slip
          /\ IF read THEN UNCHANGED failures ELSE Failure
    /\ UNCHANGED <<Events, admin, text>>

(* The callback read the row before another write of it. *)
Crossed(h) == hook[h].seen \notin {"unread", At(CallText(h)).row}
NoteCrossing(h) == slip' = IF Crossed(h) THEN slip \union {CallText(h)} ELSE slip

(* Mutants of Apply: a late status is written; every final callback counts. *)
ApplyLate(h) ==
    /\ hook[h].step = "apply"
    /\ LET c == hook[h]  t == CallText(h)  final == c.status = "FINAL" IN
       /\ Put(t, [At(t) EXCEPT !.row = IF @ = "none" THEN @ ELSE c.status,
                               !.answered = @ \/ final])
       /\ hook' = [hook EXCEPT ![h] = NoCall]
       /\ NoteCrossing(h)
    /\ UNCHANGED <<Events, admin, failures>>
ApplyCountsAll(h) ==
    /\ hook[h].step = "apply"
    /\ LET c == hook[h] IN
       /\ hook' = [hook EXCEPT ![h] = IF c.status = "FINAL" /\ c.seen # "none"
                                      THEN [c EXCEPT !.step = "count"] ELSE NoCall]
       /\ NoteCrossing(h)
    /\ UNCHANGED <<Events, admin, text, failures>>

(* The status is written unless it ranks below the one that was read; the  *)
(* first final one goes on to the counters.  Without a row the update      *)
(* finds what there is, if anything, whatever its rank.  Its error is not  *)
(* looked at: the callback goes on and is answered.                        *)
Apply(h) ==
    /\ hook[h].step = "apply"
    /\ LET c == hook[h]
           t == CallText(h)
           late == Rank(c.status) < Rank(c.seen)
           new == c.status = "FINAL" /\ c.seen \in {"QUEUED", "SENT"}
           final == c.status = "FINAL"
           row == At(t).row IN
       /\ \/ /\ UNCHANGED failures
             /\ Put(t, [At(t) EXCEPT
                          !.row = IF late \/ @ = "none" THEN @ ELSE c.status,
                          !.answered = @ \/ final,
                          !.missed = IF c.seen = "unread" /\ ~final /\ row = "FINAL"
                                     THEN @ + 1 ELSE @])
          \/ /\ ~late /\ row # "none" /\ Failure
             /\ Put(t, [At(t) EXCEPT !.answered = @ \/ final,
                                     !.missed = IF final /\ row # "FINAL" THEN @ + 1 ELSE @])
       /\ hook' = [hook EXCEPT ![h] = IF new THEN [c EXCEPT !.step = "count"] ELSE NoCall]
       /\ NoteCrossing(h)
    /\ UNCHANGED <<Events, admin>>

(* increment_disaster_sms_count *)
Count(h) ==
    /\ hook[h].step = "count"
    /\ Put(CallText(h), [At(CallText(h)) EXCEPT !.counted = @ + 1])
    /\ hook' = [hook EXCEPT ![h] = NoCall]
    /\ UNCHANGED <<Events, admin, slip, failures>>

(* The process dies, or increment_disaster_sms_count fails. *)
CallFails(h) ==
    /\ hook[h] # NoCall
    /\ Failure
    /\ hook' = [hook EXCEPT ![h] = NoCall]
    /\ UNCHANGED <<Events, admin, text, slip>>

-----------------------------------------------------------------------------
Worker(t) == Send(t) \/ Record(t) \/ Complete(t)
Webhook(h) == Apply(h) \/ Count(h)

Next ==
    \/ \E a \in Admins : \/ Toggle(a) \/ Activate(a) \/ Deactivate(a)
                         \/ QueueTexts(a) \/ QueueTextsFails(a) \/ Tell(a) \/ TellFails(a)
    \/ \E t \in Texts : Worker(t) \/ SendFails(t) \/ WorkerDies(t)
    \/ \E h \in Hooks : Lookup(h) \/ Webhook(h) \/ CallFails(h)

Spec == Init /\ [][Next]_vars

-----------------------------------------------------------------------------
(* The mode is on exactly while one event is active, however the requests  *)
(* of several administrators cross.                                        *)
OneActiveEvent ==
    LET active == {i \in DOMAIN events : events[i].active} IN
    /\ mode <=> active # {}
    /\ \A i, j \in active : i = j

ModeInv == TypeOK /\ OneActiveEvent

(* A final status the webhook has answered is in sms_logs, unless it came  *)
(* before the record, crossed another callback, the record was repeated,   *)
(* or a query of the webhook failed: the update of a final status, or the  *)
(* look-up for a late SENT.                                                *)
AnsweredIsKept ==
    \A t \in Texts : At(t).answered /\ t \notin slip /\ At(t).missed = 0 => At(t).row = "FINAL"

(* An event's counters count a text once, and once more at most for every  *)
(* such query that failed, with the other exceptions the same.             *)
CountedOnce == \A t \in Texts : t \notin slip => At(t).counted <= 1 + At(t).missed
=============================================================================
