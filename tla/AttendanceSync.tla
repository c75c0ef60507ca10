--------------------------- MODULE AttendanceSync ---------------------------
(***************************************************************************)
(* Roll-call marks travelling from teachers' devices to public.attendance. *)
(* One student, class, date and period: the unique key of the table, so    *)
(* marks for other keys do not meet these.  Devices push the edits of      *)
(* their outboxes one at a time (SyncService.pushOutbox); each push runs   *)
(* MobileSyncService.appendSyncEvent on the API, a chain of separate       *)
(* database calls that interleaves with the other handlers, with the REST  *)
(* roll call (AttendanceService.recordAttendance) and with a retry of the  *)
(* same edit whose first attempt the device has given up on.  The append   *)
(* itself is the indivisible one of EventLog.  The handler looks at the    *)
(* errors of its writes; a look-up that fails finds nothing, and it goes   *)
(* on with that.                                                           *)
(***************************************************************************)
EXTENDS Naturals, FiniteSets

CONSTANTS
    Edits,          \* outbox entries (client_uuid, stable over retries)
    Devices,
    DeviceOf,       \* the device that queued each edit
    Rank,           \* created_at order of the edits of one device
    EditTime,       \* marked_at as the device's clock had it
    EditStatus,     \* PRESENT, ABSENT, ...
    Calls,          \* REST roll calls
    CallStatus,
    Statuses,
    Workers,        \* handlers the API can run at a time (bound)
    Nobody,         \* no handler awaited
    Skew,           \* the 60 seconds a device clock may be ahead
    MaxTime,        \* bound: the server clock stops here
    MaxSetbacks     \* bound on failures, timeouts, reassignments and erasures

ASSUME EditsAssumption ==
    /\ Edits # {}
    /\ DeviceOf \in [Edits -> Devices] /\ Rank \in [Edits -> Nat]
    /\ EditTime \in [Edits -> Nat] /\ EditStatus \in [Edits -> Statuses]
    /\ CallStatus \in [Calls -> Statuses]
    /\ Nobody \notin Workers
    /\ Skew \in Nat /\ MaxTime \in Nat /\ MaxSetbacks \in Nat

VARIABLES
    now,         \* server clock
    enrolled,    \* the student is active and in the class
    assigned,    \* the devices whose teacher is assigned to the class
    stored,      \* the attendance row
    conflictLog, \* attendance_conflicts_log
    event,       \* each edit's sync_events row: absent, logged, applied
    scrubbed,    \* edits whose stored payload was redacted
    decided,     \* edits whose mark was written, or lost to the row it met,
                 \* or was refused for a student who left the class
    misread,     \* history: edits dropped over a failed enrolment look-up
    refused,     \* history: edits a device recorded as failed for a 403, a
                 \* 409 or an error it does not know
    outbox,      \* sync_outbox.status on the devices
    awaited,     \* the handler each device waits for
    h,           \* the handlers running appendSyncEvent
    call,        \* the handlers running recordAttendance
    setbacks

history == <<decided, misread, refused>>
vars == <<now, enrolled, assigned, stored, conflictLog, event, scrubbed, decided,
          misread, refused, outbox, awaited, h, call, setbacks>>

NoRow == [status |-> "none", marked |-> 0]
Mark  == [status : Statuses, marked : Nat]
Entry == [client : Mark, server : Mark, resolution : {"CLIENT_WINS", "SERVER_WINS"}]

HandlerSteps == {"idle", "class", "precheck", "append", "enrol", "read", "log",
                 "write", "mark", "respond", "refuse"}
(* edit: what is pushed; pre: the event row found before the append;       *)
(* mark: status and clamped time; seen: the attendance row as read.        *)
Handler == [step : HandlerSteps, edit : Edits, pre : {"absent", "logged", "applied"},
            mark : Mark, seen : Mark \union {NoRow}]
RestCall == [step : {"idle", "log", "upsert", "done"}, mark : Mark,
             seen : Mark \union {NoRow}]

Fresh(e) == [step |-> "idle", edit |-> e, pre |-> "absent",
             mark |-> [status |-> EditStatus[e], marked |-> EditTime[e]],
             seen |-> NoRow]
IdleHandler == Fresh(CHOOSE e \in Edits : TRUE)
IdleCall(c) == [step |-> "idle", mark |-> [status |-> CallStatus[c], marked |-> 0],
                seen |-> NoRow]

TypeOK ==
    /\ now \in 0..MaxTime /\ enrolled \in BOOLEAN
    /\ stored \in Mark \union {NoRow}
    /\ conflictLog \subseteq Entry
    /\ event \in [Edits -> {"absent", "logged", "applied"}]
    /\ assigned \subseteq Devices
    /\ scrubbed \subseteq Edits /\ decided \subseteq Edits
    /\ misread \subseteq Edits /\ refused \subseteq Edits
    /\ outbox \in [Edits -> {"PENDING", "SYNCED", "FAILED"}]
    /\ awaited \in [Devices -> Workers \union {Nobody}]
    /\ h \in [Workers -> Handler]
    /\ call \in [Calls -> RestCall]
    /\ setbacks \in 0..MaxSetbacks

Init ==
    /\ now = 0 /\ enrolled = TRUE
    /\ stored = NoRow /\ conflictLog = {}
    /\ event = [e \in Edits |-> "absent"]
    /\ assigned = Devices
    /\ scrubbed = {} /\ decided = {} /\ misread = {} /\ refused = {}
    /\ outbox = [e \in Edits |-> "PENDING"]
    /\ awaited = [d \in Devices |-> Nobody]
    /\ h = [w \in Workers |-> IdleHandler]
    /\ call = [c \in Calls |-> IdleCall(c)]
    /\ setbacks = 0

-----------------------------------------------------------------------------
At(w, step) == h[w].step = step
Goto(w, step) == h' = [h EXCEPT ![w].step = step]
Setback == setbacks < MaxSetbacks /\ setbacks' = setbacks + 1
Earliest(a, b) == IF a < b THEN a ELSE b

Conflicting(mark, seen) == seen # NoRow /\ seen.status # mark.status
(* Mutant of ClientWins: the last writer wins, whatever the times. *)
ClientAlwaysWins(mark, seen) == TRUE

ClientWins(mark, seen) == mark.marked > seen.marked
LogEntry(mark, seen, wins) ==
    [client |-> mark, server |-> seen,
     resolution |-> IF wins THEN "CLIENT_WINS" ELSE "SERVER_WINS"]

(* The edits of a device leave its outbox in the order they were queued. *)
NextPending(d) ==
    {e \in Edits : /\ DeviceOf[e] = d /\ outbox[e] = "PENDING"
                   /\ \A f \in Edits : DeviceOf[f] = d /\ outbox[f] = "PENDING"
                                          => Rank[e] <= Rank[f]}

(* The device no longer waits for handler w. *)
Release(w) ==
    awaited' = [d \in Devices |-> IF awaited[d] = w THEN Nobody ELSE awaited[d]]
(* What becomes of w's edit on the device, if it still waits for w. *)
Settle(w, status) ==
    outbox' = [e \in Edits |->
          IF e = h[w].edit /\ awaited[DeviceOf[e]] = w THEN status ELSE outbox[e]]

(* pushOutbox sends its next pending edit; a handler takes the request. *)
Push(d) ==
    /\ awaited[d] = Nobody
    /\ \E e \in NextPending(d), w \in Workers :
          /\ At(w, "idle")
          /\ h' = [h EXCEPT ![w] = [Fresh(e) EXCEPT !.step = "class"]]
          /\ awaited' = [awaited EXCEPT ![d] = w]
    /\ UNCHANGED <<now, enrolled, assigned, stored, conflictLog, event, scrubbed,
                   history, outbox, call, setbacks>>

(* The device's request times out: the edit stays PENDING and the pass is  *)
(* over, but the handler runs on.                                          *)
GiveUp(d) ==
    /\ awaited[d] # Nobody
    /\ Setback
    /\ awaited' = [awaited EXCEPT ![d] = Nobody]
    /\ UNCHANGED <<now, enrolled, assigned, stored, conflictLog, event, scrubbed,
                   history, outbox, h, call>>

(* The connection breaks in a way the client library has no type for       *)
(* (DioExceptionType.unknown): not one of those pushOutbox takes for       *)
(* transient, so the edit is FAILED, whatever the handler makes of it.     *)
BreakUnknown(d) ==
    /\ awaited[d] # Nobody
    /\ Setback
    /\ Settle(awaited[d], "FAILED")
    /\ refused' = refused \union {h[awaited[d]].edit}
    /\ awaited' = [awaited EXCEPT ![d] = Nobody]
    /\ UNCHANGED <<now, enrolled, assigned, stored, conflictLog, event, scrubbed,
                   decided, misread, h, call>>

(* retryFailedOutboxEvents, the teacher's button. *)
RetryFailed(d) ==
    /\ \E e \in Edits : DeviceOf[e] = d /\ outbox[e] = "FAILED"
    /\ outbox' = [e \in Edits |-> IF DeviceOf[e] = d /\ outbox[e] = "FAILED"
                                  THEN "PENDING" ELSE outbox[e]]
    /\ UNCHANGED <<now, enrolled, assigned, stored, conflictLog, event, scrubbed,
                   history, awaited, h, call, setbacks>>

(* A teacher records for assigned classes only: 403 otherwise, and when    *)
(* one of the two look-ups behind it fails and finds no class.             *)
CheckClass(w) ==
    /\ At(w, "class")
    /\ \/ /\ Goto(w, IF DeviceOf[h[w].edit] \in assigned THEN "precheck" ELSE "refuse")
          /\ UNCHANGED setbacks
       \/ Setback /\ Goto(w, "refuse")
    /\ UNCHANGED <<now, enrolled, assigned, stored, conflictLog, event, scrubbed,
                   history, outbox, awaited, call>>

(* "Was this uuid ingested before, and applied?"  Read before the append;  *)
(* a failed look-up has found no event.                                    *)
Precheck(w) ==
    /\ At(w, "precheck")
    /\ \/ /\ h' = [h EXCEPT ![w].step = "append", ![w].pre = event[h[w].edit]]
          /\ UNCHANGED setbacks
       \/ /\ h' = [h EXCEPT ![w].step = "append", ![w].pre = "absent"]
          /\ Setback
    /\ UNCHANGED <<now, enrolled, assigned, stored, conflictLog, event, scrubbed,
                   history, outbox, awaited, call>>

(* Mutant of NeedsApplying: an event found in the log is taken as applied. *)
NeedsApplyingIfNew(pre) == pre = "absent"

NeedsApplying(pre) == pre # "applied"

(* append_sync_event: a new row, applied = FALSE, or the one stored; one   *)
(* whose payload was redacted is no longer the same event (409).           *)
AppendEvent(w) ==
    LET e == h[w].edit IN
    /\ At(w, "append")
    /\ event' = [event EXCEPT ![e] = IF @ = "absent" THEN "logged" ELSE @]
    /\ Goto(w, IF e \in scrubbed THEN "refuse"
               ELSE IF NeedsApplying(h[w].pre) THEN "enrol" ELSE "respond")
    /\ UNCHANGED <<now, enrolled, assigned, stored, conflictLog, scrubbed, history,
                   outbox, awaited, call, setbacks>>

(* The student must be active in the class; otherwise the event is marked  *)
(* applied without touching the table, and answered as a success.  So it   *)
(* is when the look-up fails and has found no student.                     *)
CheckEnrolment(w) ==
    /\ At(w, "enrol")
    /\ \/ /\ enrolled /\ Goto(w, "read")
          /\ UNCHANGED <<decided, misread, setbacks>>
       \/ /\ ~enrolled /\ Goto(w, "mark")
          /\ decided' = decided \union {h[w].edit}
          /\ UNCHANGED <<misread, setbacks>>
       \/ /\ enrolled /\ Setback /\ Goto(w, "mark")
          /\ misread' = misread \union {h[w].edit}
          /\ UNCHANGED decided
    /\ UNCHANGED <<now, enrolled, assigned, stored, conflictLog, event, scrubbed,
                   refused, outbox, awaited, call>>

(* Clamp the device's clock, future side only, and read the row; a failed  *)
(* read has found none.                                                    *)
Clamp(t) == Earliest(t, now + Skew)
ReadRow(w) ==
    /\ At(w, "read")
    /\ \/ /\ h' = [h EXCEPT
                ![w].step = IF Conflicting(h[w].mark, stored) THEN "log" ELSE "write",
                ![w].mark.marked = Clamp(@),
                ![w].seen = stored]
          /\ UNCHANGED setbacks
       \/ /\ h' = [h EXCEPT ![w].step = "write", ![w].mark.marked = Clamp(@),
                            ![w].seen = NoRow]
          /\ Setback
    /\ UNCHANGED <<now, enrolled, assigned, stored, conflictLog, event, scrubbed,
                   history, outbox, awaited, call>>

(* The conflict log; a failure to write it is only a warning. *)
LogConflict(w) ==
    /\ At(w, "log")
    /\ Goto(w, "write")
    /\ \/ /\ conflictLog' = conflictLog \union
               {LogEntry(h[w].mark, h[w].seen, ClientWins(h[w].mark, h[w].seen))}
          /\ UNCHANGED setbacks
       \/ Setback /\ UNCHANGED conflictLog
    /\ UNCHANGED <<now, enrolled, assigned, stored, event, scrubbed, history, outbox,
                   awaited, call>>

(* Insert when no row was seen (an insert that lost the race violates the  *)
(* unique key: 500), update by id when the client wins, else leave it.     *)
WriteRow(w) ==
    /\ At(w, "write")
    /\ IF h[w].seen = NoRow /\ stored # NoRow
       THEN /\ h' = [h EXCEPT ![w] = IdleHandler]
            /\ Release(w)
            /\ UNCHANGED <<stored, decided>>
       ELSE /\ stored' = IF h[w].seen = NoRow \/ ClientWins(h[w].mark, h[w].seen)
                         THEN h[w].mark ELSE stored
            /\ decided' = decided \union {h[w].edit}
            /\ Goto(w, "mark")
            /\ UNCHANGED awaited
    /\ UNCHANGED <<now, enrolled, assigned, conflictLog, event, scrubbed, misread,
                   refused, outbox, call, setbacks>>

(* applied = TRUE; a failure to write it is only a warning. *)
MarkApplied(w) ==
    /\ At(w, "mark")
    /\ Goto(w, "respond")
    /\ \/ event' = [event EXCEPT ![h[w].edit] = "applied"] /\ UNCHANGED setbacks
       \/ Setback /\ UNCHANGED event
    /\ UNCHANGED <<now, enrolled, assigned, stored, conflictLog, scrubbed, history,
                   outbox, awaited, call>>

(* The answer reaches the device if it still waits for this handler. *)
Respond(w) ==
    /\ At(w, "respond")
    /\ Settle(w, "SYNCED")
    /\ Release(w)
    /\ h' = [h EXCEPT ![w] = IdleHandler]
    /\ UNCHANGED <<now, enrolled, assigned, stored, conflictLog, event, scrubbed,
                   history, call, setbacks>>

(* A 403 or 409 is permanent for the device. *)
Refuse(w) ==
    /\ At(w, "refuse")
    /\ Settle(w, "FAILED")
    /\ refused' = IF \E d \in Devices : awaited[d] = w
                  THEN refused \union {h[w].edit} ELSE refused
    /\ Release(w)
    /\ h' = [h EXCEPT ![w] = IdleHandler]
    /\ UNCHANGED <<now, enrolled, assigned, stored, conflictLog, event, scrubbed,
                   decided, misread, call, setbacks>>

(* Mutant of AfterServerError: a 5xx answer is treated like a 400. *)
AfterServerErrorFailed == "FAILED"

(* What a 5xx answer or a dropped connection leaves in the outbox. *)
AfterServerError == "PENDING"

(* The append or the write of the row fails (500), or the API process dies *)
(* at any step: whatever was written stays written.                        *)
ServerError(w) ==
    /\ ~At(w, "idle")
    /\ Setback
    /\ Settle(w, AfterServerError)
    /\ Release(w)
    /\ h' = [h EXCEPT ![w] = IdleHandler]
    /\ UNCHANGED <<now, enrolled, assigned, stored, conflictLog, event, scrubbed,
                   history, call>>

-----------------------------------------------------------------------------
(* recordAttendance: enrolment, the server's time, the row to compare with *)
(* (a failed read of it has found none).                                   *)
RestRead(c) ==
    /\ call[c].step = "idle"
    /\ \/ /\ call' = [call EXCEPT
                ![c].step = IF ~enrolled THEN "done"
                            ELSE IF Conflicting(call[c].mark, stored) THEN "log" ELSE "upsert",
                ![c].mark.marked = now,
                ![c].seen = stored]
          /\ UNCHANGED setbacks
       \/ /\ enrolled /\ Setback
          /\ call' = [call EXCEPT ![c].step = "upsert", ![c].mark.marked = now]
    /\ UNCHANGED <<now, enrolled, assigned, stored, conflictLog, event, scrubbed,
                   history, outbox, awaited, h>>

RestLog(c) ==
    /\ call[c].step = "log"
    /\ call' = [call EXCEPT ![c].step = "upsert"]
    /\ \/ /\ conflictLog' = conflictLog \union {LogEntry(call[c].mark, call[c].seen, TRUE)}
          /\ UNCHANGED setbacks
       \/ Setback /\ UNCHANGED conflictLog
    /\ UNCHANGED <<now, enrolled, assigned, stored, event, scrubbed, history, outbox,
                   awaited, h>>

(* The upsert overwrites whatever is there; the events it then emits carry *)
(* uuids of their own and are not pushed by any device.                    *)
RestUpsert(c) ==
    /\ call[c].step = "upsert"
    /\ stored' = call[c].mark
    /\ call' = [call EXCEPT ![c] = [IdleCall(c) EXCEPT !.step = "done"]]
    /\ UNCHANGED <<now, enrolled, assigned, conflictLog, event, scrubbed, history,
                   outbox, awaited, h, setbacks>>

-----------------------------------------------------------------------------
(* The student leaves the class, a teacher loses it, or an erasure scrubs  *)
(* the events that name the student.                                       *)
LeaveClass ==
    /\ enrolled
    /\ enrolled' = FALSE
    /\ UNCHANGED <<now, assigned, stored, conflictLog, event, scrubbed, history,
                   outbox, awaited, h, call, setbacks>>

Reassign(d) ==
    /\ d \in assigned /\ Setback
    /\ assigned' = assigned \ {d}
    /\ UNCHANGED <<now, enrolled, stored, conflictLog, event, scrubbed, history,
                   outbox, awaited, h, call>>

ScrubEvents ==
    /\ Setback
    /\ scrubbed' = {e \in Edits : event[e] # "absent"}
    /\ UNCHANGED <<now, enrolled, assigned, stored, conflictLog, event, history,
                   outbox, awaited, h, call>>

Tick ==
    /\ now < MaxTime
    /\ now' = now + 1
    /\ UNCHANGED <<enrolled, assigned, stored, conflictLog, event, scrubbed, history,
                   outbox, awaited, h, call, setbacks>>

Handle(w) ==
    \/ CheckClass(w) \/ Precheck(w) \/ AppendEvent(w) \/ CheckEnrolment(w)
    \/ ReadRow(w) \/ LogConflict(w) \/ WriteRow(w) \/ MarkApplied(w)
    \/ Respond(w) \/ Refuse(w)

Next ==
    \/ \E d \in Devices : Push(d) \/ GiveUp(d) \/ BreakUnknown(d) \/ RetryFailed(d)
    \/ \E w \in Workers : Handle(w) \/ ServerError(w)
    \/ \E c \in Calls : RestRead(c) \/ RestLog(c) \/ RestUpsert(c)
    \/ LeaveClass \/ ScrubEvents \/ Tick
    \/ \E d \in Devices : Reassign(d)

(* Devices retry on every pass of the sync timer and the API runs what it  *)
(* has accepted; nothing forces a failure, a REST call or a tick.          *)
Fairness ==
    /\ \A d \in Devices : WF_vars(Push(d))
    /\ \A w \in Workers : WF_vars(Handle(w))

Spec == Init /\ [][Next]_vars
FairSpec == Spec /\ Fairness

-----------------------------------------------------------------------------
(* An edit the device believes synced, or the log holds as applied, has    *)
(* been decided on the server: a crash between the append and the roll     *)
(* call, a lost answer or two overlapping attempts never leave an edit     *)
(* acknowledged but unprocessed.  Only a failed look-up of the student's   *)
(* enrolment does: the mark of an enrolled student is dropped as success.  *)
SyncedMeansDecided ==
    \A e \in Edits : outbox[e] = "SYNCED" \/ event[e] = "applied" =>
       e \in decided \union misread

(* No stored time is further ahead of the server than the allowed skew,    *)
(* however far ahead the device's clock runs (ADR-002, clamping).          *)
NeverFromTheFuture == stored # NoRow => stored.marked <= now + Skew

AttendanceInv == TypeOK /\ SyncedMeansDecided /\ NeverFromTheFuture

(* appendSyncEvent replaces a newer mark by an older one only when the row *)
(* has changed since it was read: the comparison itself is never wrong.    *)
RegressionNeedsStaleRead ==
    [][stored # NoRow /\ stored'.marked < stored.marked =>
          \/ \E w \in Workers : At(w, "write") /\ h'[w].step = "mark" /\ h[w].seen # stored
          \/ \E c \in Calls : call[c].step = "upsert" /\ call'[c].step = "done"]_vars

(* Once failures stop every queued edit is synced, but those the device    *)
(* was told are refused (the teacher lost the class or a look-up of it     *)
(* failed, the stored event was scrubbed) or took to be over an error it   *)
(* does not know: nothing else, and no edit before it, keeps one waiting.  *)
EveryEditSyncs == \A e \in Edits : <>(outbox[e] = "SYNCED" \/ e \in refused)
=============================================================================
