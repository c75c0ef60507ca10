---------------------------- MODULE RollCallProof ----------------------------
(***************************************************************************)
(* Proofs about a roll-call mark on its way: AttendanceSync, from the      *)
(* devices and the web to the row of the server, for any edits, devices,   *)
(* roll calls, clocks and setbacks, and RollCallCache, from the server's   *)
(* log to the phones that show it, for any recordings, periods, page size, *)
(* retention and kills.                                                    *)
(***************************************************************************)
EXTENDS AttendanceSync, RollCallCache, SequenceTheorems, TLAPS

-----------------------------------------------------------------------------
(* AttendanceSync.                                                         *)

(* A handler that is past the decision, or has found it taken, speaks of a *)
(* decided edit, or of one whose enrolment look-up failed.                 *)
HandlerKnows ==
    \A w \in Workers :
       /\ h[w].step \in {"mark", "respond"} => h[w].edit \in decided \union misread
       /\ h[w].step = "append" /\ h[w].pre = "applied"
             => h[w].edit \in decided \union misread

(* The time a handler or a roll call is going to store has been compared   *)
(* with the server's clock.                                                *)
TimesClamped ==
    /\ \A w \in Workers : h[w].step \in {"log", "write"} => h[w].mark.marked <= now + Skew
    /\ \A c \in Calls : call[c].step \in {"log", "upsert"} => call[c].mark.marked <= now

(* Only a row that was there conflicts with a mark. *)
ConflictsWithARow ==
    /\ \A w \in Workers : h[w].step = "log" => h[w].seen \in Mark
    /\ \A c \in Calls : call[c].step = "log" => call[c].seen \in Mark

IInv ==
    /\ TypeOK /\ SyncedMeansDecided /\ NeverFromTheFuture
    /\ HandlerKnows /\ TimesClamped /\ ConflictsWithARow

-----------------------------------------------------------------------------
(* A fresh handler has the edit's mark, an idle one any edit's. *)
LEMMA HandlerTypes ==
    /\ \A e \in Edits : Fresh(e) \in Handler /\ Fresh(e).step = "idle" /\ Fresh(e).edit = e
    /\ IdleHandler \in Handler /\ IdleHandler.step = "idle"
    /\ \A c \in Calls : IdleCall(c) \in RestCall /\ IdleCall(c).step = "idle"
<1>1. \A e \in Edits : Fresh(e) \in Handler /\ Fresh(e).step = "idle" /\ Fresh(e).edit = e
  BY EditsAssumption DEF Fresh, Handler, HandlerSteps, Mark, NoRow
<1>2. (CHOOSE e \in Edits : TRUE) \in Edits
  BY EditsAssumption
<1>3. \A c \in Calls : IdleCall(c) \in RestCall /\ IdleCall(c).step = "idle"
  BY EditsAssumption DEF IdleCall, RestCall, Mark, NoRow
<1>. QED  BY <1>1, <1>2, <1>3 DEF IdleHandler

(* Nothing is stored, logged or under way at first. *)
LEMMA InitIInv == Init => IInv
BY HandlerTypes, EditsAssumption
DEF Init, IInv, TypeOK, SyncedMeansDecided, NeverFromTheFuture, HandlerKnows, TimesClamped,
    ConflictsWithARow, NoRow

(* What a handler's record becomes when it moves on to another step. *)
LEMMA GotoFacts ==
    ASSUME TypeOK, NEW w \in Workers, NEW step \in HandlerSteps, Goto(w, step)
    PROVE  /\ h' \in [Workers -> Handler] /\ \A v \in Workers \ {w} : h'[v] = h[v]
           /\ h'[w].step = step /\ h'[w].edit = h[w].edit /\ h'[w].pre = h[w].pre
           /\ h'[w].mark = h[w].mark /\ h'[w].seen = h[w].seen
BY DEF TypeOK, Goto, Handler

(* The fields of a handler, with their types. *)
LEMMA HandlerFields ==
    ASSUME TypeOK, NEW w \in Workers
    PROVE  /\ h[w] \in Handler /\ h[w].edit \in Edits
           /\ h[w].mark \in Mark /\ h[w].mark.marked \in Nat
           /\ h[w].seen \in Mark \union {NoRow}
BY DEF TypeOK, Handler, Mark

(* A handler takes a request, or is done with one: every other stays, and  *)
(* nothing the handlers know of has changed.                               *)
LEMMA FreeIInv ==
    ASSUME IInv, NEW w \in Workers, NEW r \in Handler,
           r.step \in {"idle", "class"}, h' = [h EXCEPT ![w] = r],
           outbox' \in [Edits -> {"PENDING", "SYNCED", "FAILED"}],
           \A e \in Edits : outbox'[e] = "SYNCED" => e \in decided \union misread,
           refused' \subseteq Edits,
           awaited' \in [Devices -> Workers \union {Nobody}],
           setbacks' \in 0..MaxSetbacks,
           UNCHANGED <<now, enrolled, assigned, stored, conflictLog, event, scrubbed,
                       decided, misread, call>>
    PROVE  IInv'
<1>1. /\ h' \in [Workers -> Handler] /\ \A v \in Workers \ {w} : h'[v] = h[v]
      /\ h'[w] = r
  BY DEF IInv, TypeOK
<1>2. TypeOK'
  BY <1>1 DEF IInv, TypeOK
<1>3. SyncedMeansDecided' /\ NeverFromTheFuture'
  BY DEF IInv, SyncedMeansDecided, NeverFromTheFuture
<1>4. HandlerKnows' /\ TimesClamped' /\ ConflictsWithARow'
  BY <1>1 DEF IInv, HandlerKnows, TimesClamped, ConflictsWithARow
<1>. QED  BY <1>2, <1>3, <1>4 DEF IInv

-----------------------------------------------------------------------------
(* The device sends an edit. *)
LEMMA PushIInv ==
    ASSUME IInv, NEW d \in Devices, Push(d)
    PROVE  IInv'
<1>1. PICK e \in NextPending(d), w \in Workers :
         /\ h' = [h EXCEPT ![w] = [Fresh(e) EXCEPT !.step = "class"]]
         /\ awaited' = [awaited EXCEPT ![d] = w]
  BY DEF Push
<1>2. [Fresh(e) EXCEPT !.step = "class"] \in Handler
  <2>1. e \in Edits
    BY DEF NextPending
  <2>. QED  BY <2>1, EditsAssumption DEF Fresh, Handler, HandlerSteps, Mark, NoRow
<1>3. [Fresh(e) EXCEPT !.step = "class"].step = "class"
  BY DEF Fresh
<1>4. \A f \in Edits : outbox[f] = "SYNCED" => f \in decided \union misread
  BY DEF IInv, SyncedMeansDecided
<1>. QED  BY <1>1, <1>2, <1>3, <1>4, FreeIInv DEF Push, history, IInv, TypeOK

(* It gives up waiting: nothing on the server changes. *)
LEMMA GiveUpIInv ==
    ASSUME IInv, NEW d \in Devices, GiveUp(d)
    PROVE  IInv'
BY EditsAssumption
DEF GiveUp, Setback, history, IInv, TypeOK, SyncedMeansDecided, NeverFromTheFuture, HandlerKnows,
    TimesClamped, ConflictsWithARow

(* What a device records of an edit is SYNCED only for the answer that     *)
(* says so.                                                                *)
LEMMA SettleFacts ==
    ASSUME IInv, NEW w \in Workers, NEW status \in {"PENDING", "SYNCED", "FAILED"},
           Settle(w, status), status = "SYNCED" => h[w].edit \in decided \union misread
    PROVE  /\ outbox' \in [Edits -> {"PENDING", "SYNCED", "FAILED"}]
           /\ \A e \in Edits : outbox'[e] = "SYNCED" => e \in decided \union misread
BY DEF Settle, IInv, TypeOK, SyncedMeansDecided

(* Nobody waits for the handler afterwards. *)
LEMMA ReleaseFacts ==
    ASSUME IInv, NEW w \in Workers, Release(w)
    PROVE  awaited' \in [Devices -> Workers \union {Nobody}]
BY DEF Release, IInv, TypeOK

(* An error the device does not know: the edit is failed, on the device.   *)
LEMMA BreakUnknownIInv ==
    ASSUME IInv, NEW d \in Devices, BreakUnknown(d)
    PROVE  IInv'
<1>1. awaited[d] \in Workers
  BY DEF BreakUnknown, IInv, TypeOK
<1>2. /\ outbox' \in [Edits -> {"PENDING", "SYNCED", "FAILED"}]
      /\ \A e \in Edits : outbox'[e] = "SYNCED" => e \in decided \union misread
  BY <1>1, SettleFacts DEF BreakUnknown
<1>3. refused' \subseteq Edits /\ setbacks' \in 0..MaxSetbacks
  BY <1>1, HandlerFields, EditsAssumption DEF BreakUnknown, Setback, IInv, TypeOK
<1>4. TypeOK' /\ SyncedMeansDecided'
  BY <1>2, <1>3 DEF BreakUnknown, IInv, TypeOK, SyncedMeansDecided
<1>. QED
  BY <1>4 DEF BreakUnknown, IInv, NeverFromTheFuture, HandlerKnows, TimesClamped, ConflictsWithARow

(* The button queues what had failed again. *)
LEMMA RetryFailedIInv ==
    ASSUME IInv, NEW d \in Devices, RetryFailed(d)
    PROVE  IInv'
BY DEF RetryFailed, history, IInv, TypeOK, SyncedMeansDecided, NeverFromTheFuture, HandlerKnows,
       TimesClamped, ConflictsWithARow

(* The class check lets a handler go on, or has it refuse. *)
LEMMA CheckClassIInv ==
    ASSUME IInv, NEW w \in Workers, CheckClass(w)
    PROVE  IInv'
<1>1. PICK step \in {"precheck", "refuse"} : Goto(w, step)
  BY DEF CheckClass
<1>2. /\ h' \in [Workers -> Handler] /\ \A v \in Workers \ {w} : h'[v] = h[v]
      /\ h'[w].step = step /\ setbacks' \in 0..MaxSetbacks
  BY <1>1, GotoFacts, EditsAssumption DEF CheckClass, Setback, IInv, TypeOK, HandlerSteps
<1>3. TypeOK'
  BY <1>2 DEF CheckClass, history, IInv, TypeOK
<1>. QED
  BY <1>2, <1>3 DEF CheckClass, history, IInv, SyncedMeansDecided, NeverFromTheFuture, HandlerKnows,
                    TimesClamped, ConflictsWithARow

(* An event found applied is one that was decided. *)
LEMMA PrecheckIInv ==
    ASSUME IInv, NEW w \in Workers, Precheck(w)
    PROVE  IInv'
<1>1. PICK pre \in {"absent", event[h[w].edit]} :
         h' = [h EXCEPT ![w].step = "append", ![w].pre = pre]
  BY DEF Precheck
<1>2. /\ h' \in [Workers -> Handler] /\ \A v \in Workers \ {w} : h'[v] = h[v]
      /\ h'[w].step = "append" /\ h'[w].edit = h[w].edit /\ h'[w].pre = pre
  BY <1>1, HandlerFields DEF IInv, TypeOK, Handler, HandlerSteps
<1>3. setbacks' \in 0..MaxSetbacks
  BY EditsAssumption DEF Precheck, Setback, IInv, TypeOK
<1>4. TypeOK'
  BY <1>2, <1>3 DEF Precheck, history, IInv, TypeOK
<1>5. SyncedMeansDecided' /\ NeverFromTheFuture'
  BY DEF Precheck, history, IInv, SyncedMeansDecided, NeverFromTheFuture
<1>6. HandlerKnows' /\ TimesClamped' /\ ConflictsWithARow'
  BY <1>2, HandlerFields
  DEF Precheck, history, IInv, HandlerKnows, TimesClamped, ConflictsWithARow, SyncedMeansDecided
<1>. QED  BY <1>4, <1>5, <1>6 DEF IInv

(* The append answers at once only when the precheck has found the event   *)
(* applied.                                                                *)
LEMMA AppendEventIInv ==
    ASSUME IInv, NEW w \in Workers, AppendEvent(w)
    PROVE  IInv'
<1> DEFINE step == IF h[w].edit \in scrubbed THEN "refuse"
                   ELSE IF NeedsApplying(h[w].pre) THEN "enrol" ELSE "respond"
<1>1. step \in HandlerSteps /\ (step = "respond" => h[w].pre = "applied") /\ step # "log"
      /\ step # "write" /\ step # "mark" /\ step # "append"
  BY DEF HandlerSteps, NeedsApplying
<1>2. Goto(w, step) /\ At(w, "append")
      /\ event' = [event EXCEPT ![h[w].edit] = IF @ = "absent" THEN "logged" ELSE @]
      /\ UNCHANGED <<now, enrolled, assigned, stored, conflictLog, scrubbed, decided, misread,
                     refused, outbox, awaited, call, setbacks>>
  BY DEF AppendEvent, history
<1>. HIDE DEF step
<1>3. /\ h' \in [Workers -> Handler] /\ \A v \in Workers \ {w} : h'[v] = h[v]
      /\ h'[w].step = step /\ h'[w].edit = h[w].edit
  BY <1>1, <1>2, GotoFacts DEF IInv
<1>4. /\ event' \in [Edits -> {"absent", "logged", "applied"}]
      /\ \A e \in Edits : event'[e] = "applied" => event[e] = "applied"
  BY <1>2, HandlerFields DEF IInv, TypeOK
<1>5. TypeOK'
  BY <1>2, <1>3, <1>4 DEF IInv, TypeOK
<1>6. SyncedMeansDecided' /\ NeverFromTheFuture'
  BY <1>2, <1>4 DEF IInv, SyncedMeansDecided, NeverFromTheFuture
<1>7. HandlerKnows' /\ TimesClamped' /\ ConflictsWithARow'
  BY <1>1, <1>2, <1>3 DEF IInv, HandlerKnows, TimesClamped, ConflictsWithARow, At
<1>. QED  BY <1>5, <1>6, <1>7 DEF IInv

(* A student who has left the class is a decision, too. *)
LEMMA CheckEnrolmentIInv ==
    ASSUME IInv, NEW w \in Workers, CheckEnrolment(w)
    PROVE  IInv'
<1>1. PICK step \in {"read", "mark"} :
         /\ Goto(w, step) /\ decided \subseteq decided' /\ decided' \subseteq Edits
         /\ misread \subseteq misread' /\ misread' \subseteq Edits
         /\ step = "mark" => h[w].edit \in decided' \union misread'
         /\ setbacks' \in 0..MaxSetbacks
         /\ UNCHANGED <<now, enrolled, assigned, stored, conflictLog, event, scrubbed, refused,
                        outbox, awaited, call>>
  BY HandlerFields, EditsAssumption DEF CheckEnrolment, Setback, IInv, TypeOK
<1>2. /\ h' \in [Workers -> Handler] /\ \A v \in Workers \ {w} : h'[v] = h[v]
      /\ h'[w].step = step /\ h'[w].edit = h[w].edit
  BY <1>1, GotoFacts DEF IInv, HandlerSteps
<1>3. TypeOK'
  BY <1>1, <1>2 DEF IInv, TypeOK
<1>4. SyncedMeansDecided' /\ NeverFromTheFuture'
  BY <1>1 DEF IInv, SyncedMeansDecided, NeverFromTheFuture
<1>5. HandlerKnows' /\ TimesClamped' /\ ConflictsWithARow'
  BY <1>1, <1>2 DEF IInv, HandlerKnows, TimesClamped, ConflictsWithARow
<1>. QED  BY <1>3, <1>4, <1>5 DEF IInv

(* The clamp: no later than the allowed skew. *)
LEMMA ReadRowIInv ==
    ASSUME IInv, NEW w \in Workers, ReadRow(w)
    PROVE  IInv'
<1> DEFINE clamped == Clamp(h[w].mark.marked)
<1>1. clamped \in Nat /\ clamped <= now + Skew
  BY HandlerFields, EditsAssumption DEF Clamp, Earliest, IInv, TypeOK
<1>2. PICK step \in {"log", "write"}, seen \in Mark \union {NoRow} :
         /\ h' = [h EXCEPT ![w].step = step, ![w].mark.marked = clamped, ![w].seen = seen]
         /\ step = "log" => seen \in Mark
  <2>1. CASE h' = [h EXCEPT ![w].step = "write", ![w].mark.marked = clamped, ![w].seen = NoRow]
    BY <2>1
  <2>2. CASE h' = [h EXCEPT ![w].step = IF Conflicting(h[w].mark, stored) THEN "log" ELSE "write",
                            ![w].mark.marked = clamped, ![w].seen = stored]
    <3> DEFINE step == IF Conflicting(h[w].mark, stored) THEN "log" ELSE "write"
    <3>1. step \in {"log", "write"} /\ (step = "log" => stored \in Mark)
      BY DEF Conflicting, IInv, TypeOK
    <3>2. stored \in Mark \union {NoRow}
      BY DEF IInv, TypeOK
    <3>. HIDE DEF step, clamped
    <3>3. h' = [h EXCEPT ![w].step = step, ![w].mark.marked = clamped, ![w].seen = stored]
      BY <2>2 DEF step
    <3>. QED  BY <3>1, <3>2, <3>3
  <2>. QED  BY <2>1, <2>2 DEF ReadRow, Handler, IInv, TypeOK
<1>. HIDE DEF clamped
<1>4. [h[w].mark EXCEPT !.marked = clamped] \in Mark
  BY <1>1, HandlerFields DEF IInv, Mark
<1>5. h'[w] \in Handler
  BY <1>2, <1>4, HandlerFields DEF IInv, TypeOK, Handler, HandlerSteps
<1>6. /\ h' \in [Workers -> Handler] /\ \A v \in Workers \ {w} : h'[v] = h[v]
      /\ h'[w].step = step /\ h'[w].edit = h[w].edit
      /\ h'[w].mark.marked = clamped /\ h'[w].seen = seen
  BY <1>2, <1>5, HandlerFields DEF IInv, TypeOK, Handler, Mark
<1>7. setbacks' \in 0..MaxSetbacks
  BY EditsAssumption DEF ReadRow, Setback, IInv, TypeOK
<1>8. TypeOK'
  BY <1>6, <1>7 DEF ReadRow, history, IInv, TypeOK
<1>9. SyncedMeansDecided' /\ NeverFromTheFuture'
  BY DEF ReadRow, history, IInv, SyncedMeansDecided, NeverFromTheFuture
<1>10. HandlerKnows' /\ TimesClamped' /\ ConflictsWithARow'
  BY <1>1, <1>2, <1>6
  DEF ReadRow, history, IInv, HandlerKnows, TimesClamped, ConflictsWithARow
<1>. QED  BY <1>8, <1>9, <1>10 DEF IInv

(* The conflict log decides nothing. *)
LEMMA LogConflictIInv ==
    ASSUME IInv, NEW w \in Workers, LogConflict(w)
    PROVE  IInv'
<1>1. /\ h' \in [Workers -> Handler] /\ \A v \in Workers \ {w} : h'[v] = h[v]
      /\ h'[w].step = "write" /\ h'[w].edit = h[w].edit /\ h'[w].mark = h[w].mark
  BY GotoFacts DEF LogConflict, history, IInv, HandlerSteps
<1>2. LogEntry(h[w].mark, h[w].seen, ClientWins(h[w].mark, h[w].seen)) \in Entry
  BY HandlerFields DEF LogConflict, At, history, IInv, ConflictsWithARow, LogEntry, Entry
<1>3. conflictLog' \subseteq Entry /\ setbacks' \in 0..MaxSetbacks
  BY <1>2, EditsAssumption DEF LogConflict, Setback, IInv, TypeOK
<1>4. TypeOK'
  BY <1>1, <1>3 DEF LogConflict, history, IInv, TypeOK
<1>5. SyncedMeansDecided' /\ NeverFromTheFuture'
  BY DEF LogConflict, history, IInv, SyncedMeansDecided, NeverFromTheFuture
<1>6. HandlerKnows' /\ TimesClamped' /\ ConflictsWithARow'
  BY <1>1 DEF LogConflict, At, history, IInv, HandlerKnows, TimesClamped, ConflictsWithARow
<1>. QED  BY <1>4, <1>5, <1>6 DEF IInv

(* An insert that lost the race ends the handler; any other write decides  *)
(* the edit.                                                               *)
LEMMA WriteRowIInv ==
    ASSUME IInv, NEW w \in Workers, WriteRow(w)
    PROVE  IInv'
<1>1. CASE h[w].seen = NoRow /\ stored # NoRow
  <2>1. /\ h' = [h EXCEPT ![w] = IdleHandler]
        /\ Release(w)
        /\ UNCHANGED <<now, enrolled, assigned, stored, conflictLog, event, scrubbed, decided,
                       misread, refused, outbox, call, setbacks>>
    BY <1>1 DEF WriteRow
  <2>2. awaited' \in [Devices -> Workers \union {Nobody}]
    BY <2>1, ReleaseFacts
  <2>3. \A e \in Edits : outbox'[e] = "SYNCED" => e \in decided \union misread
    BY <2>1 DEF IInv, SyncedMeansDecided
  <2>. QED  BY <2>1, <2>2, <2>3, HandlerTypes, FreeIInv DEF IInv, TypeOK
<1>2. CASE ~(h[w].seen = NoRow /\ stored # NoRow)
  <2>1. /\ stored' = IF h[w].seen = NoRow \/ ClientWins(h[w].mark, h[w].seen)
                     THEN h[w].mark ELSE stored
        /\ decided' = decided \union {h[w].edit} /\ Goto(w, "mark") /\ At(w, "write")
        /\ UNCHANGED <<now, enrolled, assigned, conflictLog, event, scrubbed, misread, refused,
                       outbox, awaited, call, setbacks>>
    BY <1>2 DEF WriteRow
  <2>2. /\ h' \in [Workers -> Handler] /\ \A v \in Workers \ {w} : h'[v] = h[v]
        /\ h'[w].step = "mark" /\ h'[w].edit = h[w].edit
    BY <2>1, GotoFacts DEF IInv, HandlerSteps
  <2>3. stored' \in {stored, h[w].mark} /\ h[w].mark.marked <= now + Skew
    BY <2>1 DEF At, IInv, TimesClamped
  <2>4. TypeOK'
    BY <2>1, <2>2, <2>3, HandlerFields DEF IInv, TypeOK
  <2>5. SyncedMeansDecided' /\ NeverFromTheFuture'
    BY <2>1, <2>3 DEF IInv, SyncedMeansDecided, NeverFromTheFuture
  <2>6. HandlerKnows' /\ TimesClamped' /\ ConflictsWithARow'
    BY <2>1, <2>2 DEF IInv, HandlerKnows, TimesClamped, ConflictsWithARow
  <2>. QED  BY <2>4, <2>5, <2>6 DEF IInv
<1>. QED  BY <1>1, <1>2

(* What is marked applied has been decided. *)
LEMMA MarkAppliedIInv ==
    ASSUME IInv, NEW w \in Workers, MarkApplied(w)
    PROVE  IInv'
<1>1. /\ h' \in [Workers -> Handler] /\ \A v \in Workers \ {w} : h'[v] = h[v]
      /\ h'[w].step = "respond" /\ h'[w].edit = h[w].edit
      /\ h[w].edit \in decided \union misread
  BY GotoFacts DEF MarkApplied, At, IInv, HandlerSteps, HandlerKnows
<1>2. /\ event' \in [Edits -> {"absent", "logged", "applied"}]
      /\ \A e \in Edits : event'[e] = "applied" => event[e] = "applied" \/ e = h[w].edit
      /\ setbacks' \in 0..MaxSetbacks
  BY HandlerFields, EditsAssumption DEF MarkApplied, Setback, IInv, TypeOK
<1>3. TypeOK'
  BY <1>1, <1>2 DEF MarkApplied, history, IInv, TypeOK
<1>4. SyncedMeansDecided' /\ NeverFromTheFuture'
  BY <1>1, <1>2 DEF MarkApplied, history, IInv, SyncedMeansDecided, NeverFromTheFuture
<1>5. HandlerKnows' /\ TimesClamped' /\ ConflictsWithARow'
  BY <1>1 DEF MarkApplied, history, IInv, HandlerKnows, TimesClamped, ConflictsWithARow
<1>. QED  BY <1>3, <1>4, <1>5 DEF IInv

(* The answer acknowledges an edit that has been decided. *)
LEMMA RespondIInv ==
    ASSUME IInv, NEW w \in Workers, Respond(w)
    PROVE  IInv'
<1>1. h[w].edit \in decided \union misread
  BY DEF Respond, At, IInv, HandlerKnows
<1>2. /\ outbox' \in [Edits -> {"PENDING", "SYNCED", "FAILED"}]
      /\ \A e \in Edits : outbox'[e] = "SYNCED" => e \in decided \union misread
      /\ awaited' \in [Devices -> Workers \union {Nobody}]
  BY <1>1, SettleFacts, ReleaseFacts DEF Respond
<1>. QED  BY <1>2, HandlerTypes, FreeIInv DEF Respond, history, IInv, TypeOK

(* A refusal acknowledges nothing. *)
LEMMA RefuseIInv ==
    ASSUME IInv, NEW w \in Workers, Refuse(w)
    PROVE  IInv'
<1>1. /\ outbox' \in [Edits -> {"PENDING", "SYNCED", "FAILED"}]
      /\ \A e \in Edits : outbox'[e] = "SYNCED" => e \in decided \union misread
      /\ awaited' \in [Devices -> Workers \union {Nobody}]
  BY SettleFacts, ReleaseFacts DEF Refuse
<1>2. refused' \subseteq Edits
  BY HandlerFields DEF Refuse, IInv, TypeOK
<1>. QED  BY <1>1, <1>2, HandlerTypes, FreeIInv DEF Refuse, IInv, TypeOK

(* A failed request leaves its edit as it was. *)
LEMMA ServerErrorIInv ==
    ASSUME IInv, NEW w \in Workers, ServerError(w)
    PROVE  IInv'
<1>1. /\ outbox' \in [Edits -> {"PENDING", "SYNCED", "FAILED"}]
      /\ \A e \in Edits : outbox'[e] = "SYNCED" => e \in decided \union misread
      /\ awaited' \in [Devices -> Workers \union {Nobody}]
  BY SettleFacts, ReleaseFacts DEF ServerError, AfterServerError
<1>2. setbacks' \in 0..MaxSetbacks
  BY EditsAssumption DEF ServerError, Setback, IInv, TypeOK
<1>. QED
  BY <1>1, <1>2, HandlerTypes, FreeIInv DEF ServerError, history, IInv, TypeOK

-----------------------------------------------------------------------------
(* What the REST handlers do to their own records. *)
LEMMA CallFields ==
    ASSUME TypeOK, NEW c \in Calls
    PROVE  /\ call[c] \in RestCall /\ call[c].mark \in Mark
           /\ call[c].mark.status \in Statuses /\ call[c].seen \in Mark \union {NoRow}
BY DEF TypeOK, RestCall, Mark

(* A roll call stamps its mark with the server's clock. *)
LEMMA RestReadIInv ==
    ASSUME IInv, NEW c \in Calls, RestRead(c)
    PROVE  IInv'
<1>1. PICK step \in {"log", "upsert", "done"}, seen \in Mark \union {NoRow} :
         /\ call' = [call EXCEPT ![c].step = step, ![c].mark.marked = now, ![c].seen = seen]
         /\ step = "log" => seen \in Mark
  <2>1. CASE call' = [call EXCEPT ![c].step = "upsert", ![c].mark.marked = now]
    <3>1. call[c].seen \in Mark \union {NoRow}
      BY CallFields DEF IInv
    <3>2. call' = [call EXCEPT ![c].step = "upsert", ![c].mark.marked = now,
                               ![c].seen = call[c].seen]
      BY <2>1 DEF IInv, TypeOK, RestCall
    <3>. QED  BY <3>1, <3>2
  <2>2. CASE call' = [call EXCEPT
                ![c].step = IF ~enrolled THEN "done"
                            ELSE IF Conflicting(call[c].mark, stored) THEN "log" ELSE "upsert",
                ![c].mark.marked = now, ![c].seen = stored]
    <3> DEFINE step == IF ~enrolled THEN "done"
                       ELSE IF Conflicting(call[c].mark, stored) THEN "log" ELSE "upsert"
    <3>1. step \in {"log", "upsert", "done"} /\ (step = "log" => stored \in Mark)
      BY DEF Conflicting, IInv, TypeOK
    <3>2. stored \in Mark \union {NoRow}
      BY DEF IInv, TypeOK
    <3>3. call' = [call EXCEPT ![c].step = step, ![c].mark.marked = now, ![c].seen = stored]
      BY <2>2
    <3>. HIDE DEF step
    <3>. QED  BY <3>1, <3>2, <3>3
  <2>. QED  BY <2>1, <2>2 DEF RestRead
<1>2. /\ setbacks' \in 0..MaxSetbacks
      /\ UNCHANGED <<now, enrolled, assigned, stored, conflictLog, event, scrubbed, decided,
                     misread, refused, outbox, awaited, h>>
  BY EditsAssumption DEF RestRead, Setback, history, IInv, TypeOK
<1>3. [call[c].mark EXCEPT !.marked = now] \in Mark /\ now \in Nat
  BY CallFields, EditsAssumption DEF IInv, TypeOK, Mark
<1>4. call'[c] \in RestCall
  BY <1>1, <1>3, CallFields DEF IInv, TypeOK, RestCall
<1>5. /\ call' \in [Calls -> RestCall] /\ \A d \in Calls \ {c} : call'[d] = call[d]
      /\ call'[c].step = step /\ call'[c].mark.marked = now /\ call'[c].seen = seen
  BY <1>1, <1>4, CallFields DEF IInv, TypeOK, RestCall, Mark
<1>6. TypeOK'
  BY <1>2, <1>5 DEF IInv, TypeOK
<1>7. SyncedMeansDecided' /\ NeverFromTheFuture'
  BY <1>2 DEF IInv, SyncedMeansDecided, NeverFromTheFuture
<1>8. HandlerKnows' /\ TimesClamped' /\ ConflictsWithARow'
  BY <1>1, <1>2, <1>3, <1>5 DEF IInv, HandlerKnows, TimesClamped, ConflictsWithARow
<1>. QED  BY <1>6, <1>7, <1>8 DEF IInv

(* It logs the row it saw. *)
LEMMA RestLogIInv ==
    ASSUME IInv, NEW c \in Calls, RestLog(c)
    PROVE  IInv'
<1>1. /\ call' \in [Calls -> RestCall] /\ \A d \in Calls \ {c} : call'[d] = call[d]
      /\ call'[c].step = "upsert" /\ call'[c].mark = call[c].mark
  BY CallFields DEF RestLog, history, IInv, TypeOK, RestCall
<1>2. LogEntry(call[c].mark, call[c].seen, TRUE) \in Entry
  BY CallFields DEF RestLog, history, IInv, ConflictsWithARow, LogEntry, Entry
<1>3. conflictLog' \subseteq Entry /\ setbacks' \in 0..MaxSetbacks
  <2>1. conflictLog \subseteq Entry /\ setbacks \in 0..MaxSetbacks
    BY DEF IInv, TypeOK
  <2> DEFINE entry == LogEntry(call[c].mark, call[c].seen, TRUE)
  <2>2. \/ conflictLog' = conflictLog \union {entry} /\ setbacks' = setbacks
        \/ conflictLog' = conflictLog /\ setbacks < MaxSetbacks /\ setbacks' = setbacks + 1
    BY Zenon DEF RestLog, Setback
  <2>3. entry \in Entry
    BY <1>2
  <2>. HIDE DEF entry
  <2>. QED  BY <2>1, <2>2, <2>3, EditsAssumption
<1>4. TypeOK'
  BY <1>1, <1>3 DEF RestLog, history, IInv, TypeOK
<1>5. SyncedMeansDecided' /\ NeverFromTheFuture'
  BY DEF RestLog, history, IInv, SyncedMeansDecided, NeverFromTheFuture
<1>6. HandlerKnows' /\ TimesClamped' /\ ConflictsWithARow'
  BY <1>1 DEF RestLog, history, IInv, HandlerKnows, TimesClamped, ConflictsWithARow
<1>. QED  BY <1>4, <1>5, <1>6 DEF IInv

(* The time it stores is one the server's clock has shown. *)
LEMMA RestUpsertIInv ==
    ASSUME IInv, NEW c \in Calls, RestUpsert(c)
    PROVE  IInv'
<1>1. [IdleCall(c) EXCEPT !.step = "done"] \in RestCall
  BY EditsAssumption DEF IdleCall, RestCall, Mark, NoRow
<1>2. [IdleCall(c) EXCEPT !.step = "done"].step = "done"
  BY DEF IdleCall
<1>3. /\ call' \in [Calls -> RestCall] /\ \A d \in Calls \ {c} : call'[d] = call[d]
      /\ call'[c].step = "done"
  BY <1>1, <1>2 DEF RestUpsert, history, IInv, TypeOK
<1>4. stored' \in Mark /\ stored'.marked \in Nat /\ stored'.marked <= now
  BY CallFields DEF RestUpsert, history, IInv, TimesClamped, Mark
<1>5. TypeOK'
  BY <1>3, <1>4 DEF RestUpsert, history, IInv, TypeOK
<1>6. SyncedMeansDecided' /\ NeverFromTheFuture'
  BY <1>4, EditsAssumption
  DEF RestUpsert, history, IInv, TypeOK, SyncedMeansDecided, NeverFromTheFuture
<1>7. HandlerKnows' /\ TimesClamped' /\ ConflictsWithARow'
  BY <1>3 DEF RestUpsert, history, IInv, HandlerKnows, TimesClamped, ConflictsWithARow
<1>. QED  BY <1>5, <1>6, <1>7 DEF IInv

(* Leaving the class rewrites nothing. *)
LEMMA LeaveClassIInv ==
    ASSUME IInv, LeaveClass
    PROVE  IInv'
BY DEF LeaveClass, history, IInv, TypeOK, SyncedMeansDecided, NeverFromTheFuture, HandlerKnows,
       TimesClamped, ConflictsWithARow

(* Nor does a change of the classes a teacher has. *)
LEMMA ReassignIInv ==
    ASSUME IInv, NEW d \in Devices, Reassign(d)
    PROVE  IInv'
BY EditsAssumption
DEF Reassign, Setback, history, IInv, TypeOK, SyncedMeansDecided, NeverFromTheFuture,
    HandlerKnows, TimesClamped, ConflictsWithARow

(* An erasure scrubs payloads, and marks nothing applied. *)
LEMMA ScrubEventsIInv ==
    ASSUME IInv, ScrubEvents
    PROVE  IInv'
BY EditsAssumption
DEF ScrubEvents, Setback, history, IInv, TypeOK, SyncedMeansDecided, NeverFromTheFuture,
    HandlerKnows, TimesClamped, ConflictsWithARow

(* The clock only moves away from the times stored. *)
LEMMA TickIInv ==
    ASSUME IInv, Tick
    PROVE  IInv'
<1>1. now' = now + 1 /\ now \in Nat /\ now' \in 0..MaxTime
  BY EditsAssumption DEF Tick, history, IInv, TypeOK
<1>2. TypeOK' /\ SyncedMeansDecided' /\ HandlerKnows' /\ ConflictsWithARow'
  BY <1>1 DEF Tick, history, IInv, TypeOK, SyncedMeansDecided, HandlerKnows, ConflictsWithARow
<1>3. stored # NoRow => stored.marked \in Nat
  BY DEF IInv, TypeOK, Mark
<1>4. NeverFromTheFuture'
  BY <1>1, <1>3, EditsAssumption DEF Tick, history, IInv, NeverFromTheFuture
<1>5. /\ \A w \in Workers : h[w].mark.marked \in Nat
      /\ \A c \in Calls : call[c].mark.marked \in Nat
  BY HandlerFields, CallFields DEF IInv, Mark
<1>6. TimesClamped'
  BY <1>1, <1>5, EditsAssumption DEF Tick, history, IInv, TimesClamped
<1>. QED  BY <1>2, <1>4, <1>6 DEF IInv

(* Every step keeps the invariant. *)
LEMMA NextIInv ==
    ASSUME IInv, [Next]_vars
    PROVE  IInv'
<1>1. ASSUME NEW d \in Devices,
             Push(d) \/ GiveUp(d) \/ BreakUnknown(d) \/ RetryFailed(d) \/ Reassign(d)
      PROVE IInv'
  BY <1>1, PushIInv, GiveUpIInv, BreakUnknownIInv, RetryFailedIInv, ReassignIInv
<1>2. ASSUME NEW w \in Workers, Handle(w) \/ ServerError(w)  PROVE IInv'
  BY <1>2, CheckClassIInv, PrecheckIInv, AppendEventIInv, CheckEnrolmentIInv, ReadRowIInv,
     LogConflictIInv, WriteRowIInv, MarkAppliedIInv, RespondIInv, RefuseIInv, ServerErrorIInv
  DEF Handle
<1>3. ASSUME NEW c \in Calls, RestRead(c) \/ RestLog(c) \/ RestUpsert(c)  PROVE IInv'
  BY <1>3, RestReadIInv, RestLogIInv, RestUpsertIInv
<1>4. CASE UNCHANGED vars
  BY <1>4 DEF vars, history, IInv, TypeOK, SyncedMeansDecided, NeverFromTheFuture, HandlerKnows,
              TimesClamped, ConflictsWithARow
<1>. QED  BY <1>1, <1>2, <1>3, <1>4, LeaveClassIInv, ScrubEventsIInv, TickIInv DEF Next

(* appendSyncEvent acknowledges an edit, or marks its event applied, only  *)
(* when its mark has been written, has lost to the row it met, is that of  *)
(* a student who left, or met a failed look-up of the enrolment; no time   *)
(* it or the REST roll call stores is further ahead of the server than the *)
(* allowed skew.                                                           *)
THEOREM AcknowledgedIsDecided == Spec => []AttendanceInv
<1>1. IInv => AttendanceInv
  BY DEF IInv, AttendanceInv
<1>. QED  BY InitIInv, NextIInv, <1>1, PTL DEF Spec

(* Of the steps only a write sets the time of a row back; a handler whose  *)
(* row is still the one it read writes a later time.                       *)
LEMMA StaleStep ==
    ASSUME IInv, Next, stored # NoRow, stored'.marked < stored.marked
    PROVE  \/ \E w \in Workers : At(w, "write") /\ h'[w].step = "mark" /\ h[w].seen # stored
           \/ \E c \in Calls : call[c].step = "upsert" /\ call'[c].step = "done"
<1>1. stored.marked \in Nat /\ stored' # stored
  BY DEF IInv, TypeOK, Mark
<1>2. CASE \E w \in Workers : WriteRow(w)
  <2>1. PICK w \in Workers : WriteRow(w)
    BY <1>2
  <2>2. /\ At(w, "write") /\ Goto(w, "mark") /\ h[w].seen # NoRow
        /\ stored' = IF ClientWins(h[w].mark, h[w].seen) THEN h[w].mark ELSE stored
    BY <1>1, <2>1 DEF WriteRow
  <2>3. h'[w].step = "mark"
    BY <2>2, GotoFacts DEF IInv, HandlerSteps
  <2>4. h[w].seen # stored
    BY <1>1, <2>2, HandlerFields DEF ClientWins, IInv
  <2>. QED  BY <2>2, <2>3, <2>4
<1>3. CASE \E c \in Calls : RestUpsert(c)
  <2>1. PICK c \in Calls : RestUpsert(c)
    BY <1>3
  <2>2. [IdleCall(c) EXCEPT !.step = "done"].step = "done"
    BY DEF IdleCall
  <2>3. call[c].step = "upsert" /\ call'[c].step = "done"
    BY <2>1, <2>2 DEF RestUpsert, history, IInv, TypeOK
  <2>. QED  BY <2>3
<1>. QED
  BY <1>1, <1>2, <1>3
  DEF Next, Handle, Push, GiveUp, BreakUnknown, RetryFailed, CheckClass, Precheck, AppendEvent,
      CheckEnrolment, ReadRow, LogConflict, MarkApplied, Respond, Refuse, ServerError, RestRead,
      RestLog, LeaveClass, Reassign, ScrubEvents, Tick

(* A newer mark is lost to an older one only through a row that changed    *)
(* between the read and the write of a push, or by a REST upsert.          *)
THEOREM NewerMarkLostOnlyToAStaleRead == Spec => RegressionNeedsStaleRead
<1>1. ASSUME IInv, [Next]_vars
      PROVE  [stored # NoRow /\ stored'.marked < stored.marked =>
                \/ \E w \in Workers : At(w, "write") /\ h'[w].step = "mark" /\ h[w].seen # stored
                \/ \E c \in Calls : call[c].step = "upsert" /\ call'[c].step = "done"]_vars
  BY <1>1, StaleStep
<1>. QED  BY InitIInv, NextIInv, <1>1, PTL DEF Spec, RegressionNeedsStaleRead

-----------------------------------------------------------------------------
(* RollCallCache.                                                          *)

(* The rows, the log and the page; pending rows are the phone's own, and   *)
(* no event comes under the id of one.                                     *)
CacheTyped ==
    /\ rows \in [Ids -> RowSet \union {Nothing}]
    /\ \A i \in Present : rows[i].status = "PENDING" => \E m \in Marks : i = LocalId(m)
    /\ log \in Seq(Event)
    /\ \A k \in 1..Len(log), m \in Marks : log[k].id # LocalId(m)
    /\ pull \in [on : BOOLEAN, page : Seq(Event), done : Nat]

(* The page of a running pull is what follows the cursor in the log. *)
PageFollows ==
    pull.on => /\ cursor + Len(pull.page) <= Len(log)
               /\ \A j \in 1..Len(pull.page) : pull.page[j] = log[cursor + j]

(* What has been applied, stored in the cursor or not. *)
Applied == IF pull.on THEN cursor + pull.done ELSE cursor

(* An applied event has a successor under its id that is at most in the    *)
(* page under way, or its row, or a mark of the phone's own that was not   *)
(* older, or is over the retention.                                        *)
Superseded(k) == \E l \in k+1..Len(log) : l <= cursor + PageSize /\ log[l].id = log[k].id
Holds(i, at) == rows[i] # Nothing /\ rows[i].at >= at
Kept(k) ==
    \/ Superseded(k)
    \/ Holds(log[k].id, log[k].at)
    \/ \E m \in Marks : Holds(LocalId(m), log[k].at)
    \/ Outdated(log[k].at)
AppliedIsKept == \A k \in 1..Applied : Kept(k)

CacheIInv == CacheTypeOK /\ CacheTyped /\ PageFollows /\ AppliedIsKept

-----------------------------------------------------------------------------
(* The ids are told apart by where the row comes from. *)
LEMMA IdFacts ==
    /\ \A m \in Marks : LocalId(m) \in Ids /\ EventId(m) \in Ids
    /\ \A p \in Periods : WebId(p) \in Ids
    /\ \A m, n \in Marks : LocalId(m) # EventId(n) /\ (LocalId(m) = LocalId(n) => m = n)
    /\ \A m \in Marks, p \in Periods : LocalId(m) # WebId(p)
BY DEF Ids, LocalId, EventId, WebId

(* A row is one, and not the absence of one. *)
LEMMA RowFacts ==
    ASSUME NEW at \in Times, NEW status \in {"PENDING", "SYNCED"}
    PROVE  /\ Row(at, status) \in RowSet /\ Row(at, status) # Nothing
           /\ Row(at, status).at = at /\ Row(at, status).status = status
BY NothingAssumption DEF Row, RowSet

(* The events of the log, with their types. *)
LEMMA LogFacts ==
    ASSUME CacheTyped, NEW k \in 1..Len(log)
    PROVE  /\ log[k] \in Event /\ log[k].id \in Ids /\ log[k].at \in Times
           /\ log[k].at \in Nat
<1>1. log \in Seq(Event) /\ k \in 1..Len(log)
  BY DEF CacheTyped
<1>2. log[k] \in Event
  BY <1>1, ElementOfSeq
<1>. QED  BY <1>2, BoundsAssumption DEF Event, Times

(* Bounds on what has been applied. *)
LEMMA AppliedFacts ==
    ASSUME CacheTypeOK, CacheTyped, PageFollows
    PROVE  /\ Len(log) \in Nat /\ cursor \in Nat /\ Applied \in 0..Len(log)
           /\ pull.done \in Nat /\ Len(pull.page) \in Nat /\ clock \in Nat
           /\ cursor <= Applied /\ Applied <= cursor + PageSize
BY BoundsAssumption DEF CacheTypeOK, CacheTyped, PageFollows, Applied, Times

(* An event stays kept when the log only grows, the cursor and the clock   *)
(* only advance, the phone's own rows stay, and so does the event's row,   *)
(* unless it is over the retention.                                        *)
LEMMA KeptStays ==
    ASSUME CacheTypeOK, CacheTyped, NEW k \in 1..Len(log), Kept(k),
           Len(log') \in Nat, Len(log') >= Len(log),
           \A l \in 1..Len(log) : log'[l] = log[l],
           NEW c \in Nat, cursor' = c, c >= cursor, clock' \in Nat, clock' >= clock,
           \A m \in Marks : rows[LocalId(m)] # Nothing => rows'[LocalId(m)] = rows[LocalId(m)],
           LET i == log[k].id
           IN  rows[i] # Nothing =>
                  \/ rows'[i] = rows[i]
                  \/ Retention > 0 /\ rows[i].at + Retention < clock'
    PROVE  Kept(k)'
<1>. DEFINE i == log[k].id
<1>1. /\ log'[k] = log[k] /\ log'[k].id = i /\ i \in Ids /\ log[k].at \in Nat
      /\ Len(log) \in Nat /\ cursor \in Nat /\ clock \in Nat
  BY LogFacts, BoundsAssumption DEF CacheTyped, CacheTypeOK, Times
<1>2. CASE Superseded(k)
  <2>1. PICK l \in k+1..Len(log) : l <= cursor + PageSize /\ log[l].id = i
    BY <1>2 DEF Superseded
  <2>2. l \in 1..Len(log) /\ l \in Nat /\ l <= Len(log') /\ k+1 <= l
    BY <1>1, <2>1
  <2>3. l \in k+1..Len(log')
    BY <1>1, <2>2
  <2>5. l <= cursor' + PageSize
    <3>1. l <= c + PageSize
      BY <1>1, <2>1, <2>2, BoundsAssumption
    <3>. QED  BY <3>1
  <2>4. log'[l].id = log'[k].id
    BY <1>1, <2>1, <2>2
  <2>. QED  BY <2>3, <2>4, <2>5 DEF Superseded, Kept
<1>3. CASE Holds(i, log[k].at)
  <2>1. rows[i] \in RowSet /\ rows[i].at \in Nat /\ rows[i].at >= log[k].at
    BY <1>1, <1>3, BoundsAssumption DEF Holds, CacheTyped, RowSet, Times
  <2>2. CASE rows'[i] = rows[i]
    BY <1>1, <1>3, <2>2 DEF Holds, Kept
  <2>3. CASE Retention > 0 /\ rows[i].at + Retention < clock'
    BY <1>1, <2>1, <2>3, BoundsAssumption DEF Outdated, Kept
  <2>. QED  BY <1>3, <2>2, <2>3 DEF Holds
<1>4. CASE \E m \in Marks : Holds(LocalId(m), log[k].at)
  BY <1>1, <1>4 DEF Holds, Kept
<1>5. CASE Outdated(log[k].at)
  BY <1>1, <1>5, BoundsAssumption DEF Outdated, Kept
<1>. QED  BY <1>2, <1>3, <1>4, <1>5 DEF Kept

(* A step that applies nothing keeps what has been applied. *)
LEMMA CacheFrame ==
    ASSUME CacheIInv, CacheTypeOK', CacheTyped', PageFollows',
           Len(log') >= Len(log), \A l \in 1..Len(log) : log'[l] = log[l],
           cursor' >= cursor, clock' >= clock, Applied' <= Applied,
           \A m \in Marks : rows[LocalId(m)] # Nothing => rows'[LocalId(m)] = rows[LocalId(m)],
           \A i \in Ids \ {LocalId(m) : m \in Marks} : rows[i] # Nothing =>
              \/ rows'[i] = rows[i]
              \/ Retention > 0 /\ rows[i].at + Retention < clock'
    PROVE  CacheIInv'
<1>1. /\ Len(log') \in Nat /\ cursor' \in Nat /\ clock' \in Nat
      /\ Len(log) \in Nat /\ cursor \in Nat /\ clock \in Nat
      /\ Applied \in 0..Len(log) /\ Applied' \in 0..Len(log')
  <2>1. CacheTypeOK' /\ CacheTyped' /\ PageFollows' => (/\ Len(log) \in Nat /\ cursor \in Nat
           /\ clock \in Nat /\ Applied \in 0..Len(log))'
    BY BoundsAssumption DEF CacheTypeOK, CacheTyped, PageFollows, Applied, Times
  <2>. QED  BY <2>1, AppliedFacts DEF CacheIInv
<1>2. ASSUME NEW k \in 1..Applied'
      PROVE  Kept(k)'
  <2>1. k \in 1..Applied /\ k \in 1..Len(log) /\ Kept(k)
    BY <1>1, <1>2 DEF CacheIInv, AppliedIsKept
  <2>2. log[k].id \in Ids \ {LocalId(m) : m \in Marks}
    BY <2>1, LogFacts DEF CacheIInv, CacheTyped
  <2>. QED  BY <1>1, <2>1, <2>2, KeptStays DEF CacheIInv
<1>. QED  BY <1>2 DEF CacheIInv, AppliedIsKept

-----------------------------------------------------------------------------
(* An empty phone and an empty log. *)
LEMMA CacheInitIInv == CacheInit => CacheIInv
<1> SUFFICES ASSUME CacheInit  PROVE CacheIInv
  OBVIOUS
<1>1. Present = {}
  BY DEF CacheInit, Present
<1>2. CacheTypeOK
  BY IdFacts, BoundsAssumption DEF CacheInit, CacheTypeOK, NoPull, Times
<1>3. CacheTyped
  BY <1>1 DEF CacheInit, CacheTyped, NoPull
<1>4. PageFollows /\ AppliedIsKept
  BY DEF CacheInit, PageFollows, AppliedIsKept, Applied, NoPull
<1>. QED  BY <1>2, <1>3, <1>4 DEF CacheIInv

(* A mark of the phone's own, under an id that no event has. *)
LEMMA RecordIInv ==
    ASSUME CacheIInv, NEW m \in Marks, Record(m)
    PROVE  CacheIInv'
<1>1. /\ clock \in Times /\ LocalId(m) \in Ids /\ Row(clock, "PENDING") \in RowSet
      /\ Row(clock, "PENDING") # Nothing /\ Row(clock, "PENDING").status = "PENDING"
  BY IdFacts, RowFacts DEF CacheIInv, CacheTypeOK
<1>2. /\ rows' \in [Ids -> RowSet \union {Nothing}] /\ rows[LocalId(m)] = Nothing
      /\ rows'[LocalId(m)] = Row(clock, "PENDING")
      /\ \A i \in Ids \ {LocalId(m)} : rows'[i] = rows[i]
      /\ UNCHANGED <<log, cursor, pull, clock, kills>> /\ queue' = queue \union {m}
  BY <1>1 DEF Record, CacheIInv, CacheTyped
<1>3. CacheTypeOK'
  BY <1>1, <1>2, IdFacts DEF CacheIInv, CacheTypeOK
<1>4. CacheTyped'
  BY <1>1, <1>2 DEF CacheIInv, CacheTyped, Present
<1>5. PageFollows' /\ Applied' = Applied
  BY <1>2 DEF CacheIInv, PageFollows, Applied
<1>6. /\ \A n \in Marks : rows[LocalId(n)] # Nothing => rows'[LocalId(n)] = rows[LocalId(n)]
      /\ \A i \in Ids : rows[i] # Nothing => rows'[i] = rows[i]
  BY <1>2, IdFacts
<1>7. Len(log) \in Nat /\ cursor \in Nat /\ clock \in Nat /\ Applied \in Nat
  BY AppliedFacts DEF CacheIInv
<1>. QED  BY <1>2, <1>3, <1>4, <1>5, <1>6, <1>7, CacheFrame

(* An event at the end of the log, under an id of its own. *)
LEMMA AppendIInv ==
    ASSUME CacheIInv, NEW id \in Ids, NEW at \in Times,
           \A m \in Marks : id # LocalId(m),
           log' = Append(log, [id |-> id, at |-> at]),
           queue' \subseteq queue, UNCHANGED <<rows, cursor, pull, clock, kills>>
    PROVE  CacheIInv'
<1>. DEFINE ev == [id |-> id, at |-> at]
<1>1. ev \in Event /\ ev.id = id
  BY DEF Event
<1>2. /\ log \in Seq(Event) /\ Len(log) \in Nat /\ cursor \in Nat /\ clock \in Nat
      /\ Applied \in Nat
  BY AppliedFacts DEF CacheIInv, CacheTyped
<1>. HIDE DEF ev
<1>3. /\ log' \in Seq(Event) /\ Len(log') = Len(log) + 1 /\ log'[Len(log) + 1] = ev
      /\ \A l \in 1..Len(log) : log'[l] = log[l]
  BY <1>1, <1>2, AppendProperties DEF ev
<1>4. \A k \in 1..Len(log'), m \in Marks : log'[k].id # LocalId(m)
  <2>1. ASSUME NEW k \in 1..Len(log'), NEW m \in Marks
        PROVE  log'[k].id # LocalId(m)
    <3>1. k \in 1..Len(log) \/ k = Len(log) + 1
      BY <1>2, <1>3
    <3>. QED  BY <1>1, <1>3, <3>1 DEF CacheIInv, CacheTyped
  <2>. QED  BY <2>1
<1>5. CacheTyped'
  BY <1>3, <1>4 DEF CacheIInv, CacheTyped, Present
<1>6. CacheTypeOK'
  <2>1. \A k \in 1..Len(log') : log'[k] \in Event
    BY <1>3, ElementOfSeq
  <2>2. cursor' \in 0..Len(log')
    BY <1>2, <1>3 DEF CacheIInv, CacheTypeOK
  <2>. QED  BY <2>1, <2>2 DEF CacheIInv, CacheTypeOK
<1>7. PageFollows' /\ Applied' = Applied
  <2>1. Len(pull.page) \in Nat
    BY AppliedFacts DEF CacheIInv
  <2>2. pull.on => \A j \in 1..Len(pull.page) : cursor + j \in 1..Len(log)
    BY <1>2, <2>1 DEF CacheIInv, PageFollows
  <2>. QED  BY <1>2, <1>3, <2>1, <2>2 DEF CacheIInv, PageFollows, Applied
<1>. QED  BY <1>2, <1>3, <1>5, <1>6, <1>7, CacheFrame

(* The phone's own mark comes back under an id of its own. *)
LEMMA PushMarkIInv ==
    ASSUME CacheIInv, NEW m \in Marks, PushMark(m)
    PROVE  CacheIInv'
<1>1. rows[LocalId(m)] # Nothing /\ rows[LocalId(m)].at \in Times
  BY IdFacts DEF PushMark, CacheIInv, CacheTypeOK, RowSet
<1>. QED  BY <1>1, IdFacts, AppendIInv DEF PushMark

(* The web's mark is an event of its period. *)
LEMMA WebMarkIInv ==
    ASSUME CacheIInv, NEW p \in Periods, WebMark(p)
    PROVE  CacheIInv'
BY IdFacts, AppendIInv DEF WebMark

(* Time makes no event less outdated. *)
LEMMA ClockTickIInv ==
    ASSUME CacheIInv, ClockTick
    PROVE  CacheIInv'
<1>1. CacheTypeOK' /\ CacheTyped' /\ PageFollows' /\ Applied' = Applied
  BY BoundsAssumption
  DEF ClockTick, CacheIInv, CacheTypeOK, CacheTyped, PageFollows, Applied, Present, Times
<1>2. Len(log) \in Nat /\ cursor \in Nat /\ clock \in Nat /\ Applied \in Nat
  BY AppliedFacts DEF CacheIInv
<1>. QED  BY <1>1, <1>2, CacheFrame DEF ClockTick

-----------------------------------------------------------------------------
(* A page is a beginning of what follows the cursor. *)
LEMMA StartPullIInv ==
    ASSUME CacheIInv, StartPull
    PROVE  CacheIInv'
<1>. DEFINE last == IF cursor + PageSize < Len(log) THEN cursor + PageSize ELSE Len(log)
            page == SubSeq(log, cursor + 1, last)
<1>1. /\ log \in Seq(Event) /\ Len(log) \in Nat /\ cursor \in Nat /\ Applied \in Nat
      /\ clock \in Nat /\ cursor < Len(log)
  BY AppliedFacts DEF StartPull, CacheIInv, CacheTyped
<1>2. last \in cursor+1..Len(log) /\ last <= cursor + PageSize
  BY <1>1, BoundsAssumption
<1>. HIDE DEF last
<1>3. /\ page \in Seq(Event) /\ Len(page) = last - cursor
      /\ \A j \in 1..Len(page) : page[j] = log[cursor + j]
  <2>1. /\ page \in Seq(Event) /\ Len(page) = last - (cursor + 1) + 1
        /\ \A j \in 1..last - (cursor + 1) + 1 : page[j] = log[cursor + 1 + j - 1]
    BY <1>1, <1>2, SubSeqProperties
  <2>2. last - (cursor + 1) + 1 = last - cursor
    BY <1>1, <1>2
  <2>3. \A j \in 1..last - cursor : cursor + 1 + j - 1 = cursor + j
    BY <1>1, <1>2
  <2>. QED  BY <2>1, <2>2, <2>3
<1>4. pull' = [on |-> TRUE, done |-> 0, page |-> page]
  BY DEF StartPull, last
<1>. HIDE DEF page
<1>5. /\ pull' \in [on : BOOLEAN, page : Seq(Event), done : Nat]
      /\ pull'.on /\ pull'.page = page /\ pull'.done = 0
  BY <1>3, <1>4
<1>6. Len(page) \in Nat /\ cursor + Len(page) <= Len(log) /\ Len(page) <= PageSize
  BY <1>1, <1>2, <1>3, BoundsAssumption
<1>7. CacheTypeOK' /\ CacheTyped'
  BY <1>5, <1>6 DEF StartPull, CacheIInv, CacheTypeOK, CacheTyped, Present
<1>8. PageFollows' /\ Applied' <= Applied
  <2>1. UNCHANGED <<log, cursor>> /\ ~pull.on
    BY DEF StartPull
  <2>2. PageFollows'
    BY <1>3, <1>5, <1>6, <2>1 DEF PageFollows
  <2>3. Applied = cursor /\ Applied' = cursor + 0
    BY <1>5, <2>1 DEF Applied
  <2>. QED  BY <1>1, <2>2, <2>3
<1>. QED  BY <1>1, <1>7, <1>8, CacheFrame DEF StartPull

(* The event that comes next is within the log and a page of the cursor. *)
LEMMA NextOfPage ==
    ASSUME NEW c \in Nat, NEW d \in Nat, NEW p \in Nat, NEW l \in Nat, NEW z \in Nat,
           d < p, c + p <= l, p <= z
    PROVE  c + d + 1 \in 1..l /\ c + d + 1 <= c + z
OBVIOUS

(* An event whose id is not one of the phone's own: it is kept, as its row *)
(* or by the pending row that wins over it, and it succeeds those that its *)
(* row takes the place of.                                                 *)
LEMMA ApplyEventIInv ==
    ASSUME CacheIInv, ApplyEvent
    PROVE  CacheIInv'
<1>1. /\ log \in Seq(Event) /\ Len(log) \in Nat /\ cursor \in Nat /\ clock \in Nat
      /\ pull.done \in Nat /\ Len(pull.page) \in Nat /\ Len(pull.page) <= PageSize
      /\ PageSize \in Nat
  BY AppliedFacts, BoundsAssumption DEF CacheIInv, CacheTyped, CacheTypeOK
<1>n. PICK n \in Nat : n = cursor + pull.done + 1
  BY <1>1
<1>e. PICK ev : ev = log[n]
  OBVIOUS
<1>2. /\ pull.on /\ pull.done < Len(pull.page)
      /\ pull' = [pull EXCEPT !.done = @ + 1]
      /\ UNCHANGED <<queue, log, cursor, clock, kills>>
      /\ rows' = IF LocalWins(NextEvent) THEN rows
                 ELSE [rows EXCEPT ![NextEvent.id] = Row(NextEvent.at, "SYNCED")]
  BY DEF ApplyEvent
<1>3. /\ n \in 1..Len(log) /\ n <= cursor + PageSize /\ NextEvent = ev
      /\ Applied = n - 1
  <2>1. pull.done + 1 \in 1..Len(pull.page)
    BY <1>1, <1>2
  <2>2. /\ cursor + Len(pull.page) <= Len(log)
        /\ pull.page[pull.done + 1] = log[cursor + (pull.done + 1)]
    BY <1>2, <2>1 DEF CacheIInv, PageFollows
  <2>3. cursor + (pull.done + 1) = n
    BY <1>1, <1>n
  <2>4. n \in 1..Len(log) /\ n <= cursor + PageSize
    <3>1. pull.done < Len(pull.page) /\ cursor + Len(pull.page) <= Len(log)
      BY <1>2, <2>2
    <3>. QED  BY <1>1, <1>n, <3>1, NextOfPage
  <2>5. NextEvent = ev
    BY <1>e, <2>2, <2>3 DEF NextEvent
  <2>6. Applied = n - 1
    BY <1>1, <1>2, <1>n DEF Applied
  <2>. QED  BY <2>4, <2>5, <2>6
<1>4. /\ ev.id \in Ids /\ ev.at \in Times /\ ev.at \in Nat
      /\ \A m \in Marks : ev.id # LocalId(m)
  BY <1>3, <1>e, LogFacts DEF CacheIInv, CacheTyped
<1>5. /\ Row(ev.at, "SYNCED") \in RowSet /\ Row(ev.at, "SYNCED") # Nothing
      /\ Row(ev.at, "SYNCED").status = "SYNCED" /\ Row(ev.at, "SYNCED").at = ev.at
  BY <1>4, RowFacts
<1>6. /\ pull' \in [on : BOOLEAN, page : Seq(Event), done : Nat] /\ pull'.on
      /\ pull'.page = pull.page /\ pull'.done = pull.done + 1
  BY <1>1, <1>2 DEF CacheIInv, CacheTyped
<1>7. /\ rows' \in [Ids -> RowSet \union {Nothing}]
      /\ \A i \in Ids : rows'[i] = rows[i] \/ (i = ev.id /\ rows'[i] = Row(ev.at, "SYNCED"))
      /\ \A m \in Marks : rows'[LocalId(m)] = rows[LocalId(m)]
  BY <1>2, <1>3, <1>4, <1>5, IdFacts DEF CacheIInv, CacheTyped
<1>8. CacheTypeOK'
  <2>1. pull'.done \in 0..Len(pull'.page)
    BY <1>1, <1>2, <1>6
  <2>2. \A i \in Ids : rows'[i] # Nothing => rows'[i] \in RowSet
    BY <1>7
  <2>3. DOMAIN rows' = Ids
    BY <1>7
  <2>. QED  BY <1>1, <1>2, <1>6, <1>7, <2>1, <2>2, <2>3 DEF CacheIInv, CacheTypeOK
<1>9. CacheTyped'
  BY <1>2, <1>5, <1>6, <1>7 DEF CacheIInv, CacheTyped, Present
<1>10. PageFollows'
  BY <1>2, <1>6 DEF CacheIInv, PageFollows
<1>11. Applied' = n
  BY <1>1, <1>2, <1>6, <1>n DEF Applied
<1>12. Kept(n)'
  <2>1. CASE LocalWins(ev)
    <3>1. PICK i \in Present : rows[i].status = "PENDING" /\ ev.at <= rows[i].at
      BY <2>1 DEF LocalWins
    <3>2. PICK m \in Marks : i = LocalId(m)
      BY <3>1 DEF CacheIInv, CacheTyped
    <3>3. rows[i] # Nothing /\ rows[i] \in RowSet
      BY <3>1, <3>2, IdFacts DEF Present, CacheIInv, CacheTyped
    <3>4. rows[i].at \in Nat /\ rows'[i] = rows[i] /\ log'[n] = ev
      BY <1>2, <1>e, <1>7, <3>2, <3>3, BoundsAssumption DEF RowSet, Times
    <3>5. rows[i].at >= ev.at
      BY <1>4, <3>1, <3>4
    <3>. QED  BY <3>2, <3>3, <3>4, <3>5 DEF Kept, Holds
  <2>2. CASE ~LocalWins(ev)
    <3>1. rows'[ev.id] = Row(ev.at, "SYNCED") /\ log'[n] = ev
      BY <1>2, <1>3, <1>e, <1>4, <2>2 DEF CacheIInv, CacheTyped
    <3>2. rows'[ev.id] # Nothing /\ rows'[ev.id].at >= ev.at
      BY <1>4, <1>5, <3>1
    <3>. QED  BY <3>1, <3>2 DEF Kept, Holds
  <2>. QED  BY <2>1, <2>2
<1>13. ASSUME NEW k \in 1..n - 1
       PROVE  Kept(k)'
  <2>1. k \in 1..Len(log) /\ k \in 1..Applied /\ Kept(k) /\ n \in k+1..Len(log)
    BY <1>1, <1>3, <1>13 DEF CacheIInv, AppliedIsKept
  <2>2. CASE log[k].id = ev.id
    <3>1. log'[k].id = log'[n].id /\ n \in k+1..Len(log') /\ n <= cursor' + PageSize
      BY <1>1, <1>2, <1>3, <1>e, <2>1, <2>2
    <3>. QED  BY <3>1 DEF Superseded, Kept
  <2>3. CASE log[k].id # ev.id
    <3>1. rows'[log[k].id] = rows[log[k].id]
      BY <1>7, <2>1, <2>3, LogFacts DEF CacheIInv
    <3>2. /\ cursor' = cursor /\ cursor >= cursor /\ clock' = clock /\ clock' >= clock
          /\ log' = log /\ Len(log') >= Len(log)
      BY <1>1, <1>2
    <3>. QED  BY <1>1, <1>7, <2>1, <3>1, <3>2, KeptStays DEF CacheIInv
  <2>. QED  BY <2>2, <2>3
<1>14. AppliedIsKept'
  <2>1. ASSUME NEW k \in 1..n
        PROVE  Kept(k)'
    <3>1. k = n \/ k \in 1..n - 1
      BY <1>1, <1>3
    <3>. QED  BY <1>12, <1>13, <3>1
  <2>. QED  BY <1>11, <2>1 DEF AppliedIsKept
<1>. QED  BY <1>8, <1>9, <1>10, <1>14 DEF CacheIInv

(* The pull is over: what it has applied without storing the cursor will   *)
(* be applied again.                                                       *)
LEMMA PullEndsIInv ==
    ASSUME CacheIInv, Throw \/ Kill
    PROVE  CacheIInv'
<1>1. /\ pull' = NoPull /\ UNCHANGED <<rows, queue, log, cursor, clock>>
      /\ kills' \in 0..MaxKills
  BY BoundsAssumption DEF Throw, Kill, CacheIInv, CacheTypeOK
<1>2. ~pull'.on /\ pull'.page = <<>> /\ pull'.done = 0
      /\ pull' \in [on : BOOLEAN, page : Seq(Event), done : Nat]
  BY <1>1 DEF NoPull
<1>3. CacheTypeOK' /\ CacheTyped' /\ PageFollows'
  BY <1>1, <1>2, BoundsAssumption
  DEF CacheIInv, CacheTypeOK, CacheTyped, PageFollows, Present
<1>4. /\ Len(log) \in Nat /\ cursor \in Nat /\ clock \in Nat /\ Applied \in Nat
      /\ cursor <= Applied
  BY AppliedFacts DEF CacheIInv
<1>5. Applied' = cursor
  BY <1>1, <1>2 DEF Applied
<1>. QED  BY <1>1, <1>3, <1>4, <1>5, CacheFrame

(* The cursor moves to what has been applied. *)
LEMMA SaveCursorIInv ==
    ASSUME CacheIInv, SaveCursor
    PROVE  CacheIInv'
<1>1. /\ pull' = NoPull /\ UNCHANGED <<rows, queue, log, clock, kills>>
      /\ pull.on /\ pull.done = Len(pull.page) /\ cursor' = cursor + Len(pull.page)
  BY DEF SaveCursor
<1>2. ~pull'.on /\ pull'.page = <<>> /\ pull'.done = 0
      /\ pull' \in [on : BOOLEAN, page : Seq(Event), done : Nat]
  BY <1>1 DEF NoPull
<1>3. /\ Len(log) \in Nat /\ cursor \in Nat /\ clock \in Nat /\ Applied \in 0..Len(log)
      /\ cursor <= Applied
  BY AppliedFacts DEF CacheIInv
<1>4. cursor' = Applied /\ Applied' = Applied
  BY <1>1, <1>2 DEF Applied
<1>5. CacheTypeOK' /\ CacheTyped' /\ PageFollows'
  BY <1>1, <1>2, <1>3, <1>4, BoundsAssumption
  DEF CacheIInv, CacheTypeOK, CacheTyped, PageFollows, Present
<1>. QED  BY <1>1, <1>3, <1>4, <1>5, CacheFrame

(* Pruning removes what is over the retention, and none of the phone's own *)
(* marks.                                                                  *)
LEMMA PruneIInv ==
    ASSUME CacheIInv, Prune
    PROVE  CacheIInv'
<1>1. /\ rows' = [i \in Ids |->
                    IF i \in Present /\ rows[i].status = "SYNCED" /\ Outdated(rows[i].at)
                    THEN Nothing ELSE rows[i]]
      /\ UNCHANGED <<queue, log, cursor, pull, clock, kills>>
  BY DEF Prune
<1>2. /\ rows' \in [Ids -> RowSet \union {Nothing}]
      /\ \A i \in Ids : rows'[i] = rows[i] \/ (rows'[i] = Nothing /\ Outdated(rows[i].at))
      /\ \A i \in Ids : rows[i] # Nothing /\ rows[i].status = "PENDING" => rows'[i] = rows[i]
  BY <1>1 DEF CacheIInv, CacheTyped
<1>3. \A m \in Marks : rows[LocalId(m)] # Nothing => rows'[LocalId(m)] = rows[LocalId(m)]
  BY <1>2, IdFacts DEF CacheIInv, CacheTypeOK
<1>4. CacheTypeOK'
  <2>1. \A m \in Marks : rows'[LocalId(m)] # Nothing => rows[LocalId(m)] # Nothing
    BY <1>2, IdFacts
  <2>2. DOMAIN rows' = Ids /\ \A i \in Ids : rows'[i] # Nothing => rows'[i] \in RowSet
    BY <1>2
  <2>. QED  BY <1>1, <1>3, <2>1, <2>2 DEF CacheIInv, CacheTypeOK
<1>5. CacheTyped'
  BY <1>1, <1>2 DEF CacheIInv, CacheTyped, Present
<1>6. PageFollows' /\ Applied' = Applied
  BY <1>1 DEF CacheIInv, PageFollows, Applied
<1>7. \A i \in Ids : rows[i] # Nothing =>
         rows'[i] = rows[i] \/ (Retention > 0 /\ rows[i].at + Retention < clock')
  BY <1>1, <1>2 DEF Outdated
<1>8. Len(log) \in Nat /\ cursor \in Nat /\ clock \in Nat /\ Applied \in Nat
  BY AppliedFacts DEF CacheIInv
<1>9. /\ Len(log') >= Len(log) /\ \A l \in 1..Len(log) : log'[l] = log[l]
      /\ cursor' >= cursor /\ clock' >= clock /\ Applied' <= Applied
  BY <1>1, <1>6, <1>8
<1>. QED  BY <1>3, <1>4, <1>5, <1>6, <1>7, <1>9, CacheFrame

(* Every step keeps the invariant. *)
LEMMA CacheNextIInv == CacheIInv /\ [CacheNext]_cacheVars => CacheIInv'
<1> SUFFICES ASSUME CacheIInv, [CacheNext]_cacheVars  PROVE CacheIInv'
  OBVIOUS
<1>1. CASE UNCHANGED cacheVars
  BY <1>1
  DEF cacheVars, CacheIInv, CacheTypeOK, CacheTyped, PageFollows, AppliedIsKept, Applied, Kept,
      Superseded, Holds, Outdated, Present
<1>2. CASE CacheNext
  BY <1>2, RecordIInv, PushMarkIInv, WebMarkIInv, ClockTickIInv, StartPullIInv, ApplyEventIInv,
     PullEndsIInv, SaveCursorIInv, PruneIInv DEF CacheNext, PullStep
<1>. QED  BY <1>1, <1>2

(* The inductive invariant, for every value of the constants. *)
LEMMA SpecCacheIInv == CacheSpec => []CacheIInv
BY CacheInitIInv, CacheNextIInv, PTL DEF CacheSpec

(* Of what a phone has pulled, the last event under each id is shown, or a *)
(* mark of the day that is at least as new, or it is over the retention:   *)
(* whatever marks cross, whichever page a kill interrupts.                 *)
THEOREM PulledMarksAreShown == CacheSpec => []CacheInv
<1>1. CacheIInv => CacheInv
  <2> SUFFICES ASSUME CacheIInv, NEW k \in 1..cursor
               PROVE  \/ Superseded(k)
                      \/ \E i \in Present : rows[i].at >= log[k].at
                      \/ Outdated(log[k].at)
    BY DEF CacheIInv, CacheInv, PulledIsShown, Superseded
  <2>1. k \in 1..Applied /\ k \in 1..Len(log)
    BY AppliedFacts DEF CacheIInv
  <2>2. Kept(k)
    BY <2>1 DEF CacheIInv, AppliedIsKept
  <2>3. \A i \in Ids : Holds(i, log[k].at) => \E j \in Present : rows[j].at >= log[k].at
    BY DEF Holds, Present
  <2>. QED  BY <2>1, <2>2, <2>3, LogFacts, IdFacts DEF Kept, CacheIInv
<1>. QED  BY <1>1, SpecCacheIInv, PTL
=============================================================================
