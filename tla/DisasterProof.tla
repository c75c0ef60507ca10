---------------------------- MODULE DisasterProof ----------------------------
(***************************************************************************)
(* Proofs about DisasterAlerts, for any number of administrators, parents, *)
(* callbacks and events: the mode agrees with the events, a final status   *)
(* that was answered is kept, and a text is counted once.                  *)
(***************************************************************************)
EXTENDS DisasterAlerts, FiniteSetTheorems, SequenceTheorems, TLAPS

(* An event's texts are queued by one administrator, once: until then none *)
(* of them exists.                                                         *)
Queueing(a, e) == admin[a].step = "queue" /\ admin[a].event = e
Queues ==
    /\ \A a \in Admins : admin[a].step = "queue" => admin[a].event \in 1..Len(events)
    /\ \A e \in 1..MaxEvents : \A a, b \in Admins : Queueing(a, e) /\ Queueing(b, e) => a = b
Fresh ==
    \A e \in 1..MaxEvents :
        e > Len(events) \/ (\E a \in Admins : Queueing(a, e))
            => \A p \in Parents : text[e][p].job = "none"

(* Callbacks are about texts that were sent, and one that found no row, or *)
(* would find none now, has come early.                                    *)
On(h, t) == hook[h].step # "idle" /\ CallText(h) = t
Hooked == \A h \in Hooks, t \in Texts : On(h, t) => At(t).job # "none"
SeenNone ==
    \A h \in Hooks, t \in Texts :
        On(h, t) /\ hook[h].step = "apply" /\ "none" \in {hook[h].seen, At(t).row} => t \in slip

(* The counts of a text that nothing crossed, made and to be made: one for *)
(* the final status in its row, one for each that a failed query kept out. *)
Counting(h, t) == hook[h].step = "count" /\ CallText(h) = t
Pending(t) == {h \in Hooks : Counting(h, t)}
Written(t) == IF At(t).row = "FINAL" THEN 1 ELSE 0
Counted(t) == At(t).counted + Cardinality(Pending(t)) <= At(t).missed + Written(t)
CountsOnce == \A t \in Texts : t \in slip \/ Counted(t)

IInv == TypeOK /\ OneActiveEvent /\ Queues /\ Fresh /\ Hooked /\ SeenNone
               /\ AnsweredIsKept /\ CountsOnce

-----------------------------------------------------------------------------
LEMMA Bounds == MaxEvents \in Nat /\ MaxFailures \in Nat /\ Cardinality(Parents) \in Nat
BY BoundsAssumption, FS_CardinalityType

LEMMA FailureFacts == TypeOK /\ (Failure \/ UNCHANGED failures) => failures' \in 0..MaxFailures
BY Bounds DEF Failure, TypeOK

(* The callbacks about to count a text. *)
LEMMA PendingFacts ==
    ASSUME NEW t
    PROVE  IsFiniteSet(Pending(t)) /\ Cardinality(Pending(t)) \in Nat
<1>1. Pending(t) \in SUBSET Hooks
  BY DEF Pending
<1>. QED  BY <1>1, BoundsAssumption, FS_Subset, FS_CardinalityType

LEMMA PendingFactsNext ==
    ASSUME NEW t
    PROVE  IsFiniteSet(Pending(t)') /\ Cardinality(Pending(t)') \in Nat
<1>1. Pending(t)' \in SUBSET Hooks
  BY DEF Pending
<1>. QED  BY <1>1, BoundsAssumption, FS_Subset, FS_CardinalityType

LEMMA PendingShrinks ==
    ASSUME NEW t, \A i \in Hooks : Counting(i, t)' => Counting(i, t)
    PROVE  Cardinality(Pending(t)') <= Cardinality(Pending(t))
<1>1. Pending(t)' \subseteq Pending(t)
  BY DEF Pending
<1>. QED  BY <1>1, PendingFacts, FS_Subset

LEMMA PendingLoses ==
    ASSUME NEW t, NEW h \in Hooks, Counting(h, t),
           \A i \in Hooks : Counting(i, t)' => Counting(i, t) /\ i # h
    PROVE  Cardinality(Pending(t)') <= Cardinality(Pending(t)) - 1
<1>1. Pending(t)' \subseteq Pending(t) \ {h} /\ h \in Pending(t)
  BY DEF Pending
<1>2. /\ IsFiniteSet(Pending(t) \ {h})
      /\ Cardinality(Pending(t) \ {h}) = Cardinality(Pending(t)) - 1
  BY <1>1, PendingFacts, FS_RemoveElement
<1>3. Cardinality(Pending(t)') <= Cardinality(Pending(t) \ {h})
  BY <1>1, <1>2, FS_Subset
<1>. QED  BY <1>2, <1>3

LEMMA PendingGains ==
    ASSUME NEW t, NEW h \in Hooks,
           \A i \in Hooks : Counting(i, t)' => Counting(i, t) \/ i = h
    PROVE  Cardinality(Pending(t)') <= Cardinality(Pending(t)) + 1
<1>1. Pending(t)' \subseteq Pending(t) \union {h}
  BY DEF Pending
<1>2. /\ IsFiniteSet(Pending(t) \union {h})
      /\ Cardinality(Pending(t) \union {h}) \in Nat
      /\ Cardinality(Pending(t) \union {h}) <= Cardinality(Pending(t)) + 1
  <2>1. IsFiniteSet(Pending(t)) /\ Cardinality(Pending(t)) \in Nat
    BY PendingFacts
  <2>2. /\ IsFiniteSet(Pending(t) \union {h})
        /\ \/ Cardinality(Pending(t) \union {h}) = Cardinality(Pending(t))
           \/ Cardinality(Pending(t) \union {h}) = Cardinality(Pending(t)) + 1
    BY <2>1, FS_AddElement
  <2>. QED  BY <2>1, <2>2
<1>3. Cardinality(Pending(t)') <= Cardinality(Pending(t) \union {h})
  BY <1>1, <1>2, FS_Subset
<1>. QED  BY <1>2, <1>3, PendingFacts, PendingFactsNext

LEMMA SeqFacts ==
    ASSUME NEW S, NEW n \in Nat, NEW f \in [1..n -> S]
    PROVE  f \in Seq(S) /\ Len(f) = n
<1>1. f \in Seq(S)
  BY SeqDef
<1>2. DOMAIN f = 1..Len(f) /\ Len(f) \in Nat /\ DOMAIN f = 1..n
  BY <1>1, LenProperties
<1>. QED  BY <1>1, <1>2

LEMMA TextFacts ==
    ASSUME TypeOK, NEW t \in Texts
    PROVE  /\ t[1] \in 1..MaxEvents /\ t[2] \in Parents /\ At(t) \in Text
           /\ t = <<t[1], t[2]>>
BY DEF Texts, TypeOK, At

LEMMA PutFacts ==
    ASSUME TypeOK, NEW t \in Texts, NEW r \in Text, Put(t, r)
    PROVE  /\ text' \in [1..MaxEvents -> [Parents -> Text]]
           /\ \A u \in Texts : At(u)' = IF u = t THEN r ELSE At(u)
<1>1. /\ text \in [1..MaxEvents -> [Parents -> Text]]
      /\ text' = [text EXCEPT ![t[1]] = [text[t[1]] EXCEPT ![t[2]] = r]]
  BY DEF TypeOK, Put
<1>2. t[1] \in 1..MaxEvents /\ t[2] \in Parents /\ t = <<t[1], t[2]>>
  BY TextFacts
<1>3. text[t[1]] \in [Parents -> Text]
  BY <1>1, <1>2
<1>4. [text[t[1]] EXCEPT ![t[2]] = r] \in [Parents -> Text]
  BY <1>2, <1>3
<1>5. text' \in [1..MaxEvents -> [Parents -> Text]]
  BY <1>1, <1>2, <1>4
<1>6. ASSUME NEW u \in Texts PROVE At(u)' = IF u = t THEN r ELSE At(u)
  <2>1. u[1] \in 1..MaxEvents /\ u[2] \in Parents /\ u = <<u[1], u[2]>>
    BY TextFacts
  <2>2. At(u)' = text'[u[1]][u[2]] /\ At(u) = text[u[1]][u[2]]
    BY DEF At
  <2>3. text'[u[1]] = IF u[1] = t[1] THEN [text[t[1]] EXCEPT ![t[2]] = r] ELSE text[u[1]]
    BY <1>1, <2>1
  <2>4. CASE u = t
    BY <1>2, <1>3, <2>2, <2>3, <2>4
  <2>5. CASE u # t
    <3>1. u[1] # t[1] \/ u[2] # t[2]
      BY <1>2, <2>1, <2>5
    <3>. QED  BY <1>2, <1>3, <2>1, <2>2, <2>3, <2>5, <3>1
  <2>. QED  BY <2>4, <2>5
<1>. QED  BY <1>5, <1>6

LEMMA HookFacts ==
    ASSUME TypeOK, NEW h \in Hooks, hook[h].step # "idle"
    PROVE  hook[h] \in Call /\ CallText(h) \in Texts /\ On(h, CallText(h))
<1>1. hook[h] \in Call
  BY DEF TypeOK, NoCall
<1>. QED  BY <1>1 DEF Call, Texts, CallText, On

(* A callback that finds the row as it has read it leaves a final status    *)
(* alone and writes one that it brings, or misses it.                       *)
LEMMA ApplyFacts ==
    ASSUME TypeOK, NEW h \in Hooks, Apply(h)
    PROVE  \E t \in Texts :
             /\ On(h, t) /\ hook[h].step = "apply" /\ hook[h] \in Call
             /\ text' \in [1..MaxEvents -> [Parents -> Text]]
             /\ \A u \in Texts : u # t => At(u)' = At(u)
             /\ At(t)'.job = At(t).job /\ At(t)'.counted = At(t).counted
             /\ At(t)'.row = "none" => At(t).row = "none"
             /\ At(t)'.answered => At(t).answered \/ hook[h].status = "FINAL"
             /\ slip \subseteq slip' /\ slip' \subseteq slip \union {t}
             /\ t \in slip' \/ hook[h].seen \in {"unread", At(t).row}
             /\ At(t)'.missed \in Nat /\ At(t)'.missed >= At(t).missed
             /\ At(t).row # "none" /\ hook[h].seen \in {"unread", At(t).row}
                   /\ "FINAL" \in {hook[h].status, At(t).row}
                   => At(t)'.row = "FINAL" \/ At(t)'.missed = At(t).missed + 1
<1>1. hook[h] \in Call /\ CallText(h) \in Texts /\ On(h, CallText(h)) /\ hook[h].step = "apply"
  BY HookFacts DEF Apply
<1>2. PICK t \in Texts : t = CallText(h)
  BY <1>1
<1>3. /\ slip' = IF hook[h].seen \notin {"unread", At(t).row} THEN slip \union {t} ELSE slip
      /\ At(t) \in Text
  BY <1>2, TextFacts DEF Apply, NoteCrossing, Crossed
<1>4. /\ hook[h].status \in {"SENT", "FINAL"}
      /\ hook[h].seen \in {"none", "QUEUED", "SENT", "FINAL", "unread"}
      /\ At(t).row \in {"none", "QUEUED", "SENT", "FINAL"} /\ At(t).missed \in Nat
      /\ At(t).answered \in BOOLEAN
  BY <1>1, <1>3 DEF Call, Status, Text
<1>. DEFINE late == Rank(hook[h].status) < Rank(hook[h].seen)
            final == hook[h].status = "FINAL"
            w1 == IF late \/ At(t).row = "none" THEN At(t).row ELSE hook[h].status
            m1 == IF hook[h].seen = "unread" /\ ~final /\ At(t).row = "FINAL"
                  THEN At(t).missed + 1 ELSE At(t).missed
            m2 == IF final /\ At(t).row # "FINAL" THEN At(t).missed + 1 ELSE At(t).missed
            r1 == [At(t) EXCEPT !.row = w1, !.answered = @ \/ final, !.missed = m1]
            r2 == [At(t) EXCEPT !.answered = @ \/ final, !.missed = m2]
<1>5. Put(t, r1) \/ Put(t, r2)
  BY <1>2 DEF Apply
<1>6. /\ w1 \in Status /\ m1 \in Nat /\ m2 \in Nat /\ m1 >= At(t).missed /\ m2 >= At(t).missed
      /\ w1 = "none" => At(t).row = "none"
  BY <1>4 DEF Status
<1>7. At(t).row # "none" /\ hook[h].seen \in {"unread", At(t).row}
         /\ "FINAL" \in {hook[h].status, At(t).row}
         => /\ w1 = "FINAL" \/ m1 = At(t).missed + 1
            /\ At(t).row = "FINAL" \/ m2 = At(t).missed + 1
  <2>1. Rank("FINAL") = 3 /\ Rank("SENT") = 2 /\ Rank("QUEUED") = 1 /\ Rank("unread") = 0
    BY DEF Rank
  <2>2. CASE final
    BY <1>4, <2>1, <2>2
  <2>3. CASE ~final /\ At(t).row = "FINAL"
    BY <1>4, <2>1, <2>3
  <2>. QED  BY <1>4, <2>2, <2>3
<1>. HIDE DEF w1, m1, m2, late
<1>8. /\ r1 \in Text /\ r1.job = At(t).job /\ r1.counted = At(t).counted
      /\ r1.row = w1 /\ r1.missed = m1 /\ (r1.answered => At(t).answered \/ final)
  BY <1>3, <1>6 DEF Text
<1>9. /\ r2 \in Text /\ r2.job = At(t).job /\ r2.counted = At(t).counted
      /\ r2.row = At(t).row /\ r2.missed = m2 /\ (r2.answered => At(t).answered \/ final)
  BY <1>3, <1>6 DEF Text
<1>10. PICK r \in Text :
          /\ Put(t, r) /\ r.job = At(t).job /\ r.counted = At(t).counted
          /\ r.answered => At(t).answered \/ final
          /\ (r.row = w1 /\ r.missed = m1) \/ (r.row = At(t).row /\ r.missed = m2)
  BY <1>5, <1>8, <1>9
<1>. HIDE DEF r1, r2
<1>11. /\ text' \in [1..MaxEvents -> [Parents -> Text]]
       /\ \A u \in Texts : At(u)' = IF u = t THEN r ELSE At(u)
  BY <1>10, PutFacts
<1>. QED  BY <1>1, <1>2, <1>3, <1>6, <1>7, <1>10, <1>11

(* A worker's step keeps what the webhook wrote of a text, but for the row, *)
(* which it makes final or writes over with QUEUED.                         *)
LEMMA WorkerFacts ==
    ASSUME TypeOK, NEW t \in Texts, Worker(t) \/ SendFails(t) \/ WorkerDies(t)
    PROVE  /\ UNCHANGED <<Events, admin, hook>> /\ failures' \in 0..MaxFailures
           /\ text' \in [1..MaxEvents -> [Parents -> Text]]
           /\ \A u \in Texts : u # t => At(u)' = At(u)
           /\ At(t).job # "none" /\ At(t)'.job # "none"
           /\ At(t)'.counted = At(t).counted /\ At(t)'.answered = At(t).answered
           /\ At(t)'.missed = At(t).missed /\ (At(t)'.row = "none" => At(t).row = "none")
           /\ At(t)'.row = At(t).row \/ At(t)'.row = "FINAL" \/ At(t).row = "none" \/ t \in slip'
           /\ slip \subseteq slip' /\ slip' \subseteq slip \union {t}
<1>1. At(t) \in Text
  BY TextFacts
<1>2. UNCHANGED <<Events, admin, hook>> /\ slip \subseteq slip' /\ slip' \subseteq slip \union {t}
  BY DEF Worker, Send, SendFails, Record, Complete, WorkerDies, SmsOnly, Failure
<1>3. failures' \in 0..MaxFailures
  BY Bounds DEF Worker, Send, SendFails, Record, Complete, WorkerDies, SmsOnly, Failure, TypeOK
<1>4. \E j \in {"sent", "recorded", "done", "failed"}, w \in Status :
         /\ Put(t, [At(t) EXCEPT !.job = j, !.row = w]) /\ At(t).job # "none"
         /\ w = At(t).row \/ w = "FINAL" \/ At(t).row = "none" \/ t \in slip'
         /\ w = "none" => At(t).row = "none"
  <2>1. CASE Send(t)
    <3>1. [At(t) EXCEPT !.job = "sent"] = [At(t) EXCEPT !.job = "sent", !.row = At(t).row]
      BY <1>1 DEF Text
    <3>. QED  BY <1>1, <2>1, <3>1 DEF Send, Text
  <2>2. CASE SendFails(t)
    BY <1>1, <2>2 DEF SendFails, Status
  <2>3. CASE Record(t)
    BY <1>1, <2>3 DEF Record, Status
  <2>4. CASE Complete(t)
    <3>1. [At(t) EXCEPT !.job = "done"] = [At(t) EXCEPT !.job = "done", !.row = At(t).row]
      BY <1>1 DEF Text
    <3>. QED  BY <1>1, <2>4, <3>1 DEF Complete, Text
  <2>5. CASE WorkerDies(t)
    <3>1. [At(t) EXCEPT !.job = "sent"] = [At(t) EXCEPT !.job = "sent", !.row = At(t).row]
      BY <1>1 DEF Text
    <3>. QED  BY <1>1, <2>5, <3>1 DEF WorkerDies, Text
  <2>. QED  BY <2>1, <2>2, <2>3, <2>4, <2>5 DEF Worker
<1>5. PICK j \in {"sent", "recorded", "done", "failed"}, w \in Status :
         /\ Put(t, [At(t) EXCEPT !.job = j, !.row = w]) /\ At(t).job # "none"
         /\ w = At(t).row \/ w = "FINAL" \/ At(t).row = "none" \/ t \in slip'
         /\ w = "none" => At(t).row = "none"
  BY <1>4
<1>6. [At(t) EXCEPT !.job = j, !.row = w] \in Text
  BY <1>1 DEF Text
<1>7. /\ text' \in [1..MaxEvents -> [Parents -> Text]]
      /\ \A u \in Texts : At(u)' = IF u = t THEN [At(t) EXCEPT !.job = j, !.row = w] ELSE At(u)
  BY <1>5, <1>6, PutFacts
<1>8. At(t)' = [At(t) EXCEPT !.job = j, !.row = w]
  BY <1>7
<1>9. /\ At(t)'.job = j /\ At(t)'.row = w
      /\ At(t)'.counted = At(t).counted /\ At(t)'.answered = At(t).answered
      /\ At(t)'.missed = At(t).missed
  BY <1>1, <1>8 DEF Text
<1>. QED  BY <1>2, <1>3, <1>5, <1>7, <1>9

(* Queueing the texts of an event writes all of them anew. *)
LEMMA QueueFacts ==
    ASSUME TypeOK, NEW a \in Admins, NEW e \in 1..MaxEvents, QueueTexts(a), e = admin[a].event
    PROVE  /\ text' \in [1..MaxEvents -> [Parents -> Text]]
           /\ \A u \in Texts : At(u)' = IF u[1] = e THEN Blank("waiting") ELSE At(u)
<1>1. Blank("waiting") \in Text
  BY DEF Blank, Text, Status
<1>2. /\ text \in [1..MaxEvents -> [Parents -> Text]]
      /\ text' = [text EXCEPT ![e] = [p \in Parents |-> Blank("waiting")]]
  BY DEF TypeOK, QueueTexts
<1>3. text' \in [1..MaxEvents -> [Parents -> Text]]
  BY <1>1, <1>2
<1>4. ASSUME NEW u \in Texts
      PROVE  At(u)' = IF u[1] = e THEN Blank("waiting") ELSE At(u)
  <2>1. u[1] \in 1..MaxEvents /\ u[2] \in Parents
    BY TextFacts
  <2>. QED  BY <1>2, <2>1 DEF At
<1>. QED  BY <1>3, <1>4

(* The count is the only change of a text that the counters see. *)
LEMMA CountFacts ==
    ASSUME TypeOK, NEW h \in Hooks, Count(h)
    PROVE  \E t \in Texts :
             /\ On(h, t) /\ Counting(h, t)
             /\ text' \in [1..MaxEvents -> [Parents -> Text]]
             /\ \A u \in Texts : u # t => At(u)' = At(u)
             /\ At(t)' = [At(t) EXCEPT !.counted = At(t).counted + 1]
<1>1. CallText(h) \in Texts /\ On(h, CallText(h)) /\ hook[h].step = "count"
  BY HookFacts DEF Count
<1>2. PICK t \in Texts : t = CallText(h)
  BY <1>1
<1>3. At(t) \in Text
  BY TextFacts
<1>4. [At(t) EXCEPT !.counted = At(t).counted + 1] \in Text
  BY <1>3 DEF Text
<1>5. Put(t, [At(t) EXCEPT !.counted = At(t).counted + 1])
  BY <1>2 DEF Count
<1>6. /\ text' \in [1..MaxEvents -> [Parents -> Text]]
      /\ \A u \in Texts :
            At(u)' = IF u = t THEN [At(t) EXCEPT !.counted = At(t).counted + 1] ELSE At(u)
  BY <1>4, <1>5, PutFacts
<1>. QED  BY <1>1, <1>2, <1>6 DEF Counting

-----------------------------------------------------------------------------
(* The steps of administrators other than the queueing of texts. *)
Office(a) == \/ Toggle(a) \/ Activate(a) \/ Deactivate(a) \/ QueueTextsFails(a)
             \/ Tell(a) \/ TellFails(a)
WorkerStep(t) == Worker(t) \/ SendFails(t) \/ WorkerDies(t)
HookStep(h) == Lookup(h) \/ Apply(h) \/ Count(h) \/ CallFails(h)

LEMMA Cases ==
    ASSUME [Next]_vars
    PROVE  \/ \E a \in Admins : Office(a) \/ QueueTexts(a)
           \/ \E t \in Texts : WorkerStep(t)
           \/ \E h \in Hooks : HookStep(h)
           \/ UNCHANGED vars
BY DEF Next, Office, WorkerStep, HookStep, Webhook

LEMMA OfficeFacts ==
    ASSUME NEW a \in Admins, Office(a)
    PROVE  UNCHANGED <<text, hook, slip>>
BY DEF Office, Toggle, Activate, Deactivate, QueueTextsFails, Tell, TellFails

LEMMA TypeStep == TypeOK /\ Queues /\ [Next]_vars => TypeOK'
<1> SUFFICES ASSUME TypeOK, Queues, [Next]_vars PROVE TypeOK'
  OBVIOUS
<1> USE Bounds
<1>1. ASSUME NEW a \in Admins, Office(a) PROVE TypeOK'
  <2>1. UNCHANGED <<text, hook, slip>> /\ failures' \in 0..MaxFailures
    BY <1>1, OfficeFacts DEF Office, Toggle, Activate, Deactivate, QueueTextsFails, Tell, TellFails,
       TypeOK, Failure
  <2>2. mode' \in BOOLEAN
    BY <1>1 DEF Office, Toggle, Activate, Deactivate, QueueTextsFails, Tell, TellFails,
       TypeOK, Events
  <2>3. events' \in Seq([active : BOOLEAN, queued : Nat]) /\ Len(events') \in 0..MaxEvents
    <3>1. /\ events \in Seq([active : BOOLEAN, queued : Nat]) /\ Len(events) \in 0..MaxEvents
          /\ events \in [1..Len(events) -> [active : BOOLEAN, queued : Nat]]
      <4>1. events \in Seq([active : BOOLEAN, queued : Nat]) /\ Len(events) <= MaxEvents
        BY DEF TypeOK
      <4>2. /\ events \in [1..Len(events) -> [active : BOOLEAN, queued : Nat]]
            /\ Len(events) \in Nat
        BY <4>1, LenProperties
      <4>. QED  BY <4>1, <4>2
    <3>2. CASE UNCHANGED events
      BY <3>1, <3>2
    <3>3. CASE Activate(a) /\ ~mode
      <4>1. [active |-> TRUE, queued |-> 0] \in [active : BOOLEAN, queued : Nat]
        OBVIOUS
      <4>2. Len(events) < MaxEvents /\ events' = Append(events, [active |-> TRUE, queued |-> 0])
        BY <3>3 DEF Activate
      <4>. QED  BY <3>1, <4>1, <4>2
    <3>4. CASE Tell(a)
      <4>. DEFINE e == admin[a].event
      <4>1. events' = [events EXCEPT ![e] = [events[e] EXCEPT !.queued = Cardinality(Parents)]]
        BY <3>4 DEF Tell
      <4>2. CASE e \in 1..Len(events)
        <5>1. events[e] \in [active : BOOLEAN, queued : Nat]
          BY <3>1, <4>2
        <5>2. [events[e] EXCEPT !.queued = Cardinality(Parents)]
                \in [active : BOOLEAN, queued : Nat]
          BY <5>1
        <5>3. events' \in [1..Len(events) -> [active : BOOLEAN, queued : Nat]]
          BY <3>1, <4>1, <4>2, <5>2
        <5>. QED  BY <3>1, <5>3, SeqFacts
      <4>3. CASE e \notin 1..Len(events)
        <5>1. events' = events
          BY <3>1, <4>1, <4>3
        <5>. QED  BY <3>1, <5>1
      <4>. QED  BY <4>2, <4>3
    <3>5. CASE Deactivate(a) /\ mode
      <4>1. events' = [i \in 1..Len(events) |-> [events[i] EXCEPT !.active = FALSE]]
        BY <3>1, <3>5 DEF Deactivate
      <4>2. \A i \in 1..Len(events) :
               [events[i] EXCEPT !.active = FALSE] \in [active : BOOLEAN, queued : Nat]
        BY <3>1
      <4>3. events' \in [1..Len(events) -> [active : BOOLEAN, queued : Nat]]
        BY <4>1, <4>2
      <4>. QED  BY <3>1, <4>3, SeqFacts
    <3>6. CASE Toggle(a) \/ QueueTextsFails(a) \/ TellFails(a)
      BY <3>2, <3>6 DEF Toggle, QueueTextsFails, TellFails, Events
    <3>7. CASE (Activate(a) /\ mode) \/ (Deactivate(a) /\ ~mode)
      BY <3>2, <3>7 DEF Activate, Deactivate, Events
    <3>. QED  BY <1>1, <3>3, <3>4, <3>5, <3>6, <3>7 DEF Office
  <2>4. admin' \in [Admins -> [step : {"idle", "activate", "deactivate", "queue", "tell"},
                               event : 0..MaxEvents]]
    <3>1. \E step \in {"idle", "activate", "deactivate", "queue", "tell"}, e \in 0..MaxEvents :
             Do(a, step, e)
      BY <1>1, <2>3 DEF Office, Toggle, Activate, Deactivate, QueueTextsFails, Tell, TellFails
    <3>. QED  BY <3>1 DEF Do, TypeOK
  <2>. QED  BY <2>1, <2>2, <2>3, <2>4 DEF TypeOK
<1>2. ASSUME NEW a \in Admins, QueueTexts(a) PROVE TypeOK'
  <2>1. admin[a].event \in 1..MaxEvents
    BY <1>2 DEF QueueTexts, Queues, TypeOK
  <2>2. text' \in [1..MaxEvents -> [Parents -> Text]]
    BY <1>2, <2>1, QueueFacts
  <2>3. admin' \in [Admins -> [step : {"idle", "activate", "deactivate", "queue", "tell"},
                               event : 0..MaxEvents]]
    BY <1>2, <2>1 DEF QueueTexts, TypeOK, Do
  <2>. QED  BY <1>2, <2>2, <2>3 DEF QueueTexts, TypeOK, Events
<1>3. ASSUME NEW t \in Texts, WorkerStep(t) PROVE TypeOK'
  <2>1. /\ UNCHANGED <<Events, admin, hook>> /\ failures' \in 0..MaxFailures
        /\ text' \in [1..MaxEvents -> [Parents -> Text]] /\ slip' \subseteq slip \union {t}
    BY <1>3, WorkerFacts DEF WorkerStep
  <2>. QED  BY <2>1 DEF TypeOK, Events, Texts
<1>4. ASSUME NEW h \in Hooks, Lookup(h) PROVE TypeOK'
  <2>0. PICK t \in Texts, w \in {"SENT", "FINAL"}, read \in BOOLEAN :
           /\ hook' = [hook EXCEPT ![h] = [step |-> "apply", event |-> t[1], parent |-> t[2],
                                           status |-> w,
                                           seen |-> IF read THEN At(t).row ELSE "unread"]]
           /\ slip' = IF At(t).row = "none" THEN slip \union {t} ELSE slip
           /\ IF read THEN UNCHANGED failures ELSE Failure
    BY <1>4 DEF Lookup
  <2>3. PICK seen : seen = IF read THEN At(t).row ELSE "unread"
    OBVIOUS
  <2>4. seen \in Status \union {"unread"}
    BY <2>3, TextFacts DEF Text
  <2>1. /\ hook' = [hook EXCEPT ![h] = [step |-> "apply", event |-> t[1], parent |-> t[2],
                                        status |-> w, seen |-> seen]]
        /\ slip' \subseteq slip \union {t} /\ (Failure \/ UNCHANGED failures)
    BY <2>0, <2>3
  <2>2. [step |-> "apply", event |-> t[1], parent |-> t[2], status |-> w, seen |-> seen] \in Call
    BY <2>4, TextFacts DEF Call, Text
  <2>5. hook' \in [Hooks -> Call \union {NoCall}]
    BY <2>1, <2>2 DEF TypeOK
  <2>. QED  BY <1>4, <2>1, <2>5, FailureFacts DEF Lookup, TypeOK, Events, Texts
<1>5. ASSUME NEW h \in Hooks, Apply(h) PROVE TypeOK'
  <2>1. PICK t \in Texts : /\ text' \in [1..MaxEvents -> [Parents -> Text]] /\ hook[h] \in Call
                           /\ slip' \subseteq slip \union {t}
    BY <1>5, ApplyFacts
  <2>2. hook' = [hook EXCEPT ![h] = [hook[h] EXCEPT !.step = "count"]]
        \/ hook' = [hook EXCEPT ![h] = NoCall]
    BY <1>5 DEF Apply
  <2>3. [hook[h] EXCEPT !.step = "count"] \in Call
    BY <2>1 DEF Call
  <2>4. hook' \in [Hooks -> Call \union {NoCall}]
    BY <2>2, <2>3 DEF TypeOK
  <2>5. (Failure \/ UNCHANGED failures) /\ UNCHANGED <<Events, admin>>
    BY <1>5 DEF Apply
  <2>. QED  BY <2>1, <2>4, <2>5, FailureFacts DEF TypeOK, Events, Texts
<1>6. ASSUME NEW h \in Hooks, Count(h) PROVE TypeOK'
  <2>1. text' \in [1..MaxEvents -> [Parents -> Text]]
    BY <1>6, CountFacts
  <2>. QED  BY <1>6, <2>1 DEF Count, TypeOK, Events
<1>7. ASSUME NEW h \in Hooks, CallFails(h) PROVE TypeOK'
  BY <1>7 DEF CallFails, TypeOK, Events, Failure
<1>8. CASE UNCHANGED vars
  BY <1>8 DEF vars, TypeOK
<1>. QED  BY <1>1, <1>2, <1>3, <1>4, <1>5, <1>6, <1>7, <1>8, Cases DEF HookStep

-----------------------------------------------------------------------------
(* The mode and the events are written together. *)
ModeRight ==
    /\ mode <=> \E i \in DOMAIN events : events[i].active
    /\ \A i, j \in DOMAIN events : events[i].active /\ events[j].active => i = j

LEMMA ModeIsRight == mode \in BOOLEAN => (OneActiveEvent <=> ModeRight)
BY DEF OneActiveEvent, ModeRight

LEMMA ModeIsRightNext == mode' \in BOOLEAN => (OneActiveEvent' <=> ModeRight')
BY DEF OneActiveEvent, ModeRight

LEMMA EventFacts ==
    ASSUME TypeOK
    PROVE  /\ events \in [1..Len(events) -> [active : BOOLEAN, queued : Nat]]
           /\ Len(events) \in Nat /\ DOMAIN events = 1..Len(events) /\ mode \in BOOLEAN
<1>1. events \in Seq([active : BOOLEAN, queued : Nat]) /\ mode \in BOOLEAN
  BY DEF TypeOK
<1>. QED  BY <1>1, LenProperties

LEMMA ModeStep == TypeOK /\ TypeOK' /\ OneActiveEvent /\ [Next]_vars => OneActiveEvent'
<1> SUFFICES ASSUME TypeOK, TypeOK', OneActiveEvent, [Next]_vars PROVE OneActiveEvent'
  OBVIOUS
<1>1. mode \in BOOLEAN /\ mode' \in BOOLEAN /\ ModeRight
  BY ModeIsRight DEF TypeOK
<1>2. /\ events \in [1..Len(events) -> [active : BOOLEAN, queued : Nat]]
      /\ Len(events) \in Nat /\ DOMAIN events = 1..Len(events)
  BY EventFacts
<1>. SUFFICES ModeRight'
  BY <1>1, ModeIsRightNext
<1>3. CASE UNCHANGED Events
  BY <1>1, <1>3 DEF ModeRight, Events
<1>4. ASSUME NEW a \in Admins, Activate(a), ~mode PROVE ModeRight'
  <2>1. mode' = TRUE /\ events' = Append(events, [active |-> TRUE, queued |-> 0])
    BY <1>4 DEF Activate
  <2>2. events \in Seq([active : BOOLEAN, queued : Nat])
    BY DEF TypeOK
  <2>3. /\ DOMAIN events' = 1..(Len(events) + 1) /\ events'[Len(events) + 1].active = TRUE
        /\ \A i \in 1..Len(events) : events'[i] = events[i]
    BY <1>2, <2>1, <2>2
  <2>4. \A i \in 1..Len(events) : ~events[i].active
    BY <1>1, <1>2, <1>4 DEF ModeRight
  <2>5. \A i \in DOMAIN events' : events'[i].active => i = Len(events) + 1
    BY <1>2, <2>3, <2>4
  <2>6. Len(events) + 1 \in DOMAIN events'
    BY <1>2, <2>3
  <2>. QED  BY <2>1, <2>3, <2>5, <2>6 DEF ModeRight
<1>5. ASSUME NEW a \in Admins, Tell(a) PROVE ModeRight'
  <2>1. /\ mode' = mode
        /\ events' = [events EXCEPT ![admin[a].event] =
                        [events[admin[a].event] EXCEPT !.queued = Cardinality(Parents)]]
    BY <1>5 DEF Tell
  <2>2. DOMAIN events' = DOMAIN events
    BY <1>2, <2>1
  <2>3. ASSUME NEW i \in DOMAIN events PROVE events'[i].active = events[i].active
    <3>1. events[i] \in [active : BOOLEAN, queued : Nat]
      BY <1>2
    <3>2. events'[i] = events[i] \/ events'[i] = [events[i] EXCEPT !.queued = Cardinality(Parents)]
      BY <1>2, <2>1
    <3>. QED  BY <3>1, <3>2
  <2>. QED  BY <1>1, <2>1, <2>2, <2>3 DEF ModeRight
<1>6. ASSUME NEW a \in Admins, Deactivate(a), mode PROVE ModeRight'
  <2>1. mode' = FALSE /\ events' = [i \in DOMAIN events |-> [events[i] EXCEPT !.active = FALSE]]
    BY <1>6 DEF Deactivate
  <2>2. ASSUME NEW i \in DOMAIN events' PROVE ~events'[i].active
    <3>1. events[i] \in [active : BOOLEAN, queued : Nat]
      BY <1>2, <2>1
    <3>. QED  BY <2>1, <3>1
  <2>. QED  BY <2>1, <2>2 DEF ModeRight
<1>7. ASSUME NEW a \in Admins, Office(a) PROVE ModeRight'
  <2>1. CASE Toggle(a) \/ QueueTextsFails(a) \/ TellFails(a)
    BY <1>3, <2>1 DEF Toggle, QueueTextsFails, TellFails
  <2>2. CASE (Activate(a) /\ mode) \/ (Deactivate(a) /\ ~mode)
    BY <1>1, <1>3, <2>2 DEF Activate, Deactivate, Events
  <2>. QED  BY <1>4, <1>5, <1>6, <1>7, <2>1, <2>2 DEF Office
<1>8. ASSUME NEW a \in Admins, QueueTexts(a) PROVE UNCHANGED Events
  BY <1>8 DEF QueueTexts
<1>9. ASSUME NEW t \in Texts, WorkerStep(t) PROVE UNCHANGED Events
  BY <1>9, WorkerFacts DEF WorkerStep
<1>10. ASSUME NEW h \in Hooks, HookStep(h) PROVE UNCHANGED Events
  BY <1>10 DEF HookStep, Lookup, Apply, Count, CallFails
<1>11. UNCHANGED vars => UNCHANGED Events
  BY DEF vars, Events
<1>. QED  BY <1>3, <1>7, <1>8, <1>9, <1>10, <1>11, Cases

(* Requests and texts of events. *)
LEMMA QueuesStep == TypeOK /\ Queues /\ Fresh /\ [Next]_vars => Queues' /\ Fresh'
<1> SUFFICES ASSUME TypeOK, Queues, Fresh, [Next]_vars PROVE Queues' /\ Fresh'
  OBVIOUS
<1>1. /\ Len(events) \in Nat
      /\ admin \in [Admins -> [step : {"idle", "activate", "deactivate", "queue", "tell"},
                               event : 0..MaxEvents]]
  BY EventFacts DEF TypeOK
(* Nobody starts to queue texts, no text appears, no event goes. *)
<1>2. ASSUME \A b \in Admins : admin'[b] = admin[b] \/ admin'[b].step # "queue",
             Len(events') = Len(events),
             \A e \in 1..MaxEvents, p \in Parents :
                 text[e][p].job = "none" => text'[e][p].job = "none"
      PROVE  Queues' /\ Fresh'
  BY <1>2 DEF Queues, Fresh, Queueing
<1>3. ASSUME NEW a \in Admins, Activate(a), ~mode PROVE Queues' /\ Fresh'
  <2>1. /\ events' = Append(events, [active |-> TRUE, queued |-> 0]) /\ UNCHANGED text
        /\ Do(a, "queue", Len(events'))
    BY <1>3 DEF Activate
  <2>2. events \in Seq([active : BOOLEAN, queued : Nat])
    BY DEF TypeOK
  <2>3. Len(events') = Len(events) + 1
    BY <2>1, <2>2
  <2>4. /\ admin'[a].step = "queue" /\ admin'[a].event = Len(events) + 1
        /\ \A b \in Admins : b # a => admin'[b] = admin[b]
    BY <1>1, <2>1, <2>3 DEF Do
  <2>5. \A b \in Admins : admin'[b].step = "queue" => admin'[b].event \in 1..Len(events')
    BY <1>1, <2>3, <2>4 DEF Queues
  <2>6. \A b \in Admins : b # a /\ admin'[b].step = "queue" => admin'[b].event # Len(events) + 1
    BY <1>1, <2>4 DEF Queues
  <2>7. Queues'
    BY <2>4, <2>5, <2>6 DEF Queues, Queueing
  <2>8. ASSUME NEW e \in 1..MaxEvents,
               e > Len(events') \/ \E b \in Admins : Queueing(b, e)'
        PROVE  e > Len(events) \/ \E b \in Admins : Queueing(b, e)
    <3>1. CASE e > Len(events')
      BY <1>1, <2>3, <3>1
    <3>2. ASSUME NEW b \in Admins, admin'[b].step = "queue", admin'[b].event = e
          PROVE  e > Len(events) \/ \E c \in Admins : Queueing(c, e)
      BY <1>1, <2>4, <3>2 DEF Queueing
    <3>. QED  BY <2>8, <3>1, <3>2 DEF Queueing
  <2>9. Fresh'
    BY <2>1, <2>8 DEF Fresh
  <2>. QED  BY <2>7, <2>9
<1>4. ASSUME NEW a \in Admins, Office(a), ~(Activate(a) /\ ~mode) PROVE Queues' /\ Fresh'
  <2>1. UNCHANGED text
    BY <1>4, OfficeFacts
  <2>2. \E step \in {"idle", "activate", "deactivate", "tell"}, e \in 0..MaxEvents : Do(a, step, e)
    BY <1>4, Bounds DEF Office, Toggle, Activate, Deactivate, QueueTextsFails, Tell, TellFails
  <2>3. \A b \in Admins : admin'[b] = admin[b] \/ admin'[b].step # "queue"
    BY <1>1, <2>2 DEF Do
  <2>4. Len(events') = Len(events)
    <3>1. events \in [1..Len(events) -> [active : BOOLEAN, queued : Nat]]
          /\ DOMAIN events = 1..Len(events) /\ mode \in BOOLEAN
      BY EventFacts
    <3>2. CASE UNCHANGED events
      BY <3>2
    <3>3. CASE Deactivate(a) /\ mode
      <4>1. events' = [i \in 1..Len(events) |-> [events[i] EXCEPT !.active = FALSE]]
        BY <3>1, <3>3 DEF Deactivate
      <4>. HIDE <1>4
      <4>. DEFINE S == {events'[i] : i \in 1..Len(events)}
      <4>2. events' \in [1..Len(events) -> S]
        BY <4>1
      <4>. QED  BY <1>1, <4>2, SeqFacts
    <3>4. CASE Tell(a)
      <4>1. events' = [events EXCEPT ![admin[a].event] =
                        [events[admin[a].event] EXCEPT !.queued = Cardinality(Parents)]]
        BY <3>4 DEF Tell
      <4>. DEFINE S == {events'[i] : i \in 1..Len(events)}
      <4>2. events' \in [1..Len(events) -> S]
        BY <3>1, <4>1
      <4>. QED  BY <1>1, <4>2, SeqFacts
    <3>5. CASE Toggle(a) \/ QueueTextsFails(a) \/ TellFails(a)
      BY <3>2, <3>5 DEF Toggle, QueueTextsFails, TellFails, Events
    <3>6. CASE (Activate(a) /\ mode) \/ (Deactivate(a) /\ ~mode)
      BY <3>2, <3>6 DEF Activate, Deactivate, Events
    <3>. QED  BY <1>4, <3>3, <3>4, <3>5, <3>6 DEF Office
  <2>. QED  BY <1>2, <2>1, <2>3, <2>4
(* The texts of the event are no longer new, and nobody else queues them. *)
<1>5. ASSUME NEW a \in Admins, QueueTexts(a) PROVE Queues' /\ Fresh'
  <2>1. /\ admin[a].step = "queue" /\ Do(a, "tell", admin[a].event) /\ UNCHANGED events
        /\ admin[a].event \in 1..Len(events) /\ admin[a].event \in 1..MaxEvents
    BY <1>5 DEF QueueTexts, Queues, Events, TypeOK
  <2>2. admin'[a].step = "tell" /\ \A b \in Admins : b # a => admin'[b] = admin[b]
    BY <1>1, <2>1 DEF Do
  <2>3. Queues'
    BY <2>1, <2>2 DEF Queues, Queueing
  <2>4. ASSUME NEW e \in 1..MaxEvents,
               e > Len(events') \/ \E b \in Admins : Queueing(b, e)'
        PROVE  /\ e > Len(events) \/ \E b \in Admins : Queueing(b, e)
               /\ e # admin[a].event
    BY <1>1, <2>1, <2>2, <2>4 DEF Queueing, Queues
  <2>5. \A e \in 1..MaxEvents : e # admin[a].event => text'[e] = text[e]
    BY <1>5 DEF QueueTexts, TypeOK
  <2>6. Fresh'
    BY <2>4, <2>5 DEF Fresh
  <2>. QED  BY <2>3, <2>6
<1>6. ASSUME NEW t \in Texts, WorkerStep(t) PROVE Queues' /\ Fresh'
  <2>1. /\ UNCHANGED <<Events, admin>> /\ At(t).job # "none"
        /\ \A u \in Texts : u # t => At(u)' = At(u)
    BY <1>6, WorkerFacts DEF WorkerStep
  <2>2. \A u \in Texts : At(u).job = "none" => At(u)'.job = "none"
    BY <2>1
  <2>3. ASSUME NEW e \in 1..MaxEvents, NEW p \in Parents, text[e][p].job = "none"
        PROVE  text'[e][p].job = "none"
    <3>1. <<e, p>> \in Texts /\ At(<<e, p>>) = text[e][p] /\ At(<<e, p>>)' = text'[e][p]
      BY DEF Texts, At
    <3>. QED  BY <2>2, <2>3, <3>1
  <2>. QED  BY <1>2, <2>1, <2>3 DEF Events
<1>7. ASSUME NEW h \in Hooks, HookStep(h) PROVE Queues' /\ Fresh'
  <2>1. UNCHANGED <<Events, admin>>
    BY <1>7 DEF HookStep, Lookup, Apply, Count, CallFails
  <2>2. ASSUME NEW u \in Texts, At(u).job = "none" PROVE At(u)'.job = "none"
    <3>1. CASE UNCHANGED text
      BY <2>2, <3>1 DEF At
    <3>2. CASE Apply(h)
      <4>1. At(u) \in Text
        BY TextFacts
      <4>. QED  BY <2>2, <3>2, <4>1, ApplyFacts DEF Text
    <3>3. CASE Count(h)
      <4>1. At(u) \in Text
        BY TextFacts
      <4>. QED  BY <2>2, <3>3, <4>1, CountFacts DEF Text
    <3>. QED  BY <1>7, <3>1, <3>2, <3>3 DEF HookStep, Lookup, CallFails
  <2>3. ASSUME NEW e \in 1..MaxEvents, NEW p \in Parents, text[e][p].job = "none"
        PROVE  text'[e][p].job = "none"
    <3>1. <<e, p>> \in Texts /\ At(<<e, p>>) = text[e][p] /\ At(<<e, p>>)' = text'[e][p]
      BY DEF Texts, At
    <3>. QED  BY <2>2, <2>3, <3>1
  <2>. QED  BY <1>2, <2>1, <2>3 DEF Events
<1>8. CASE UNCHANGED vars
  BY <1>2, <1>8 DEF vars
<1>9. \A a \in Admins : Office(a) => Queues' /\ Fresh'
  BY <1>3, <1>4
<1>. QED  BY <1>5, <1>6, <1>7, <1>8, <1>9, Cases

-----------------------------------------------------------------------------
(* Callbacks and their texts. *)
LEMMA NewTexts ==
    ASSUME TypeOK, Queues, NEW a \in Admins, QueueTexts(a)
    PROVE  \A u \in Texts : At(u)' = At(u) \/ (At(u)' = Blank("waiting") /\ u[1] = admin[a].event)
<1>1. admin[a].event \in 1..MaxEvents
  BY DEF QueueTexts, Queues, TypeOK
<1>. QED  BY <1>1, QueueFacts

LEMMA LookupFacts ==
    ASSUME TypeOK, NEW h \in Hooks, Lookup(h)
    PROVE  \E t \in Texts :
             /\ At(t).job # "none" /\ UNCHANGED text
             /\ hook'[h].step = "apply" /\ hook'[h].event = t[1] /\ hook'[h].parent = t[2]
             /\ hook'[h].seen \in {At(t).row, "unread"}
             /\ \A i \in Hooks : i # h => hook'[i] = hook[i]
             /\ slip' = IF At(t).row = "none" THEN slip \union {t} ELSE slip
<1>0. PICK t \in Texts, w \in {"SENT", "FINAL"}, read \in BOOLEAN :
         /\ At(t).job \in {"sent", "recorded", "done"}
         /\ hook' = [hook EXCEPT ![h] = [step |-> "apply", event |-> t[1], parent |-> t[2],
                                         status |-> w,
                                         seen |-> IF read THEN At(t).row ELSE "unread"]]
         /\ slip' = IF At(t).row = "none" THEN slip \union {t} ELSE slip
  BY DEF Lookup
<1>5. PICK seen : seen = IF read THEN At(t).row ELSE "unread"
  OBVIOUS
<1>1. /\ seen \in {At(t).row, "unread"}
      /\ At(t).job \in {"sent", "recorded", "done"}
      /\ hook' = [hook EXCEPT ![h] = [step |-> "apply", event |-> t[1], parent |-> t[2],
                                      status |-> w, seen |-> seen]]
      /\ slip' = IF At(t).row = "none" THEN slip \union {t} ELSE slip
  BY <1>0, <1>5
<1>2. /\ hook'[h] = [step |-> "apply", event |-> t[1], parent |-> t[2],
                     status |-> w, seen |-> seen]
      /\ \A i \in Hooks : i # h => hook'[i] = hook[i]
  BY <1>1 DEF TypeOK
<1>3. /\ hook'[h].step = "apply" /\ hook'[h].event = t[1] /\ hook'[h].parent = t[2]
      /\ hook'[h].seen = seen
  BY <1>2
<1>4. UNCHANGED text /\ At(t).job # "none"
  BY <1>1 DEF Lookup
<1>. QED  BY <1>1, <1>2, <1>3, <1>4

LEMMA HookMoves ==
    ASSUME TypeOK, NEW h \in Hooks, Apply(h) \/ Count(h) \/ CallFails(h)
    PROVE  \A i \in Hooks :
             \/ hook'[i] = hook[i] /\ i # h
             \/ i = h /\ hook'[i].step = "idle"
             \/ /\ i = h /\ Apply(h) /\ hook[h].status = "FINAL"
                /\ hook[h].seen \in {"QUEUED", "SENT"}
                /\ hook'[h].step = "count" /\ CallText(h)' = CallText(h)
<1>1. NoCall.step = "idle" /\ hook \in [Hooks -> Call \union {NoCall}]
  BY DEF NoCall, TypeOK
<1>2. CASE Apply(h)
  <2>1. hook[h] \in Call
    BY <1>2, HookFacts DEF Apply
  <2>2. \/ hook' = [hook EXCEPT ![h] = NoCall]
        \/ /\ hook' = [hook EXCEPT ![h] = [hook[h] EXCEPT !.step = "count"]]
           /\ hook[h].status = "FINAL" /\ hook[h].seen \in {"QUEUED", "SENT"}
    BY <1>2 DEF Apply
  <2>3. /\ [hook[h] EXCEPT !.step = "count"].step = "count"
        /\ [hook[h] EXCEPT !.step = "count"].event = hook[h].event
        /\ [hook[h] EXCEPT !.step = "count"].parent = hook[h].parent
    BY <2>1 DEF Call
  <2>. QED  BY <1>1, <1>2, <2>2, <2>3 DEF CallText
<1>3. CASE Count(h) \/ CallFails(h)
  BY <1>1, <1>3 DEF Count, CallFails
<1>. QED  BY <1>2, <1>3

LEMMA SlipGrows == TypeOK /\ [Next]_vars => slip \subseteq slip'
<1> SUFFICES ASSUME TypeOK, [Next]_vars PROVE slip \subseteq slip'
  OBVIOUS
<1>1. ASSUME NEW a \in Admins, Office(a) \/ QueueTexts(a) PROVE slip \subseteq slip'
  BY <1>1, OfficeFacts DEF QueueTexts
<1>2. ASSUME NEW t \in Texts, WorkerStep(t) PROVE slip \subseteq slip'
  BY <1>2, WorkerFacts DEF WorkerStep
<1>3. ASSUME NEW h \in Hooks, HookStep(h) PROVE slip \subseteq slip'
  BY <1>3 DEF HookStep, Lookup, Apply, NoteCrossing, Count, CallFails
<1>. QED  BY <1>1, <1>2, <1>3, Cases DEF vars

LEMMA HookedStep ==
    TypeOK /\ Queues /\ Fresh /\ Hooked /\ SeenNone /\ [Next]_vars => Hooked' /\ SeenNone'
<1> SUFFICES ASSUME TypeOK, Queues, Fresh, Hooked, SeenNone, [Next]_vars
             PROVE  Hooked' /\ SeenNone'
  OBVIOUS
<1>0. slip \subseteq slip'
  BY SlipGrows
(* No callback begins, and a text stays where it is. *)
<1>1. ASSUME \A i \in Hooks : \/ hook'[i] = hook[i] \/ hook'[i].step = "idle"
                             \/ /\ hook[i].step = "apply" /\ hook'[i].step = "count"
                                /\ CallText(i)' = CallText(i),
             \A u \in Texts : At(u)'.job = "none" => At(u).job = "none",
             \A u \in Texts : At(u)'.row = "none" => "none" \in {At(u).row, At(u).job}
      PROVE  Hooked' /\ SeenNone'
  <2>1. ASSUME NEW i \in Hooks, NEW u \in Texts, On(i, u)'
        PROVE  On(i, u) /\ (hook'[i].step = "apply" => hook'[i] = hook[i])
    BY <1>1, <2>1 DEF On, CallText
  <2>2. Hooked'
    BY <1>1, <2>1 DEF Hooked
  <2>3. SeenNone'
    BY <1>0, <1>1, <2>1 DEF SeenNone, Hooked
  <2>. QED  BY <2>2, <2>3
<1>2. ASSUME NEW a \in Admins, Office(a) PROVE Hooked' /\ SeenNone'
  <2>1. UNCHANGED <<hook, text>>
    BY <1>2, OfficeFacts
  <2>. QED  BY <1>1, <2>1 DEF At
<1>3. ASSUME NEW a \in Admins, QueueTexts(a) PROVE Hooked' /\ SeenNone'
  <2>1. UNCHANGED hook /\ Blank("waiting").job = "waiting"
    BY <1>3 DEF QueueTexts, Blank
  <2>2. \A u \in Texts : At(u)'.job = "none" => At(u).job = "none"
    BY <1>3, <2>1, NewTexts
  <2>3. ASSUME NEW u \in Texts, At(u)'.row = "none" PROVE "none" \in {At(u).row, At(u).job}
    <3>1. CASE At(u)' = At(u)
      BY <2>3, <3>1
    <3>2. CASE u[1] = admin[a].event
      BY <1>3, <3>2, TextFacts DEF Fresh, Queueing, At, QueueTexts
    <3>. QED  BY <1>3, <3>1, <3>2, NewTexts
  <2>. QED  BY <1>1, <2>1, <2>2, <2>3
<1>4. ASSUME NEW t \in Texts, WorkerStep(t) PROVE Hooked' /\ SeenNone'
  <2>1. /\ UNCHANGED hook /\ At(t)'.job # "none" /\ \A u \in Texts : u # t => At(u)' = At(u)
        /\ At(t)'.row = "none" => At(t).row = "none"
    BY <1>4, WorkerFacts DEF WorkerStep
  <2>2. \A u \in Texts : At(u)'.job = "none" => At(u).job = "none"
    BY <2>1
  <2>3. \A u \in Texts : At(u)'.row = "none" => At(u).row = "none"
    BY <2>1
  <2>. QED  BY <1>1, <2>1, <2>2, <2>3
<1>5. ASSUME NEW h \in Hooks, Lookup(h) PROVE Hooked' /\ SeenNone'
  <2>1. PICK t \in Texts :
             /\ At(t).job # "none" /\ UNCHANGED text
             /\ hook'[h].step = "apply" /\ hook'[h].event = t[1] /\ hook'[h].parent = t[2]
             /\ hook'[h].seen \in {At(t).row, "unread"}
             /\ \A i \in Hooks : i # h => hook'[i] = hook[i]
             /\ slip' = IF At(t).row = "none" THEN slip \union {t} ELSE slip
    BY <1>5, LookupFacts
  <2>2. \A u \in Texts : At(u)' = At(u) /\ (On(h, u)' => u = t)
    BY <2>1, TextFacts DEF At, On, CallText
  <2>3. \A i \in Hooks, u \in Texts : i # h => (On(i, u)' <=> On(i, u))
    BY <2>1 DEF On, CallText
  <2>4. Hooked'
    BY <2>1, <2>2, <2>3 DEF Hooked
  <2>5. ASSUME NEW i \in Hooks, NEW u \in Texts,
               On(i, u)', hook'[i].step = "apply", "none" \in {hook'[i].seen, At(u)'.row}
        PROVE  u \in slip'
    <3>1. CASE i = h
      BY <2>1, <2>2, <2>5, <3>1
    <3>2. CASE i # h
      BY <1>0, <2>1, <2>2, <2>3, <2>5, <3>2 DEF SeenNone
    <3>. QED  BY <3>1, <3>2
  <2>6. SeenNone'
    BY <2>5 DEF SeenNone
  <2>. QED  BY <2>4, <2>6
<1>6. ASSUME NEW h \in Hooks, Apply(h) \/ Count(h) \/ CallFails(h) PROVE Hooked' /\ SeenNone'
  <2>1. \A u \in Texts : At(u)'.job = At(u).job /\ (At(u)'.row = "none" => At(u).row = "none")
    <3>1. CASE Apply(h)
      BY <3>1, ApplyFacts
    <3>2. CASE Count(h)
      <4>1. PICK t \in Texts : /\ \A u \in Texts : u # t => At(u)' = At(u)
                               /\ At(t)' = [At(t) EXCEPT !.counted = At(t).counted + 1]
        BY <3>2, CountFacts
      <4>2. At(t) \in Text
        BY TextFacts
      <4>3. At(t)'.job = At(t).job /\ At(t)'.row = At(t).row
        BY <4>1, <4>2 DEF Text
      <4>. QED  BY <4>1, <4>3
    <3>3. CASE CallFails(h)
      BY <3>3 DEF CallFails, At
    <3>. QED  BY <1>6, <3>1, <3>2, <3>3
  <2>2. Apply(h) => hook[h].step = "apply"
    BY DEF Apply
  <2>. QED  BY <1>1, <1>6, <2>1, <2>2, HookMoves
<1>7. CASE UNCHANGED vars
  BY <1>1, <1>7 DEF vars, At
<1>. QED  BY <1>2, <1>3, <1>4, <1>5, <1>6, <1>7, Cases DEF HookStep

(* What has been answered. *)
LEMMA KeptStep ==
    TypeOK /\ Queues /\ SeenNone /\ AnsweredIsKept /\ [Next]_vars => AnsweredIsKept'
<1> SUFFICES ASSUME TypeOK, Queues, SeenNone, AnsweredIsKept, [Next]_vars,
                    NEW u \in Texts, At(u)'.answered, u \notin slip', At(u)'.missed = 0
             PROVE  At(u)'.row = "FINAL"
  BY DEF AnsweredIsKept
<1>0. /\ u \notin slip /\ At(u).missed \in Nat
      /\ At(u).answered /\ At(u).missed = 0 => At(u).row = "FINAL"
  BY SlipGrows, TextFacts DEF AnsweredIsKept, Text
<1>1. CASE At(u)' = At(u)
  BY <1>0, <1>1
<1>2. ASSUME NEW a \in Admins, QueueTexts(a) PROVE At(u)'.row = "FINAL"
  <2>1. Blank("waiting").answered = FALSE
    BY DEF Blank
  <2>. QED  BY <1>1, <1>2, <2>1, NewTexts
<1>3. ASSUME NEW t \in Texts, WorkerStep(t) PROVE At(u)'.row = "FINAL"
  BY <1>0, <1>1, <1>3, WorkerFacts DEF WorkerStep
<1>4. ASSUME NEW h \in Hooks, Apply(h) PROVE At(u)'.row = "FINAL"
  <2>1. PICK t \in Texts :
             /\ On(h, t) /\ hook[h].step = "apply" /\ \A w \in Texts : w # t => At(w)' = At(w)
             /\ At(t)'.answered => At(t).answered \/ hook[h].status = "FINAL"
             /\ t \in slip' \/ hook[h].seen \in {"unread", At(t).row}
             /\ At(t)'.missed >= At(t).missed
             /\ At(t).row # "none" /\ hook[h].seen \in {"unread", At(t).row}
                   /\ "FINAL" \in {hook[h].status, At(t).row}
                   => At(t)'.row = "FINAL" \/ At(t)'.missed = At(t).missed + 1
    BY <1>4, ApplyFacts
  <2>2. CASE t # u
    BY <1>1, <2>1, <2>2
  <2>3. CASE t = u
    <3>1. At(u).row # "none" /\ hook[h].seen \in {"unread", At(u).row}
      BY <1>0, <2>1, <2>3 DEF SeenNone
    <3>2. At(u).missed = 0 /\ "FINAL" \in {hook[h].status, At(u).row}
      BY <1>0, <2>1, <2>3
    <3>. QED  BY <2>1, <2>3, <3>1, <3>2
  <2>. QED  BY <2>2, <2>3
<1>5. ASSUME NEW h \in Hooks, Count(h) PROVE At(u)'.row = "FINAL"
  <2>1. PICK t \in Texts : /\ \A w \in Texts : w # t => At(w)' = At(w)
                           /\ At(t)' = [At(t) EXCEPT !.counted = At(t).counted + 1]
    BY <1>5, CountFacts
  <2>2. At(t) \in Text
    BY TextFacts
  <2>3. /\ At(t)'.row = At(t).row /\ At(t)'.answered = At(t).answered
        /\ At(t)'.missed = At(t).missed
    BY <2>1, <2>2 DEF Text
  <2>. QED  BY <1>0, <1>1, <2>1, <2>3
<1>6. ASSUME UNCHANGED text PROVE At(u)'.row = "FINAL"
  BY <1>1, <1>6 DEF At
<1>7. ASSUME NEW a \in Admins, Office(a) PROVE UNCHANGED text
  BY <1>7, OfficeFacts
<1>8. ASSUME NEW h \in Hooks, Lookup(h) \/ CallFails(h) PROVE UNCHANGED text
  BY <1>8 DEF Lookup, CallFails
<1>9. UNCHANGED vars => UNCHANGED text
  BY DEF vars
<1>. QED  BY <1>2, <1>3, <1>4, <1>5, <1>6, <1>7, <1>8, <1>9, Cases DEF HookStep

(* What has been counted. *)
LEMMA CountsStep ==
    ASSUME TypeOK, Queues, Fresh, Hooked, SeenNone, CountsOnce, [Next]_vars
    PROVE  CountsOnce'
<1> SUFFICES ASSUME NEW u \in Texts, u \notin slip' PROVE Counted(u)'
  BY DEF CountsOnce
<1>0. /\ u \notin slip /\ Counted(u) /\ At(u).counted \in Nat /\ At(u).missed \in Nat
      /\ Cardinality(Pending(u)) \in Nat /\ Cardinality(Pending(u)') \in Nat
  BY SlipGrows, TextFacts, PendingFacts, PendingFactsNext DEF CountsOnce, Text
<1>1. ASSUME At(u)'.counted = At(u).counted, At(u)'.missed = At(u).missed,
             At(u).row = "FINAL" => At(u)'.row = "FINAL",
             \A i \in Hooks : Counting(i, u)' => Counting(i, u)
      PROVE  Counted(u)'
  <2>1. Cardinality(Pending(u)') <= Cardinality(Pending(u))
    BY <1>1, PendingShrinks
  <2>. QED  BY <1>0, <1>1, <2>1 DEF Counted, Written
<1>2. ASSUME UNCHANGED hook PROVE \A i \in Hooks : Counting(i, u)' => Counting(i, u)
  BY <1>2 DEF Counting, CallText
<1>3. ASSUME NEW a \in Admins, Office(a) PROVE Counted(u)'
  <2>1. UNCHANGED <<text, hook>>
    BY <1>3, OfficeFacts
  <2>. QED  BY <1>1, <1>2, <2>1 DEF At
<1>4. ASSUME NEW a \in Admins, QueueTexts(a) PROVE Counted(u)'
  <2>1. UNCHANGED hook
    BY <1>4 DEF QueueTexts
  <2>2. CASE At(u)' = At(u)
    BY <1>1, <1>2, <2>1, <2>2
  <2>3. CASE At(u)' = Blank("waiting") /\ u[1] = admin[a].event
    <3>1. At(u)'.counted = 0 /\ At(u)'.missed = 0
      BY <2>3 DEF Blank
    <3>2. At(u).job = "none"
      BY <1>4, <2>3, TextFacts DEF Fresh, Queueing, At, QueueTexts
    <3>3. \A i \in Hooks : ~Counting(i, u)
      BY <3>2 DEF Hooked, On, Counting
    <3>4. \A i \in Hooks : ~Counting(i, u)'
      BY <1>2, <2>1, <3>3
    <3>5. Pending(u)' = {}
      BY <3>4 DEF Pending
    <3>. QED  BY <3>1, <3>5, FS_EmptySet DEF Counted, Written
  <2>. QED  BY <1>4, <2>2, <2>3, NewTexts
<1>5. ASSUME NEW t \in Texts, WorkerStep(t) PROVE Counted(u)'
  <2>1. /\ UNCHANGED hook
        /\ t # u => At(u)' = At(u)
        /\ At(t)'.counted = At(t).counted /\ At(t)'.missed = At(t).missed
        /\ At(t)'.row = At(t).row \/ At(t)'.row = "FINAL" \/ At(t).row = "none" \/ t \in slip'
    BY <1>5, WorkerFacts DEF WorkerStep
  <2>2. CASE t # u
    BY <1>1, <1>2, <2>1, <2>2
  <2>3. CASE t = u
    BY <1>1, <1>2, <2>1, <2>3
  <2>. QED  BY <2>2, <2>3
<1>6. ASSUME NEW h \in Hooks, Lookup(h) PROVE Counted(u)'
  <2>1. /\ UNCHANGED text /\ hook'[h].step = "apply"
        /\ \A i \in Hooks : i # h => hook'[i] = hook[i]
    BY <1>6, LookupFacts
  <2>2. \A i \in Hooks : Counting(i, u)' => Counting(i, u)
    BY <2>1 DEF Counting, CallText
  <2>. QED  BY <1>1, <2>1, <2>2 DEF At
<1>7. ASSUME NEW h \in Hooks, CallFails(h) PROVE Counted(u)'
  <2>1. \A i \in Hooks : Counting(i, u)' => Counting(i, u)
    <3>1. ASSUME NEW i \in Hooks PROVE hook'[i] = hook[i] \/ hook'[i].step # "count"
      BY <1>7, HookMoves DEF Apply, CallFails, NoCall, TypeOK
    <3>. QED  BY <3>1 DEF Counting, CallText
  <2>2. UNCHANGED text
    BY <1>7 DEF CallFails
  <2>. QED  BY <1>1, <2>1, <2>2 DEF At
<1>8. ASSUME NEW h \in Hooks, Count(h) PROVE Counted(u)'
  <2>1. PICK t \in Texts : /\ Counting(h, t) /\ \A w \in Texts : w # t => At(w)' = At(w)
                           /\ At(t)' = [At(t) EXCEPT !.counted = At(t).counted + 1]
    BY <1>8, CountFacts
  <2>2. \A i \in Hooks : Counting(i, u)' => Counting(i, u) /\ i # h
    <3>1. ASSUME NEW i \in Hooks PROVE (hook'[i] = hook[i] /\ i # h) \/ hook'[i].step # "count"
      BY <1>8, HookMoves DEF Apply, Count
    <3>. QED  BY <3>1 DEF Counting, CallText
  <2>3. CASE t # u
    BY <1>1, <2>1, <2>2, <2>3
  <2>4. CASE t = u
    <3>1. Cardinality(Pending(u)') <= Cardinality(Pending(u)) - 1
      BY <2>1, <2>2, <2>4, PendingLoses
    <3>2. At(u) \in Text
      BY TextFacts
    <3>3. /\ At(u)'.counted = At(u).counted + 1 /\ At(u)'.row = At(u).row
          /\ At(u)'.missed = At(u).missed
      BY <2>1, <2>4, <3>2 DEF Text
    <3>. QED  BY <1>0, <3>1, <3>3 DEF Counted, Written
  <2>. QED  BY <2>3, <2>4
<1>9. ASSUME NEW h \in Hooks, Apply(h) PROVE Counted(u)'
  <2>1. PICK t \in Texts :
             /\ On(h, t) /\ hook[h].step = "apply"
             /\ \A w \in Texts : w # t => At(w)' = At(w)
             /\ At(t)'.counted = At(t).counted
             /\ t \in slip' \/ hook[h].seen \in {"unread", At(t).row}
             /\ At(t)'.missed \in Nat /\ At(t)'.missed >= At(t).missed
             /\ At(t).row # "none" /\ hook[h].seen \in {"unread", At(t).row}
                   /\ "FINAL" \in {hook[h].status, At(t).row}
                   => At(t)'.row = "FINAL" \/ At(t)'.missed = At(t).missed + 1
    BY <1>9, ApplyFacts
  <2>2. \A i \in Hooks : i # h => hook'[i] = hook[i]
    BY <1>9, HookMoves
  <2>3. CASE t # u
    <3>1. ~Counting(h, u)'
      <4>1. hook'[h].step = "idle" \/ CallText(h)' = CallText(h)
        BY <1>9, HookMoves
      <4>2. CallText(h) = t
        BY <2>1 DEF On
      <4>. QED  BY <2>3, <4>1, <4>2 DEF Counting
    <3>2. \A i \in Hooks : Counting(i, u)' => Counting(i, u)
      BY <2>2, <3>1 DEF Counting, CallText
    <3>. QED  BY <1>1, <2>1, <2>3, <3>2
  <2>4. CASE t = u
    <3>1. hook[h].seen \in {"unread", At(u).row} /\ At(u).row # "none"
      BY <1>0, <2>1, <2>4 DEF SeenNone
    <3>2. CASE hook'[h].step # "count"
      <4>1. \A i \in Hooks : Counting(i, u)' => Counting(i, u)
        BY <2>2, <3>2 DEF Counting, CallText
      <4>2. Cardinality(Pending(u)') <= Cardinality(Pending(u))
        BY <4>1, PendingShrinks
      <4>3. At(u).row = "FINAL" => At(u)'.row = "FINAL" \/ At(u)'.missed = At(u).missed + 1
        BY <2>1, <2>4, <3>1
      <4>. QED  BY <1>0, <2>1, <2>4, <4>2, <4>3 DEF Counted, Written
    <3>3. CASE hook'[h].step = "count"
      <4>1. hook[h].status = "FINAL" /\ hook[h].seen \in {"QUEUED", "SENT"}
        BY <1>9, <3>3, HookMoves
      <4>2. At(u).row # "FINAL" /\ (At(u)'.row = "FINAL" \/ At(u)'.missed = At(u).missed + 1)
        BY <2>1, <2>4, <3>1, <4>1
      <4>3. \A i \in Hooks : Counting(i, u)' => Counting(i, u) \/ i = h
        BY <2>2 DEF Counting, CallText
      <4>4. Cardinality(Pending(u)') <= Cardinality(Pending(u)) + 1
        BY <4>3, PendingGains
      <4>. QED  BY <1>0, <2>1, <2>4, <4>2, <4>4 DEF Counted, Written
    <3>. QED  BY <3>2, <3>3
  <2>. QED  BY <2>3, <2>4
<1>10. CASE UNCHANGED vars
  BY <1>1, <1>2, <1>10 DEF vars, At
<1>. QED  BY <1>3, <1>4, <1>5, <1>6, <1>7, <1>8, <1>9, <1>10, Cases DEF HookStep

-----------------------------------------------------------------------------
LEMMA InitIInv == Init => IInv
<1> SUFFICES ASSUME Init PROVE IInv
  OBVIOUS
<1>1. /\ events = <<>> /\ Len(events) = 0 /\ DOMAIN events = {} /\ mode = FALSE /\ slip = {}
      /\ admin = [a \in Admins |-> Idle] /\ hook = [h \in Hooks |-> NoCall]
      /\ text = [e \in 1..MaxEvents |-> [p \in Parents |-> NoText]] /\ failures = 0
  BY EmptySeq DEF Init
<1>2. /\ NoText \in Text /\ NoText.job = "none" /\ NoText.counted = 0
      /\ NoText.answered = FALSE /\ NoText.missed = 0
  BY DEF NoText, Blank, Text, Status
<1>3. Idle.step = "idle" /\ NoCall.step = "idle"
  BY DEF Idle, NoCall
<1>4. Idle \in [step : {"idle", "activate", "deactivate", "queue", "tell"}, event : 0..MaxEvents]
  BY Bounds DEF Idle
<1>5. events \in Seq([active : BOOLEAN, queued : Nat])
  BY <1>1, EmptySeq
<1>6. TypeOK
  <2>1. text \in [1..MaxEvents -> [Parents -> Text]]
    BY <1>1, <1>2
  <2>2. hook \in [Hooks -> Call \union {NoCall}]
    BY <1>1
  <2>3. admin \in [Admins -> [step : {"idle", "activate", "deactivate", "queue", "tell"},
                              event : 0..MaxEvents]]
    BY <1>1, <1>4
  <2>4. Len(events) <= MaxEvents /\ failures \in 0..MaxFailures
    BY <1>1, Bounds
  <2>5. slip \subseteq (1..MaxEvents) \X Parents
    BY <1>1
  <2>6. mode \in BOOLEAN
    BY <1>1
  <2>. QED  BY <1>5, <2>1, <2>2, <2>3, <2>4, <2>5, <2>6 DEF TypeOK
<1>7. \A t \in Texts : At(t) = NoText
  BY <1>1, TextFacts, <1>6 DEF At
<1>8. OneActiveEvent
  BY <1>1 DEF OneActiveEvent
<1>9. Queues /\ Fresh
  BY <1>1, <1>2, <1>3 DEF Queues, Fresh, Queueing
<1>10. Hooked /\ SeenNone
  BY <1>1, <1>3 DEF Hooked, SeenNone, On
<1>11. AnsweredIsKept
  BY <1>2, <1>7 DEF AnsweredIsKept
<1>12. ASSUME NEW t \in Texts PROVE Counted(t)
  <2>1. Pending(t) = {}
    BY <1>1, <1>3 DEF Pending, Counting
  <2>. QED  BY <1>2, <1>7, <2>1, FS_EmptySet DEF Counted, Written
<1>13. CountsOnce
  BY <1>12 DEF CountsOnce
<1>. QED  BY <1>6, <1>8, <1>9, <1>10, <1>11, <1>13 DEF IInv

LEMMA NextIInv == IInv /\ [Next]_vars => IInv'
BY TypeStep, ModeStep, QueuesStep, HookedStep, KeptStep, CountsStep DEF IInv

LEMMA SpecIInv == Spec => []IInv
BY InitIInv, NextIInv, PTL DEF Spec

(* However the requests of any number of administrators cross, the mode is *)
(* on exactly while one disaster event is active.                          *)
THEOREM SpecModeInv == Spec => []ModeInv
<1>1. IInv => ModeInv
  BY DEF IInv, ModeInv
<1>. QED  BY <1>1, SpecIInv, PTL

(* A final status that Twilio was answered stays in sms_logs, unless the   *)
(* callback was early, crossed another one, the record was repeated or a   *)
(* query of the webhook kept the status out.                               *)
THEOREM SpecAnsweredIsKept == Spec => []AnsweredIsKept
<1>1. IInv => AnsweredIsKept
  BY DEF IInv
<1>. QED  BY <1>1, SpecIInv, PTL

(* The counters of an event count a text once, and once more at most for   *)
(* every final status that a failed query kept out of its row, however     *)
(* often Twilio repeats its callbacks.                                     *)
THEOREM SpecCountedOnce == Spec => []CountedOnce
<1>1. ASSUME IInv, NEW t \in Texts, t \notin slip PROVE At(t).counted <= 1 + At(t).missed
  <2>1. At(t).counted \in Nat /\ At(t).missed \in Nat /\ Cardinality(Pending(t)) \in Nat
    BY <1>1, TextFacts, PendingFacts DEF IInv, Text
  <2>2. Counted(t)
    BY <1>1 DEF IInv, CountsOnce
  <2>. QED  BY <2>1, <2>2 DEF Counted, Written
<1>2. IInv => CountedOnce
  BY <1>1 DEF CountedOnce
<1>. QED  BY <1>2, SpecIInv, PTL
=============================================================================
