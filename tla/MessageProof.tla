---------------------------- MODULE MessageProof ----------------------------
(***************************************************************************)
(* Proofs about the two ways a message leaves the school.  SmsDispatch,    *)
(* for any batches, jobs, attempts, months, ceiling and failures: the      *)
(* counters cover what is still to be recorded but for what they are known *)
(* to have lost, and a text is sent twice only if the sid of the first was *)
(* lost.  ChatIngest, for any messages, users, handlers at a time and      *)
(* setbacks: an acknowledged message is lost only by a failure between the *)
(* append of its event and its insert.                                     *)
(***************************************************************************)
EXTENDS SmsDispatch, ChatIngest, FiniteSetTheorems, TLAPS

-----------------------------------------------------------------------------
(* SmsDispatch.                                                            *)

JobSteps  == {"none", "waiting"} \union Running \union Ended
OpenSteps == {"waiting", "create", "save", "log", "release"}
Again(r)  == IF r.stalled THEN 1 ELSE 0

(* What a job r says of the n texts sent for it, where l: a sid was lost,  *)
(* and b: it bypasses the quota.  An attempt, or the repetition after a    *)
(* death, sends one text at most, and none once a sid is in the job.       *)
Tells(r, n, l, b) ==
    /\ r.step = "none" => n = 0
    /\ r.step \in {"waiting"} \union Running => r.tries < MaxAttempts
    /\ n <= r.tries + Again(r) + 1
    /\ r.step \in {"waiting", "create"} => n <= r.tries + Again(r)
    /\ r.step \in {"save", "log"} => r.held # 0
    /\ r.step = "create" => r.saved = 0
    /\ r.step = "release" => ~b
    /\ ~l => n <= 1 /\ (n = 1 => r.saved # 0 \/ r.step = "save")

JobsTell == \A j \in Jobs : Tells(job[j], sent[j], j \in lost, BatchOf[j] \in Bypass)

(* A batch has jobs only once it is queued. *)
Queued == \A j \in Jobs : job[j].step # "none" => send[BatchOf[j]].step = "queued"

IInv == TypeOK /\ Queued /\ JobsTell /\ OpenIsReserved

LEMMA UsageIsNat ==
  ASSUME TypeOK
  PROVE  Usage \in Nat
<1>1. IsFiniteSet(1..MaxTexts) /\ IsFiniteSet(Months)
  BY FS_Interval, BoundsAssumption DEF MaxTexts, Months
<1>2. IsFiniteSet((Jobs \X (1..MaxTexts)) \X Months)
  BY <1>1, FS_Product, BatchesAssumption
<1>3. IsFiniteSet({row \in logs : row[2] = month})
  BY <1>2, FS_Subset DEF TypeOK
<1>. QED  BY <1>3, FS_CardinalityType DEF Usage

LEMMA SizeIsNat ==
  ASSUME NEW b \in Batches
  PROVE  IsFiniteSet(JobsOf(b)) /\ Size(b) \in Nat
<1>1. JobsOf(b) \in SUBSET Jobs
  BY DEF JobsOf
<1>. QED  BY <1>1, FS_Subset, FS_CardinalityType, BatchesAssumption DEF Size

(* What a month's counter holds, with what it has lost. *)
Room(m) == reserved[m] + astray[m]
FiniteOpen == \A m \in Months : IsFiniteSet(Open(m)) /\ Cardinality(Open(m)) \in Nat

LEMMA OpenIsFinite == FiniteOpen
<1>1. \A m \in Months : Open(m) \in SUBSET Jobs
  BY DEF Open
<1>. QED  BY <1>1, FS_Subset, FS_CardinalityType, BatchesAssumption DEF FiniteOpen

LEMMA OpenIsFiniteNext == FiniteOpen'
BY OpenIsFinite, PTL

LEMMA RoomIsInt ==
  ASSUME TypeOK, NEW m \in Months
  PROVE  Room(m) \in Int
<1>1. reserved \in [Months -> Int] /\ astray \in [Months -> Nat]
  BY DEF TypeOK
<1>. QED  BY <1>1 DEF Room

LEMMA RoomIsIntNext ==
  ASSUME TypeOK', NEW m \in Months
  PROVE  Room(m)' \in Int
<1>1. reserved' \in [Months -> Int] /\ astray' \in [Months -> Nat]
  BY DEF TypeOK
<1>. QED  BY <1>1 DEF Room

(* The counter of a month is still high enough if it did not fall and      *)
(* nothing has been opened, if it fell by one and a job was closed, if it  *)
(* rose by one for a job opened, or by the size of a batch for the batch.  *)
LEMMA Shrinks ==
  ASSUME TypeOK, TypeOK', NEW m \in Months, Room(m) >= Cardinality(Open(m)),
         Open(m)' \subseteq Open(m), Room(m)' >= Room(m)
  PROVE  Room(m)' >= Cardinality(Open(m)')
<1>1. Cardinality(Open(m)') <= Cardinality(Open(m))
  BY OpenIsFinite, FS_Subset DEF FiniteOpen
<1>2. Room(m) \in Int /\ Room(m)' \in Int
  BY RoomIsInt, RoomIsIntNext
<1>. QED  BY <1>1, <1>2, OpenIsFinite, OpenIsFiniteNext DEF FiniteOpen, Months

LEMMA Closes ==
  ASSUME TypeOK, TypeOK', NEW m \in Months, Room(m) >= Cardinality(Open(m)),
         NEW j \in Open(m), Open(m)' \subseteq Open(m) \ {j}, Room(m)' >= Room(m) - 1
  PROVE  Room(m)' >= Cardinality(Open(m)')
<1>1. /\ IsFiniteSet(Open(m) \ {j})
      /\ Cardinality(Open(m) \ {j}) = Cardinality(Open(m)) - 1
  BY OpenIsFinite, FS_RemoveElement DEF FiniteOpen
<1>2. Cardinality(Open(m)') <= Cardinality(Open(m) \ {j})
  BY <1>1, FS_Subset
<1>3. Room(m) \in Int /\ Room(m)' \in Int
  BY RoomIsInt, RoomIsIntNext
<1>. QED  BY <1>1, <1>2, <1>3, OpenIsFinite, OpenIsFiniteNext DEF FiniteOpen, Months

LEMMA Opens ==
  ASSUME TypeOK, TypeOK', NEW m \in Months, Room(m) >= Cardinality(Open(m)),
         NEW j \in Jobs, Open(m)' \subseteq Open(m) \union {j}, Room(m)' >= Room(m) + 1
  PROVE  Room(m)' >= Cardinality(Open(m)')
<1>1. /\ IsFiniteSet(Open(m) \union {j})
      /\ Cardinality(Open(m) \union {j}) \in Nat
      /\ Cardinality(Open(m) \union {j}) <= Cardinality(Open(m)) + 1
  BY OpenIsFinite, FS_AddElement, FS_CardinalityType DEF FiniteOpen
<1>2. Cardinality(Open(m)') <= Cardinality(Open(m) \union {j})
  BY <1>1, FS_Subset
<1>3. Room(m) \in Int /\ Room(m)' \in Int
  BY RoomIsInt, RoomIsIntNext
<1>. QED  BY <1>1, <1>2, <1>3, OpenIsFinite, OpenIsFiniteNext DEF FiniteOpen, Months

LEMMA BatchOpens ==
  ASSUME TypeOK, TypeOK', NEW m \in Months, Room(m) >= Cardinality(Open(m)),
         NEW b \in Batches, Open(m)' \subseteq Open(m) \union JobsOf(b),
         Room(m)' >= Room(m) + Size(b)
  PROVE  Room(m)' >= Cardinality(Open(m)')
<1>1. IsFiniteSet(JobsOf(b)) /\ Size(b) \in Nat /\ IsFiniteSet(Open(m))
      /\ Cardinality(Open(m)) \in Nat
  BY SizeIsNat, OpenIsFinite DEF FiniteOpen
<1>2. /\ IsFiniteSet(Open(m) \union JobsOf(b)) /\ IsFiniteSet(Open(m) \intersect JobsOf(b))
      /\ Cardinality(Open(m) \union JobsOf(b))
           = Cardinality(Open(m)) + Cardinality(JobsOf(b))
               - Cardinality(Open(m) \intersect JobsOf(b))
  BY <1>1, FS_Union, FS_Intersection
<1>3. /\ Cardinality(Open(m) \intersect JobsOf(b)) \in Nat
      /\ Cardinality(Open(m) \union JobsOf(b)) \in Nat
  BY <1>2, FS_CardinalityType
<1>4. Cardinality(Open(m)') <= Cardinality(Open(m) \union JobsOf(b))
  BY <1>2, FS_Subset
<1>5. Room(m) \in Int /\ Room(m)' \in Int
  BY RoomIsInt, RoomIsIntNext
<1>. QED  BY <1>1, <1>2, <1>3, <1>4, <1>5, OpenIsFiniteNext DEF FiniteOpen, Months, Size

(* ... for every month. *)
LEMMA AllShrink ==
  ASSUME IInv, TypeOK', \A m \in Months : Open(m)' \subseteq Open(m),
         \A m \in Months : Room(m)' >= Room(m)
  PROVE  OpenIsReserved'
<1>1. ASSUME NEW m \in Months PROVE Room(m)' >= Cardinality(Open(m)')
  BY Shrinks DEF IInv, OpenIsReserved, Room
<1>. QED  BY <1>1 DEF OpenIsReserved, Room, Months

LEMMA Same ==
  ASSUME IInv, UNCHANGED vars
  PROVE  IInv'
BY DEF IInv, vars, Texts, Quota, TypeOK, Queued, JobsTell, Tells, Again, OpenIsReserved, Open

-----------------------------------------------------------------------------
(* sendBatchSms: nothing but its own step, the counter and, at the end,    *)
(* the jobs of the batch.                                                  *)

LEMMA ReadUsageStep ==
  ASSUME IInv, NEW b \in Batches, ReadUsage(b)
  PROVE  IInv'
<1>1. /\ TypeOK /\ Usage \in Nat /\ month \in Months
      /\ UNCHANGED <<month, reserved, volatile, job, sent, logs, lost, suspended, astray, failures>>
  BY UsageIsNat DEF IInv, ReadUsage, Quota, Texts, TypeOK
<1>. DEFINE u == IF b \in Bypass THEN 0 ELSE Usage
<1>2. /\ send' = [send EXCEPT ![b] = [step |-> "read", month |-> month, usage |-> u]]
      /\ send[b].step = "new" /\ u \in Nat
  BY <1>1 DEF ReadUsage
<1>. HIDE DEF u
<1>3. TypeOK'
  BY <1>1, <1>2 DEF TypeOK
<1>4. \A c \in Batches : /\ send'[c].step = IF c = b THEN "read" ELSE send[c].step
                         /\ c # b => send'[c] = send[c]
  BY <1>1, <1>2 DEF TypeOK
<1>5. Queued'
  BY <1>1, <1>2, <1>4, BatchesAssumption DEF IInv, Queued
<1>6. JobsTell'
  BY <1>1 DEF IInv, JobsTell
<1>7. \A j \in Jobs : BatchOf[j] = b => job[j].step = "none"
  BY <1>2 DEF IInv, Queued
<1>8. \A m \in Months : Open(m)' \subseteq Open(m)
  BY <1>1, <1>4, <1>7, BatchesAssumption DEF Open
<1>9. \A m \in Months : Room(m)' >= Room(m)
  BY <1>1 DEF TypeOK, Room
<1>. QED  BY <1>3, <1>5, <1>6, <1>8, <1>9, AllShrink DEF IInv

(* A step of sendBatchSms from one state of the batch to another. *)
LEMMA SendFacts ==
  ASSUME TypeOK, NEW b \in Batches, NEW from,
         NEW to \in {"new", "read", "reserved", "queued", "blocked", "failed"},
         SendStep(b, from, to)
  PROVE  /\ send' \in [Batches -> [step : {"new", "read", "reserved", "queued", "blocked",
                                           "failed"}, usage : Nat, month : Months]]
         /\ send[b].step = from /\ send[b].month \in Months
         /\ \A c \in Batches : /\ send'[c].step = IF c = b THEN to ELSE send[c].step
                               /\ send'[c].month = send[c].month
BY DEF SendStep, TypeOK

(* A batch becomes reserved: by the counter, or without it (ReserveFails). *)
LEMMA ReservedStep ==
  ASSUME IInv, NEW b \in Batches, Reserve(b) \/ ReserveFails(b)
  PROVE  IInv'
<1>0. PICK k : k = send[b].month
  OBVIOUS
<1>1. /\ TypeOK /\ SendStep(b, "read", "reserved")
      /\ UNCHANGED <<month, job, sent, logs, lost, suspended>> /\ failures' \in 0..MaxFailures
  BY BoundsAssumption DEF IInv, Reserve, ReserveFails, Texts, Failure, TypeOK
<1>2. /\ send' \in [Batches -> [step : {"new", "read", "reserved", "queued", "blocked",
                                        "failed"}, usage : Nat, month : Months]]
      /\ send[b].step = "read" /\ k \in Months
      /\ \A c \in Batches : /\ send'[c].step = IF c = b THEN "reserved" ELSE send[c].step
                            /\ send'[c].month = send[c].month
  BY <1>0, <1>1, SendFacts
<1>3. Size(b) \in Nat
  BY SizeIsNat
<1>4. /\ reserved' \in [Months -> Int] /\ volatile' \in [Months -> BOOLEAN]
      /\ astray' \in [Months -> Nat]
      /\ b \notin Bypass => Room(k)' >= Room(k) + Size(b)
      /\ \A m \in Months : Room(m)' >= Room(m)
  <2>1. CASE Reserve(b)
    <3>1. /\ reserved' = [reserved EXCEPT ![k] = @ + Size(b)]
          /\ volatile' = [volatile EXCEPT ![k] = TRUE] /\ astray' = astray
      BY <1>0, <2>1 DEF Reserve
    <3>. QED  BY <1>1, <1>2, <1>3, <3>1 DEF TypeOK, Room
  <2>2. CASE ReserveFails(b)
    <3>1. /\ reserved' = reserved /\ volatile' = volatile
          /\ astray' = IF b \in Bypass THEN astray ELSE [astray EXCEPT ![k] = @ + Size(b)]
      BY <1>0, <2>2 DEF ReserveFails, Quota
    <3>. QED  BY <1>1, <1>2, <1>3, <3>1 DEF TypeOK, Room
  <2>. QED  BY <2>1, <2>2
<1>5. TypeOK'
  BY <1>1, <1>2, <1>4 DEF TypeOK
<1>6. Queued'
  BY <1>1, <1>2, BatchesAssumption DEF IInv, Queued
<1>7. JobsTell'
  BY <1>1 DEF IInv, JobsTell
<1>8. \A m \in Months : Open(m)' \subseteq IF m = k /\ b \notin Bypass THEN Open(m) \union JobsOf(b)
                                           ELSE Open(m)
  BY <1>0, <1>1, <1>2, BatchesAssumption DEF Open, JobsOf
<1>9. ASSUME NEW m \in Months PROVE Room(m)' >= Cardinality(Open(m)')
  <2>0. Room(m) >= Cardinality(Open(m))
    BY DEF IInv, OpenIsReserved, Room
  <2>1. CASE m = k /\ b \notin Bypass
    <3>1. Open(m)' \subseteq Open(m) \union JobsOf(b) /\ Room(m)' >= Room(m) + Size(b)
      BY <1>4, <1>8, <2>1
    <3>. QED  BY <1>1, <1>5, <2>0, <3>1, BatchOpens
  <2>2. CASE ~(m = k /\ b \notin Bypass)
    <3>1. Open(m)' \subseteq Open(m) /\ Room(m)' >= Room(m)
      BY <1>4, <1>8, <2>2
    <3>. QED  BY <1>1, <1>5, <2>0, <3>1, Shrinks
  <2>. QED  BY <2>1, <2>2
<1>10. OpenIsReserved'
  BY <1>9 DEF OpenIsReserved, Room, Months
<1>. QED  BY <1>5, <1>6, <1>7, <1>10 DEF IInv

(* The batch ends: jobs and counter stay.                                  *)
LEMMA SendOnly ==
  ASSUME IInv, NEW b \in Batches, NEW from, from # "queued",
         NEW to \in {"blocked", "failed"}, SendStep(b, from, to),
         failures' \in 0..MaxFailures,
         UNCHANGED <<month, Quota, job, Texts, suspended, astray>>
  PROVE  IInv'
<1>1. TypeOK /\ UNCHANGED <<month, reserved, volatile, job, sent, logs, lost, suspended, astray>>
  BY DEF IInv, Quota, Texts
<1>2. /\ send' \in [Batches -> [step : {"new", "read", "reserved", "queued", "blocked",
                                        "failed"}, usage : Nat, month : Months]]
      /\ send[b].step = from
      /\ \A c \in Batches : /\ send'[c].step = IF c = b THEN to ELSE send[c].step
                            /\ send'[c].month = send[c].month
  BY <1>1, SendFacts
<1>3. TypeOK'
  BY <1>1, <1>2 DEF TypeOK
<1>4. Queued'
  BY <1>1, <1>2, BatchesAssumption DEF IInv, Queued
<1>5. JobsTell'
  BY <1>1 DEF IInv, JobsTell
<1>6. \A m \in Months : Open(m)' \subseteq Open(m) /\ Room(m)' >= Room(m)
  BY <1>1, <1>2, BatchesAssumption DEF Open, Room, TypeOK
<1>. QED  BY <1>3, <1>4, <1>5, <1>6, AllShrink DEF IInv

LEMMA EnqueueStep ==
  ASSUME IInv, NEW b \in Batches, Enqueue(b)
  PROVE  IInv'
<1>1. /\ TypeOK
      /\ UNCHANGED <<month, reserved, volatile, sent, logs, lost, suspended, astray, failures>>
      /\ job' = [j \in Jobs |-> IF j \in JobsOf(b) THEN [NoJob EXCEPT !.step = "waiting"]
                                                   ELSE job[j]]
  BY DEF IInv, Enqueue, Quota, Texts
<1>2. /\ send' \in [Batches -> [step : {"new", "read", "reserved", "queued", "blocked",
                                        "failed"}, usage : Nat, month : Months]]
      /\ send[b].step = "reserved"
      /\ \A c \in Batches : /\ send'[c].step = IF c = b THEN "queued" ELSE send[c].step
                            /\ send'[c].month = send[c].month
  BY <1>1, SendFacts DEF Enqueue
<1>. DEFINE new == [NoJob EXCEPT !.step = "waiting"]
<1>3. /\ new \in Job
      /\ new.step = "waiting" /\ new.tries = 0 /\ new.stalled = FALSE /\ new.saved = 0
  <2>1. 0 \in 0..MaxAttempts /\ 0 \in 0..MaxTexts
    BY BoundsAssumption DEF MaxTexts
  <2>2. NoJob \in Job
    BY <2>1 DEF Job, NoJob
  <2>. QED  BY <2>2 DEF Job, NoJob
<1>13. job' = [j \in Jobs |-> IF j \in JobsOf(b) THEN new ELSE job[j]]
  BY <1>1
<1>. HIDE DEF new
<1>4. /\ job' \in [Jobs -> Job]
      /\ \A j \in Jobs : job'[j] = IF BatchOf[j] = b THEN new ELSE job[j]
  BY <1>1, <1>3, <1>13 DEF TypeOK, JobsOf
<1>5. TypeOK'
  BY <1>1, <1>2, <1>4 DEF TypeOK
<1>6. Queued'
  BY <1>2, <1>4, BatchesAssumption DEF IInv, Queued
<1>7. ASSUME NEW j \in Jobs
      PROVE  Tells(job'[j], sent'[j], j \in lost', BatchOf[j] \in Bypass)
  <2>1. CASE BatchOf[j] # b
    BY <1>1, <1>4, <2>1 DEF IInv, JobsTell
  <2>2. CASE BatchOf[j] = b
    <3>1. job[j].step = "none"
      BY <1>2, <2>2 DEF IInv, Queued
    <3>2. sent[j] = 0
      BY <3>1 DEF IInv, JobsTell, Tells
    <3>3. job'[j] = new /\ sent'[j] = 0
      BY <1>1, <1>4, <2>2, <3>2
    <3>. QED  BY <1>3, <3>3, BoundsAssumption DEF Tells, Again, Running
  <2>. QED  BY <2>1, <2>2
<1>8. JobsTell'
  BY <1>7 DEF JobsTell, Tells, Again
<1>9. \A m \in Months : Open(m)' \subseteq Open(m)
  BY <1>1, <1>2, <1>4, BatchesAssumption DEF Open
<1>10. \A m \in Months : Room(m)' >= Room(m)
  BY <1>1 DEF TypeOK, Room
<1>11. OpenIsReserved'
  BY <1>5, <1>9, <1>10, AllShrink
<1>. QED  BY <1>5, <1>6, <1>8, <1>11 DEF IInv

LEMMA EnqueueFailsStep ==
  ASSUME IInv, NEW b \in Batches, EnqueueFails(b)
  PROVE  IInv'
<1>0. PICK k : k = send[b].month
  OBVIOUS
<1>1. /\ TypeOK
      /\ UNCHANGED <<month, volatile, job, sent, logs, lost, suspended, astray>>
      /\ reserved' = IF b \in Bypass THEN reserved
                     ELSE [reserved EXCEPT ![k] = @ - Size(b)]
      /\ failures' \in 0..MaxFailures
  BY <1>0, BoundsAssumption DEF IInv, EnqueueFails, Texts, Failure, TypeOK
<1>2. /\ send' \in [Batches -> [step : {"new", "read", "reserved", "queued", "blocked",
                                        "failed"}, usage : Nat, month : Months]]
      /\ send[b].step = "reserved" /\ k \in Months
      /\ \A c \in Batches : /\ send'[c].step = IF c = b THEN "failed" ELSE send[c].step
                            /\ send'[c].month = send[c].month
  BY <1>0, <1>1, SendFacts DEF EnqueueFails
<1>3. Size(b) \in Nat /\ IsFiniteSet(JobsOf(b))
  BY <1>1, SizeIsNat
<1>4. TypeOK'
  BY <1>1, <1>2, <1>3 DEF TypeOK
<1>5. Queued'
  BY <1>1, <1>2, BatchesAssumption DEF IInv, Queued
<1>6. JobsTell'
  BY <1>1 DEF IInv, JobsTell
<1>7. \A j \in JobsOf(b) : job[j].step = "none"
  BY <1>2 DEF JobsOf, IInv, Queued
<1>8. \A m \in Months : Open(m)' \subseteq Open(m) \ JobsOf(b)
  BY <1>0, <1>1, <1>2, <1>7, BatchesAssumption DEF Open, JobsOf
<1>9. ASSUME NEW m \in Months PROVE Room(m)' >= Cardinality(Open(m)')
  <2>0. Room(m) >= Cardinality(Open(m)) /\ Room(m) \in Int
    BY <1>1, RoomIsInt DEF IInv, OpenIsReserved, Room
  <2>1. CASE m = k /\ b \notin Bypass
    <3>1. JobsOf(b) \subseteq Open(m)
      BY <1>0, <1>2, <2>1 DEF Open, JobsOf
    <3>2. /\ IsFiniteSet(Open(m) \ JobsOf(b))
          /\ Cardinality(Open(m) \ JobsOf(b)) = Cardinality(Open(m)) - Size(b)
      <4>1. Open(m) \intersect JobsOf(b) = JobsOf(b)
        BY <3>1
      <4>. QED  BY <4>1, OpenIsFinite, FS_Difference DEF FiniteOpen, Size
    <3>3. Cardinality(Open(m)') <= Cardinality(Open(m) \ JobsOf(b))
      BY <1>8, <3>2, FS_Subset
    <3>4. Room(m)' = Room(m) - Size(b)
      BY <1>1, <1>2, <1>3, <2>1 DEF TypeOK, Room
    <3>. QED  BY <1>3, <2>0, <3>2, <3>3, <3>4, OpenIsFinite, OpenIsFiniteNext
              DEF FiniteOpen, Months
  <2>2. CASE ~(m = k /\ b \notin Bypass)
    <3>1. Room(m)' >= Room(m)
      BY <1>1, <1>2, <1>3, <2>2 DEF TypeOK, Room
    <3>2. Open(m)' \subseteq Open(m)
      BY <1>8
    <3>. QED  BY <1>1, <1>4, <2>0, <3>1, <3>2, Shrinks
  <2>. QED  BY <2>1, <2>2
<1>10. OpenIsReserved'
  BY <1>9 DEF OpenIsReserved, Room, Months
<1>. QED  BY <1>4, <1>5, <1>6, <1>10 DEF IInv
-----------------------------------------------------------------------------
(* A step of SmsProcessor changes one job and what is known of its texts. *)

(* The record of the job after the step, and what it tells of the texts. *)
LEMMA JobMove ==
  ASSUME IInv, NEW j \in Jobs, NEW r \in Job, job' = [job EXCEPT ![j] = r],
         job[j].step # "none", r.step # "none", send' = send,
         sent' \in [Jobs -> 0..MaxTexts], lost' \subseteq Jobs,
         \A i \in Jobs : i # j => sent'[i] = sent[i] /\ (i \in lost' <=> i \in lost),
         Tells(r, sent'[j], j \in lost', BatchOf[j] \in Bypass)
  PROVE  /\ job' \in [Jobs -> Job] /\ Queued' /\ JobsTell'
         /\ (r.step \in OpenSteps => job[j].step \in OpenSteps)
              => \A m \in Months : Open(m)' \subseteq Open(m)
         /\ r.step \notin OpenSteps => \A m \in Months : Open(m)' \subseteq Open(m) \ {j}
         /\ \A m \in Months : Open(m)' \subseteq IF m = send[BatchOf[j]].month
                                                THEN Open(m) \union {j} ELSE Open(m)
<1>1. /\ job' \in [Jobs -> Job] /\ job'[j] = r
      /\ \A i \in Jobs : i # j => job'[i] = job[i]
  BY DEF IInv, TypeOK
<1>2. Queued'
  BY <1>1 DEF IInv, Queued
<1>3. ASSUME NEW i \in Jobs
      PROVE  Tells(job'[i], sent'[i], i \in lost', BatchOf[i] \in Bypass)
  BY <1>1 DEF IInv, JobsTell
<1>4. JobsTell'
  BY <1>3 DEF JobsTell, Tells, Again
<1>5. send[BatchOf[j]].step = "queued"
  BY DEF IInv, Queued
<1>6. ASSUME r.step \in OpenSteps => job[j].step \in OpenSteps
      PROVE  \A m \in Months : Open(m)' \subseteq Open(m)
  BY <1>1, <1>5, <1>6 DEF Open, OpenSteps
<1>7. ASSUME r.step \notin OpenSteps
      PROVE  \A m \in Months : Open(m)' \subseteq Open(m) \ {j}
  BY <1>1, <1>5, <1>7 DEF Open, OpenSteps
<1>8. \A m \in Months : Open(m)' \subseteq IF m = send[BatchOf[j]].month
                                          THEN Open(m) \union {j} ELSE Open(m)
  BY <1>1, <1>5 DEF Open, OpenSteps
<1>. QED  BY <1>1, <1>2, <1>4, <1>6, <1>7, <1>8

(* A step that leaves the counter alone and opens nothing. *)
LEMMA JobOnly ==
  ASSUME IInv, NEW j \in Jobs, NEW r \in Job, job' = [job EXCEPT ![j] = r],
         job[j].step # "none", r.step # "none", send' = send,
         sent' \in [Jobs -> 0..MaxTexts], lost' \subseteq Jobs,
         \A i \in Jobs : i # j => sent'[i] = sent[i] /\ (i \in lost' <=> i \in lost),
         Tells(r, sent'[j], j \in lost', BatchOf[j] \in Bypass),
         r.step \in OpenSteps => job[j].step \in OpenSteps,
         UNCHANGED <<month, Quota, suspended, astray>>,
         logs' \subseteq (Jobs \X (1..MaxTexts)) \X Months, failures' \in 0..MaxFailures
  PROVE  IInv'
<1>1. TypeOK /\ UNCHANGED <<month, reserved, volatile, suspended, astray>>
  BY DEF IInv, Quota
<1>2. /\ job' \in [Jobs -> Job] /\ Queued' /\ JobsTell'
      /\ \A m \in Months : Open(m)' \subseteq Open(m)
  BY JobMove
<1>3. TypeOK'
  BY <1>1, <1>2 DEF TypeOK
<1>4. \A m \in Months : Room(m)' >= Room(m)
  BY <1>1 DEF TypeOK, Room
<1>. QED  BY <1>2, <1>3, <1>4, AllShrink DEF IInv

(* A step that gives a reservation back and closes its job. *)
LEMMA JobCloses ==
  ASSUME IInv, NEW j \in Jobs, NEW r \in Job, job' = [job EXCEPT ![j] = r],
         job[j].step \in OpenSteps, r.step \notin OpenSteps, r.step # "none", send' = send,
         BatchOf[j] \notin Bypass,
         sent' \in [Jobs -> 0..MaxTexts], lost' \subseteq Jobs,
         \A i \in Jobs : i # j => sent'[i] = sent[i] /\ (i \in lost' <=> i \in lost),
         Tells(r, sent'[j], j \in lost', BatchOf[j] \in Bypass),
         GiveBack(j), UNCHANGED <<month, logs, suspended>>, failures' \in 0..MaxFailures
  PROVE  IInv'
<1>0. PICK k : k = send[BatchOf[j]].month
  OBVIOUS
<1>1. /\ TypeOK /\ job[j].step # "none" /\ month \in Months /\ k \in Months
      /\ reserved \in [Months -> Int] /\ astray \in [Months -> Nat]
      /\ volatile \in [Months -> BOOLEAN]
  BY <1>0, BatchesAssumption DEF IInv, TypeOK, OpenSteps
<1>2. /\ reserved' \in [Months -> Int] /\ volatile' \in [Months -> BOOLEAN]
      /\ astray' \in [Months -> Nat]
      /\ Room(k)' >= Room(k) - 1
      /\ \A m \in Months : m # k => Room(m)' >= Room(m)
  <2>1. CASE reserved[month] > 0
    <3>1. /\ reserved' = [reserved EXCEPT ![month] = @ - 1]
          /\ volatile' = [volatile EXCEPT ![month] = FALSE]
          /\ astray' = IF k = month THEN astray ELSE [astray EXCEPT ![month] = @ + 1]
      BY <1>0, <2>1 DEF GiveBack
    <3>2. CASE k = month
      BY <1>1, <3>1, <3>2 DEF Room
    <3>3. CASE k # month
      BY <1>1, <3>1, <3>3 DEF Room
    <3>. QED  BY <3>2, <3>3
  <2>2. CASE ~(reserved[month] > 0)
    <3>1. reserved' = reserved /\ volatile' = volatile /\ astray' = astray
      BY <2>2 DEF GiveBack, Quota
    <3>. QED  BY <1>1, <3>1 DEF Room
  <2>. QED  BY <2>1, <2>2
<1>3. /\ job' \in [Jobs -> Job] /\ Queued' /\ JobsTell'
      /\ \A m \in Months : Open(m)' \subseteq Open(m) \ {j}
  BY <1>1, JobMove
<1>4. TypeOK'
  BY <1>1, <1>2, <1>3 DEF TypeOK
<1>5. j \in Open(k)
  BY <1>0 DEF Open, OpenSteps
<1>6. ASSUME NEW m \in Months PROVE Room(m)' >= Cardinality(Open(m)')
  <2>0. Room(m) >= Cardinality(Open(m))
    BY DEF IInv, OpenIsReserved, Room
  <2>1. CASE m = k
    <3>1. j \in Open(m) /\ Open(m)' \subseteq Open(m) \ {j} /\ Room(m)' >= Room(m) - 1
      BY <1>2, <1>3, <1>5, <2>1
    <3>. QED  BY <1>1, <1>4, <2>0, <3>1, Closes
  <2>2. CASE m # k
    <3>1. Open(m)' \subseteq Open(m) /\ Room(m)' >= Room(m)
      BY <1>2, <1>3, <2>2
    <3>. QED  BY <1>1, <1>4, <2>0, <3>1, Shrinks
  <2>. QED  BY <2>1, <2>2
<1>7. OpenIsReserved'
  BY <1>6 DEF OpenIsReserved, Room, Months
<1>. QED  BY <1>3, <1>4, <1>7 DEF IInv
-----------------------------------------------------------------------------
(* The steps of an attempt *)

Dead(j) == job[j].step \in {"none"} \union Ended

LEMMA JobFacts ==
  ASSUME IInv, NEW j \in Jobs
  PROVE  /\ job \in [Jobs -> Job] /\ job[j] \in Job
         /\ job[j].step \in JobSteps /\ job[j].tries \in 0..MaxAttempts
         /\ job[j].stalled \in BOOLEAN
         /\ job[j].saved \in 0..MaxTexts /\ job[j].held \in 0..MaxTexts
         /\ sent \in [Jobs -> 0..MaxTexts] /\ sent[j] \in 0..MaxTexts
         /\ lost \subseteq Jobs /\ logs \subseteq (Jobs \X (1..MaxTexts)) \X Months
         /\ month \in Months /\ astray \in [Months -> Nat] /\ failures \in 0..MaxFailures
         /\ Tells(job[j], sent[j], j \in lost, BatchOf[j] \in Bypass)
         /\ MaxAttempts \in Nat \ {0} /\ MaxTexts = MaxAttempts + 1
BY BoundsAssumption DEF IInv, TypeOK, Job, JobSteps, JobsTell, MaxTexts

LEMMA FailureFacts ==
  ASSUME TypeOK, Failure
  PROVE  failures' \in 0..MaxFailures
BY BoundsAssumption DEF TypeOK, Failure

(* A step that changes no more than the step of the job. *)
LEMMA StepOnly ==
  ASSUME IInv, NEW j \in Jobs, NEW from, NEW to \in JobSteps, JobStep(j, from, to)
  PROVE  \E r \in Job : /\ job' = [job EXCEPT ![j] = r] /\ r.step = to /\ job[j].step = from
                        /\ r.tries = job[j].tries /\ r.stalled = job[j].stalled
                        /\ r.saved = job[j].saved /\ r.held = job[j].held
<1>. DEFINE r == [job[j] EXCEPT !.step = to]
<1>1. job' = [job EXCEPT ![j] = r] /\ job[j].step = from
  BY JobFacts DEF JobStep
<1>2. r \in Job
  BY JobFacts DEF Job, JobSteps
<1>3. /\ r.step = to /\ r.tries = job[j].tries /\ r.stalled = job[j].stalled
      /\ r.saved = job[j].saved /\ r.held = job[j].held
  BY JobFacts DEF Job
<1>. QED  BY <1>1, <1>2, <1>3

LEMMA TakeStep ==
  ASSUME IInv, NEW j \in Jobs, Take(j) \/ TakeUnread(j)
  PROVE  IInv'
<1>0. job[j] \in Job /\ Tells(job[j], sent[j], j \in lost, BatchOf[j] \in Bypass)
  BY JobFacts
<1>1. PICK to \in {"skipped", "log", "create"} :
         /\ job' = [job EXCEPT ![j].step = to, ![j].held = job[j].saved]
         /\ to = "log" => job[j].saved # 0
         /\ to = "create" => job[j].saved = 0
  BY DEF Take, TakeUnread
<1>. DEFINE r == [job[j] EXCEPT !.step = to, !.held = job[j].saved]
<1>2. /\ job[j].step = "waiting" /\ job' = [job EXCEPT ![j] = r]
      /\ UNCHANGED <<month, send, reserved, volatile, sent, logs, lost, suspended, astray>>
      /\ failures' \in 0..MaxFailures
  BY <1>1, JobFacts, FailureFacts DEF Take, TakeUnread, Quota, Texts, IInv
<1>3. /\ r \in Job /\ r.step = to /\ r.tries = job[j].tries /\ r.stalled = job[j].stalled
      /\ r.saved = job[j].saved /\ r.held = job[j].saved
  BY <1>1, JobFacts DEF Job, Running, Ended
<1>. HIDE DEF r
<1>4. Tells(r, sent[j], j \in lost, BatchOf[j] \in Bypass)
  BY <1>0, <1>1, <1>2, <1>3, JobFacts DEF Tells, Again, Running
<1>. QED  BY <1>1, <1>2, <1>3, <1>4, JobFacts, JobOnly DEF OpenSteps, Quota

LEMMA CreateStep ==
  ASSUME IInv, NEW j \in Jobs, Create(j)
  PROVE  IInv'
<1>0. job[j] \in Job /\ Tells(job[j], sent[j], j \in lost, BatchOf[j] \in Bypass)
  BY JobFacts
<1>. DEFINE n == sent[j] + 1
<1>. DEFINE r == [job[j] EXCEPT !.step = "save", !.held = n]
<1>1. /\ job[j].step = "create" /\ sent' = [sent EXCEPT ![j] = n] /\ sent'[j] = n
      /\ job' = [job EXCEPT ![j] = r]
      /\ UNCHANGED <<month, send, reserved, volatile, logs, lost, suspended, astray, failures>>
  BY JobFacts DEF Create, Quota
<1>2. n \in 1..MaxTexts /\ job[j].tries + Again(job[j]) <= MaxAttempts
  BY <1>0, <1>1, JobFacts DEF Tells, Again, Running
<1>3. /\ r \in Job /\ r.step = "save" /\ r.tries = job[j].tries /\ r.stalled = job[j].stalled
      /\ r.saved = job[j].saved /\ r.held = n
  <2>. HIDE DEF n
  <2>1. n \in 0..MaxTexts
    BY <1>2, JobFacts
  <2>. QED  BY <2>1, JobFacts DEF Job, Running
<1>. HIDE DEF r
<1>4. Tells(r, n, j \in lost, BatchOf[j] \in Bypass)
  <2>1. r.tries < MaxAttempts /\ sent[j] <= r.tries + Again(r)
    BY <1>0, <1>1, <1>3 DEF Tells, Again, Running
  <2>2. j \notin lost => sent[j] = 0
    BY <1>0, <1>1, JobFacts DEF Tells
  <2>3. Again(r) \in {0, 1} /\ n <= r.tries + Again(r) + 1
    BY <1>3, <2>1, JobFacts DEF Again
  <2>. QED  BY <1>2, <1>3, <2>1, <2>2, <2>3 DEF Tells
<1>5. /\ sent' \in [Jobs -> 0..MaxTexts]
      /\ \A i \in Jobs : i # j => sent'[i] = sent[i] /\ (i \in lost' <=> i \in lost)
  BY <1>1, <1>2, JobFacts
<1>6. Tells(r, sent'[j], j \in lost', BatchOf[j] \in Bypass)
  BY <1>1, <1>4
<1>. HIDE DEF n
<1>. QED  BY <1>1, <1>3, <1>5, <1>6, JobFacts, JobOnly DEF OpenSteps, Quota

LEMMA SaveSidStep ==
  ASSUME IInv, NEW j \in Jobs, SaveSid(j)
  PROVE  IInv'
<1>0. job[j] \in Job /\ Tells(job[j], sent[j], j \in lost, BatchOf[j] \in Bypass)
  BY JobFacts
<1>. DEFINE r == [job[j] EXCEPT !.step = "log", !.saved = job[j].held]
<1>1. /\ job[j].step = "save" /\ job' = [job EXCEPT ![j] = r]
      /\ UNCHANGED <<month, send, reserved, volatile, sent, logs, lost, suspended, astray,
                     failures>>
  BY JobFacts DEF SaveSid, Quota, Texts
<1>2. /\ r \in Job /\ r.step = "log" /\ r.tries = job[j].tries /\ r.stalled = job[j].stalled
      /\ r.saved = job[j].held /\ r.held = job[j].held
  BY JobFacts DEF Job, Running
<1>. HIDE DEF r
<1>3. Tells(r, sent[j], j \in lost, BatchOf[j] \in Bypass)
  BY <1>0, <1>1, <1>2, JobFacts DEF Tells, Again, Running
<1>. QED  BY <1>1, <1>2, <1>3, JobFacts, JobOnly DEF OpenSteps, Quota

LEMMA RecordTextStep ==
  ASSUME IInv, NEW j \in Jobs, RecordText(j)
  PROVE  IInv'
<1>0. job[j] \in Job /\ Tells(job[j], sent[j], j \in lost, BatchOf[j] \in Bypass)
  BY JobFacts
<1>. DEFINE to == IF BatchOf[j] \in Bypass THEN "complete" ELSE "release"
<1>1. PICK r \in Job : /\ job' = [job EXCEPT ![j] = r] /\ r.step = to /\ job[j].step = "log"
                       /\ r.tries = job[j].tries /\ r.stalled = job[j].stalled
                       /\ r.saved = job[j].saved /\ r.held = job[j].held
  <2>1. to \in JobSteps
    BY DEF JobSteps, Running
  <2>. HIDE DEF to
  <2>2. JobStep(j, "log", to)
    BY DEF RecordText, to
  <2>. QED  BY <2>1, <2>2, StepOnly
<1>2. /\ UNCHANGED <<month, send, reserved, volatile, sent, lost, suspended, astray, failures>>
      /\ logs' \subseteq logs \union {<<<<j, job[j].held>>, month>>}
  BY DEF RecordText, Quota
<1>3. job[j].held \in 1..MaxTexts
  BY <1>0, <1>1, JobFacts DEF Tells
<1>4. logs' \subseteq (Jobs \X (1..MaxTexts)) \X Months
  BY <1>2, <1>3, JobFacts
<1>5. Tells(r, sent[j], j \in lost, BatchOf[j] \in Bypass)
  BY <1>0, <1>1, JobFacts DEF Tells, Again, Running
<1>. QED  BY <1>1, <1>2, <1>4, <1>5, JobFacts, JobOnly DEF OpenSteps, Quota

LEMMA ReleaseStep ==
  ASSUME IInv, NEW j \in Jobs, Release(j) \/ ReleaseFails(j)
  PROVE  IInv'
<1>0. job[j] \in Job /\ Tells(job[j], sent[j], j \in lost, BatchOf[j] \in Bypass)
  BY JobFacts
<1>1. PICK r \in Job : /\ job' = [job EXCEPT ![j] = r] /\ r.step = "complete"
                       /\ job[j].step = "release"
                       /\ r.tries = job[j].tries /\ r.stalled = job[j].stalled
                       /\ r.saved = job[j].saved /\ r.held = job[j].held
  BY StepOnly DEF Release, ReleaseFails, JobSteps, Running
<1>2. UNCHANGED <<month, send, sent, logs, lost, suspended>> /\ failures' \in 0..MaxFailures
  BY JobFacts, FailureFacts DEF Release, ReleaseFails, Texts, IInv
<1>3. Tells(r, sent[j], j \in lost, BatchOf[j] \in Bypass)
  BY <1>0, <1>1, JobFacts DEF Tells, Again, Running
<1>4. BatchOf[j] \notin Bypass
  BY <1>0, <1>1 DEF Tells
<1>5. CASE GiveBack(j)
  BY <1>1, <1>2, <1>3, <1>4, <1>5, JobFacts, JobCloses DEF OpenSteps
<1>6. CASE UNCHANGED <<Quota, astray>>
  BY <1>1, <1>2, <1>3, <1>6, JobFacts, JobOnly DEF OpenSteps
<1>. QED  BY <1>5, <1>6 DEF Release, ReleaseFails

LEMMA CompleteStep ==
  ASSUME IInv, NEW j \in Jobs, Complete(j)
  PROVE  IInv'
<1>0. job[j] \in Job /\ Tells(job[j], sent[j], j \in lost, BatchOf[j] \in Bypass)
  BY JobFacts
<1>1. PICK r \in Job : /\ job' = [job EXCEPT ![j] = r] /\ r.step = "logged"
                       /\ job[j].step = "complete"
                       /\ r.tries = job[j].tries /\ r.stalled = job[j].stalled
                       /\ r.saved = job[j].saved /\ r.held = job[j].held
  BY StepOnly DEF Complete, JobSteps, Ended
<1>2. UNCHANGED <<month, send, reserved, volatile, sent, logs, lost, suspended, astray, failures>>
  BY DEF Complete, Texts, Quota
<1>3. Tells(r, sent[j], j \in lost, BatchOf[j] \in Bypass)
  BY <1>0, <1>1, JobFacts DEF Tells, Again, Running
<1>. QED  BY <1>1, <1>2, <1>3, JobFacts, JobOnly DEF OpenSteps, Quota
-----------------------------------------------------------------------------
(* Attempts that fail and workers that die *)

LEMMA AttemptFacts ==
  ASSUME IInv, NEW j \in Jobs, AttemptFails(j), job[j].step \in {"create", "save", "log"}
  PROVE  \E r \in Job :
            /\ job' = [job EXCEPT ![j] = r]
            /\ r.step \in {"waiting", "failed"}
            /\ r.tries = job[j].tries + 1 /\ r.stalled = job[j].stalled
            /\ r.saved = job[j].saved /\ r.held = 0
            /\ r.step = "waiting" => r.tries < MaxAttempts
            /\ \/ UNCHANGED <<Quota, astray>>
               \/ GiveBack(j) /\ r.step = "failed" /\ BatchOf[j] \notin Bypass
<1>. DEFINE last == job[j].tries + 1 >= MaxAttempts
<1>. DEFINE to == IF last THEN "failed" ELSE "waiting"
<1>. DEFINE n == job[j].tries + 1
<1>. DEFINE r == [job[j] EXCEPT !.step = to, !.tries = n, !.held = 0]
<1>0. job[j] \in Job /\ job[j].tries \in Nat /\ job[j].tries < MaxAttempts
  BY JobFacts DEF Tells, Running
<1>1. job' = [job EXCEPT ![j] = r]
  BY JobFacts DEF AttemptFails
<1>2. n \in 0..MaxAttempts /\ 0 \in 0..MaxTexts /\ (to = "waiting" => n < MaxAttempts)
  BY <1>0, JobFacts
<1>3. to \in {"waiting", "failed"} /\ (last => to = "failed")
  OBVIOUS
<1>4. \/ UNCHANGED <<Quota, astray>>
      \/ GiveBack(j) /\ to = "failed" /\ BatchOf[j] \notin Bypass
  BY DEF AttemptFails
<1>5. n = job[j].tries + 1
  OBVIOUS
<1>. HIDE DEF n, to
<1>6. /\ r \in Job /\ r.step = to /\ r.tries = n /\ r.stalled = job[j].stalled
      /\ r.saved = job[j].saved /\ r.held = 0
  BY <1>0, <1>2, <1>3 DEF Job, Ended
<1>. HIDE DEF r
<1>. QED  BY <1>1, <1>2, <1>3, <1>4, <1>5, <1>6

(* An attempt that fails has sent no text, or one whose sid is lost. *)
LEMMA AttemptFailsStep ==
  ASSUME IInv, NEW j \in Jobs, CreateFails(j) \/ SaveSidFails(j) \/ RecordTextFails(j)
  PROVE  IInv'
<1>1. /\ AttemptFails(j) /\ Failure /\ job[j].step \in {"create", "save", "log"}
      /\ UNCHANGED <<month, send, logs, suspended>>
  BY DEF CreateFails, SaveSidFails, RecordTextFails, AttemptFails, Texts
<1>2. PICK r \in Job :
         /\ job' = [job EXCEPT ![j] = r]
         /\ r.step \in {"waiting", "failed"}
         /\ r.tries = job[j].tries + 1 /\ r.stalled = job[j].stalled
         /\ r.saved = job[j].saved /\ r.held = 0
         /\ r.step = "waiting" => r.tries < MaxAttempts
         /\ \/ UNCHANGED <<Quota, astray>>
            \/ GiveBack(j) /\ r.step = "failed" /\ BatchOf[j] \notin Bypass
  BY <1>1, AttemptFacts
<1>3. /\ job[j] \in Job /\ Tells(job[j], sent[j], j \in lost, BatchOf[j] \in Bypass)
      /\ job[j].tries \in Nat /\ sent[j] \in Nat /\ Again(job[j]) \in {0, 1}
      /\ Again(r) = Again(job[j])
  BY <1>2, JobFacts DEF Again
<1>4. PICK n \in {sent[j], sent[j] + 1} :
         /\ sent' = [sent EXCEPT ![j] = n]
         /\ n = sent[j] \/ job[j].step = "create"
         /\ lost' \in {lost, lost \union {j}}
         /\ n = sent[j] + 1 \/ job[j].step = "save" => j \in lost'
  <2>1. CASE CreateFails(j)
    BY <2>1, JobFacts DEF CreateFails
  <2>2. CASE SaveSidFails(j)
    BY <2>2, JobFacts DEF SaveSidFails
  <2>3. CASE RecordTextFails(j)
    BY <2>3, JobFacts DEF RecordTextFails, Texts
  <2>. QED  BY <2>1, <2>2, <2>3
<1>5. n \in 0..MaxTexts
  <2>1. CASE n = sent[j]
    BY <2>1, JobFacts
  <2>2. CASE job[j].step = "create"
    <3>1. sent[j] <= job[j].tries + Again(job[j]) /\ job[j].tries < MaxAttempts
      BY <1>3, <2>2 DEF Tells, Running
    <3>. QED  BY <1>3, <3>1, JobFacts
  <2>. QED  BY <1>4, <2>1, <2>2
<1>6. Tells(r, n, j \in lost', BatchOf[j] \in Bypass)
  <2>1. n <= r.tries + Again(r)
    <3>1. CASE job[j].step = "create"
      BY <1>2, <1>3, <1>4, <3>1 DEF Tells
    <3>2. CASE job[j].step # "create"
      BY <1>2, <1>3, <1>4, <3>2 DEF Tells
    <3>. QED  BY <3>1, <3>2
  <2>2. ASSUME j \notin lost'
        PROVE  n <= 1 /\ (n = 1 => r.saved # 0)
    BY <1>1, <1>2, <1>3, <1>4, <2>2 DEF Tells
  <2>. QED  BY <1>2, <1>3, <1>5, <2>1, <2>2, JobFacts DEF Tells, Running
<1>7. /\ sent' \in [Jobs -> 0..MaxTexts] /\ lost' \subseteq Jobs /\ sent'[j] = n
      /\ \A i \in Jobs : i # j => sent'[i] = sent[i] /\ (i \in lost' <=> i \in lost)
  BY <1>4, <1>5, JobFacts
<1>8. Tells(r, sent'[j], j \in lost', BatchOf[j] \in Bypass)
  BY <1>6, <1>7
<1>9. failures' \in 0..MaxFailures
  BY <1>1, FailureFacts DEF IInv
<1>10. CASE UNCHANGED <<Quota, astray>>
  BY <1>1, <1>2, <1>7, <1>8, <1>9, <1>10, JobFacts, JobOnly DEF OpenSteps
<1>11. CASE GiveBack(j) /\ r.step = "failed" /\ BatchOf[j] \notin Bypass
  BY <1>1, <1>2, <1>7, <1>8, <1>9, <1>11, JobFacts, JobCloses DEF OpenSteps
<1>. QED  BY <1>2, <1>10, <1>11

(* The reservation of a worker that dies after it gave it back has gone    *)
(* astray; before that its job was open.                                   *)
LEMMA WorkerDiesStep ==
  ASSUME IInv, NEW j \in Jobs, WorkerDies(j)
  PROVE  IInv'
<1>. DEFINE to == IF job[j].stalled THEN "failed" ELSE "waiting"
<1>. DEFINE r == [job[j] EXCEPT !.step = to, !.stalled = TRUE, !.held = 0]
<1>0. /\ job[j] \in Job /\ Tells(job[j], sent[j], j \in lost, BatchOf[j] \in Bypass)
      /\ job[j].tries \in Nat /\ sent[j] \in Nat /\ job[j].stalled \in BOOLEAN
  BY JobFacts
<1>1. /\ job[j].step \in Running /\ job' = [job EXCEPT ![j] = r]
      /\ UNCHANGED <<month, send, reserved, volatile, sent, logs, suspended>>
      /\ failures' \in 0..MaxFailures
  BY JobFacts, FailureFacts DEF WorkerDies, Quota, IInv
<1>2. /\ lost' = IF job[j].step = "save" THEN lost \union {j} ELSE lost
      /\ astray' = IF job[j].step = "complete" /\ ~job[j].stalled
                   THEN [astray EXCEPT ![send[BatchOf[j]].month] = @ + 1] ELSE astray
  BY DEF WorkerDies
<1>3. to \in {"failed", "waiting"} /\ (to = "waiting" <=> ~job[j].stalled)
  OBVIOUS
<1>. HIDE DEF to
<1>4. /\ r \in Job /\ r.step = to /\ r.tries = job[j].tries /\ r.stalled = TRUE
      /\ r.saved = job[j].saved /\ r.held = 0
  <2>1. to \in {"none", "waiting"} \union Running \union Ended /\ 0 \in 0..MaxTexts
    BY <1>3, JobFacts DEF Ended
  <2>. DEFINE yes == TRUE
  <2>2. yes \in BOOLEAN /\ yes = TRUE
    OBVIOUS
  <2>3. r = [job[j] EXCEPT !.step = to, !.stalled = yes, !.held = 0]
    OBVIOUS
  <2>. HIDE DEF r, yes
  <2>4. /\ r \in Job /\ r.step = to /\ r.tries = job[j].tries /\ r.stalled = yes
        /\ r.saved = job[j].saved /\ r.held = 0
    BY <1>0, <2>1, <2>2, <2>3 DEF Job
  <2>. QED  BY <2>2, <2>4
<1>. HIDE DEF r
<1>5. Tells(r, sent[j], j \in lost', BatchOf[j] \in Bypass)
  <2>1. /\ r.tries < MaxAttempts /\ Again(r) = 1 /\ Again(job[j]) \in {0, 1}
        /\ sent[j] <= job[j].tries + Again(job[j]) + 1
    BY <1>0, <1>1, <1>4 DEF Tells, Again
  <2>2. to = "waiting" => Again(job[j]) = 0
    BY <1>3 DEF Again
  <2>3. sent[j] <= r.tries + Again(r) + 1 /\ (to = "waiting" => sent[j] <= r.tries + Again(r))
    BY <1>0, <1>4, <2>1, <2>2
  <2>4. ASSUME j \notin lost' PROVE sent[j] <= 1 /\ (sent[j] = 1 => r.saved # 0)
    BY <1>0, <1>1, <1>2, <1>4, <2>4 DEF Tells
  <2>. QED  BY <1>3, <1>4, <2>1, <2>3, <2>4 DEF Tells, Running
<1>6. /\ lost' \subseteq Jobs
      /\ \A i \in Jobs : i # j => sent'[i] = sent[i] /\ (i \in lost' <=> i \in lost)
  BY <1>1, <1>2, JobFacts
<1>7. /\ sent' \in [Jobs -> 0..MaxTexts] /\ sent'[j] = sent[j]
      /\ job[j].step # "none" /\ r.step # "none"
  BY <1>1, <1>3, <1>4, JobFacts DEF Running
<1>8. CASE job[j].step # "complete"
  <2>1. job[j].step \in OpenSteps /\ astray' = astray
    BY <1>1, <1>2, <1>8, JobFacts DEF Running, OpenSteps
  <2>. QED  BY <1>1, <1>4, <1>5, <1>6, <1>7, <2>1, JobFacts, JobOnly DEF Quota
<1>9. CASE job[j].step = "complete"
  <2>0. PICK k : k = send[BatchOf[j]].month
    OBVIOUS
  <2>1. /\ job' \in [Jobs -> Job] /\ Queued' /\ JobsTell'
        /\ r.step \notin OpenSteps => \A m \in Months : Open(m)' \subseteq Open(m) \ {j}
        /\ \A m \in Months : Open(m)' \subseteq IF m = k THEN Open(m) \union {j} ELSE Open(m)
    BY <1>1, <1>4, <1>5, <1>6, <1>7, <2>0, JobMove
  <2>2. /\ TypeOK /\ k \in Months /\ astray' \in [Months -> Nat]
        /\ \A m \in Months : Room(m)' >= Room(m)
        /\ ~job[j].stalled => Room(k)' >= Room(k) + 1
    <3>1. TypeOK /\ k \in Months /\ astray \in [Months -> Nat] /\ reserved \in [Months -> Int]
      BY <2>0, BatchesAssumption DEF IInv, TypeOK
    <3>2. astray' = IF ~job[j].stalled THEN [astray EXCEPT ![k] = @ + 1] ELSE astray
      BY <1>2, <1>9, <2>0
    <3>. QED  BY <1>1, <3>1, <3>2 DEF Room
  <2>3. TypeOK'
    BY <1>1, <1>6, <1>7, <2>1, <2>2 DEF TypeOK
  <2>4. job[j].stalled => r.step \notin OpenSteps
    BY <1>3, <1>4 DEF OpenSteps
  <2>5. ASSUME NEW m \in Months PROVE Room(m)' >= Cardinality(Open(m)')
    <3>0. Room(m) >= Cardinality(Open(m))
      BY DEF IInv, OpenIsReserved, Room
    <3>1. CASE m = k /\ ~job[j].stalled
      <4>1. Open(m)' \subseteq Open(m) \union {j} /\ Room(m)' >= Room(m) + 1
        BY <2>1, <2>2, <3>1
      <4>. QED  BY <2>2, <2>3, <3>0, <4>1, Opens
    <3>2. CASE ~(m = k /\ ~job[j].stalled)
      <4>1. Open(m)' \subseteq Open(m) /\ Room(m)' >= Room(m)
        BY <2>1, <2>2, <2>4, <3>2
      <4>. QED  BY <2>2, <2>3, <3>0, <4>1, Shrinks
    <3>. QED  BY <3>1, <3>2
  <2>6. OpenIsReserved'
    BY <2>5 DEF OpenIsReserved, Room, Months
  <2>. QED  BY <2>1, <2>3, <2>6 DEF IInv
<1>. QED  BY <1>8, <1>9

LEMMA ExpireStep ==
  ASSUME IInv, NEW m \in Months, Expire(m)
  PROVE  IInv'
<1>1. /\ TypeOK /\ UNCHANGED <<month, send, job, sent, logs, lost, suspended>>
      /\ failures' \in 0..MaxFailures
      /\ reserved' = [reserved EXCEPT ![m] = 0] /\ volatile' = [volatile EXCEPT ![m] = FALSE]
      /\ astray' = IF reserved[m] > 0 THEN [astray EXCEPT ![m] = @ + reserved[m]] ELSE astray
  BY FailureFacts DEF IInv, Expire, Texts
<1>2. /\ reserved' \in [Months -> Int] /\ astray' \in [Months -> Nat]
      /\ \A n \in Months : Room(n)' >= Room(n)
  BY <1>1 DEF TypeOK, Room
<1>3. volatile' \in [Months -> BOOLEAN]
  BY <1>1 DEF TypeOK
<1>4. TypeOK'
  BY <1>1, <1>2, <1>3 DEF TypeOK
<1>5. \A n \in Months : Open(n)' \subseteq Open(n)
  BY <1>1 DEF Open
<1>. QED  BY <1>1, <1>2, <1>4, <1>5, AllShrink DEF IInv, Queued, JobsTell

(* Neither the clock nor the tenant's status touches a counter. *)
LEMMA ExternalStep ==
  ASSUME IInv, SetTenantStatus \/ NextMonth
  PROVE  IInv'
<1>1. /\ UNCHANGED <<send, reserved, volatile, job, sent, logs, lost, astray>>
      /\ failures' \in 0..MaxFailures /\ suspended' \in BOOLEAN /\ month' \in Months
  <2>1. CASE SetTenantStatus
    BY <2>1, FailureFacts DEF IInv, SetTenantStatus, Texts, Quota, TypeOK
  <2>2. CASE NextMonth
    <3>1. /\ month \in Months /\ month < MaxMonth /\ month' = month + 1
          /\ UNCHANGED <<send, reserved, volatile, job, sent, logs, lost, astray>>
          /\ UNCHANGED <<suspended, failures>> /\ suspended \in BOOLEAN
          /\ failures \in 0..MaxFailures
      BY <2>2 DEF IInv, NextMonth, Texts, Quota, TypeOK
    <3>. QED  BY <3>1, BoundsAssumption DEF Months
  <2>. QED  BY <2>1, <2>2
<1>2. TypeOK'
  BY <1>1 DEF IInv, TypeOK
<1>3. \A m \in Months : Open(m)' \subseteq Open(m) /\ Room(m)' >= Room(m)
  BY <1>1 DEF Open, Room, IInv, TypeOK
<1>. QED  BY <1>1, <1>2, <1>3, AllShrink DEF IInv, Queued, JobsTell

-----------------------------------------------------------------------------
LEMMA InitInv == Init => IInv
<1>. SUFFICES ASSUME Init PROVE IInv
  OBVIOUS
<1>1. \A j \in Jobs : job[j] = NoJob /\ sent[j] = 0
  BY DEF Init
<1>2. 0 \in 0..MaxAttempts /\ 0 \in 0..MaxTexts /\ 0 \in 0..MaxFailures
  BY BoundsAssumption DEF MaxTexts
<1>3. NoJob \in Job /\ NoJob.step = "none" /\ NoJob.tries = 0 /\ NoJob.stalled = FALSE
  BY <1>2 DEF NoJob, Job
<1>4. TypeOK
  <2>1. /\ send \in [Batches -> [step : {"new", "read", "reserved", "queued", "blocked",
                                         "failed"}, usage : Nat, month : Months]]
        /\ reserved \in [Months -> Int] /\ failures \in 0..MaxFailures /\ month \in Months
        /\ astray \in [Months -> Nat]
    BY <1>2, BoundsAssumption DEF Init, Months
  <2>2. job \in [Jobs -> Job] /\ sent \in [Jobs -> 0..MaxTexts]
    BY <1>2, <1>3 DEF Init
  <2>3. volatile \in [Months -> BOOLEAN] /\ suspended \in BOOLEAN
    BY DEF Init
  <2>4. logs \subseteq (Jobs \X (1..MaxTexts)) \X Months /\ lost \subseteq Jobs
    BY DEF Init
  <2>. QED  BY <2>1, <2>2, <2>3, <2>4 DEF TypeOK
<1>5. Queued
  BY <1>1, <1>3 DEF Queued
<1>6. JobsTell
  BY <1>1, <1>3, <1>2 DEF JobsTell, Tells, Again, Running
<1>7. \A m \in Months : Open(m) = {} /\ reserved[m] = 0 /\ astray[m] = 0
  BY <1>1, <1>3, BatchesAssumption DEF Init, Open
<1>8. OpenIsReserved
  BY <1>7, FS_EmptySet DEF OpenIsReserved
<1>. QED  BY <1>4, <1>5, <1>6, <1>8 DEF IInv

LEMMA BatchStep ==
  ASSUME IInv, NEW b \in Batches,
         Sender(b) \/ ReserveFails(b) \/ EnqueueFails(b) \/ SenderDies(b)
  PROVE  IInv'
<1>1. ASSUME Block(b) PROVE IInv'
  <2>1. /\ SendStep(b, "read", "blocked") /\ failures' = failures
        /\ UNCHANGED <<month, Quota, job, Texts, suspended, astray>>
    BY <1>1 DEF Block
  <2>. QED  BY <2>1, SendOnly DEF IInv, TypeOK
<1>2. ASSUME SenderDies(b) PROVE IInv'
  <2>1. /\ SendStep(b, "reserved", "failed") /\ failures' \in 0..MaxFailures
        /\ UNCHANGED <<month, Quota, job, Texts, suspended, astray>>
    BY <1>2, FailureFacts DEF SenderDies, IInv
  <2>. QED  BY <2>1, SendOnly
<1>. QED  BY <1>1, <1>2, ReadUsageStep, ReservedStep, EnqueueStep, EnqueueFailsStep DEF Sender

LEMMA AttemptStep ==
  ASSUME IInv, NEW j \in Jobs,
         \/ Worker(j) \/ TakeUnread(j) \/ CreateFails(j) \/ SaveSidFails(j)
         \/ RecordTextFails(j) \/ ReleaseFails(j) \/ WorkerDies(j)
  PROVE  IInv'
BY TakeStep, CreateStep, SaveSidStep, RecordTextStep, ReleaseStep, CompleteStep,
   AttemptFailsStep, WorkerDiesStep DEF Worker

LEMMA NextInv == IInv /\ [Next]_vars => IInv'
<1>. SUFFICES ASSUME IInv, [Next]_vars PROVE IInv'
  OBVIOUS
<1>. QED  BY Same, BatchStep, AttemptStep, ExpireStep, ExternalStep DEF Next

THEOREM SpecIInv == Spec => []IInv
<1>. QED  BY InitInv, NextInv, PTL DEF Spec

(* A month's counter, with what it has lost to an error of Redis, its      *)
(* expiry, deaths after giving back and jobs of other months, covers every *)
(* message reserved in the month that is still to be recorded.             *)
THEOREM SpecSmsInv == Spec => []SmsInv
<1>1. IInv => SmsInv
  BY DEF IInv, SmsInv
<1>. QED  BY <1>1, SpecIInv, PTL

(* Two texts to one recipient: only if the sid of one was lost. *)
THEOREM SpecDuplicateNeedsLostSid == Spec => []DuplicateNeedsLostSid
<1>1. ASSUME IInv, NEW j \in Jobs, sent[j] > 1 PROVE j \in lost
  BY <1>1, JobFacts DEF Tells
<1>2. IInv => DuplicateNeedsLostSid
  BY <1>1 DEF DuplicateNeedsLostSid
<1>. QED  BY <1>2, SpecIInv, PTL

-----------------------------------------------------------------------------
(* ChatIngest.                                                             *)

(* The event of a message is in the log; a handler is about to write it.   *)
Known(m) == logged[m].known
Writing(w, m) == h[w].msg = m /\ h[w].step \in {"exists", "insert"}

(* Whatever says that a message was stored speaks of an event in the log:  *)
(* its flag, a handler past the append, one that has found the flag set,   *)
(* and the device.                                                         *)
FlagIsKnown == \A m \in Messages : logged[m].applied => Known(m)
HandlerKnows ==
    \A w \in Workers :
        /\ h[w].step \in {"exists", "insert", "ok"} => Known(h[w].msg)
        /\ h[w].step = "append" /\ h[w].applied => Known(h[w].msg)
SyncedIsKnown == \A m \in Messages : outbox[m] = "SYNCED" => Known(m)

(* An event in the log has its message, or a handler is about to write it. *)
Written ==
    \A m \in Messages : Known(m) => m \in chat \/ m \in cut \/ \E w \in Workers : Writing(w, m)

ChatIInv == ChatTypeOK /\ FlagIsKnown /\ HandlerKnows /\ SyncedIsKnown /\ Written

-----------------------------------------------------------------------------
(* A fresh handler speaks of its message, an idle one of any. *)
LEMMA ChatHandlerType ==
    /\ IdleHandler \in Handler /\ IdleHandler.step = "idle"
    /\ \A m \in Messages : Fresh(m) \in Handler /\ Fresh(m).step = "authorise"
<1>1. (CHOOSE m \in Messages : TRUE) \in Messages
  BY MessagesAssumption
<1>2. \A m \in Messages : Fresh(m) \in Handler /\ Fresh(m).step = "authorise"
  BY DEF Fresh, Handler, HandlerSteps
<1>. QED  BY <1>1, <1>2 DEF IdleHandler, Fresh, Handler, HandlerSteps

(* What the handlers look like after one of them has moved. *)
LEMMA ChatGotoFacts ==
    ASSUME ChatTypeOK, NEW w \in Workers, NEW step \in HandlerSteps, Goto(w, step)
    PROVE  /\ h' \in [Workers -> Handler]
           /\ h'[w].step = step /\ h'[w].msg = h[w].msg /\ h'[w].applied = h[w].applied
           /\ \A v \in Workers : v # w => h'[v] = h[v]
<1>1. h \in [Workers -> Handler] /\ h' = [h EXCEPT ![w] = [h[w] EXCEPT !.step = step]]
  BY DEF ChatTypeOK, Goto
<1>2. h[w] \in Handler
  BY <1>1
<1>3. /\ [h[w] EXCEPT !.step = step] \in Handler
      /\ [h[w] EXCEPT !.step = step].step = step
      /\ [h[w] EXCEPT !.step = step].msg = h[w].msg
      /\ [h[w] EXCEPT !.step = step].applied = h[w].applied
  BY <1>2 DEF Handler
<1>. QED  BY <1>1, <1>3

(* What they look like after one of them has got a new record. *)
LEMMA ChatBecomeFacts ==
    ASSUME ChatTypeOK, NEW w \in Workers, NEW r \in Handler, h' = [h EXCEPT ![w] = r]
    PROVE  /\ h' \in [Workers -> Handler] /\ h'[w] = r
           /\ \A v \in Workers : v # w => h'[v] = h[v]
BY DEF ChatTypeOK

(* Steps that leave the log and the messages alone: no handler passes to   *)
(* "ok", and none gives up writing.                                        *)
LEMMA ChatFrame ==
    ASSUME ChatIInv, ChatTypeOK', UNCHANGED <<logged, chat>>, cut \subseteq cut',
           \A m \in Messages : outbox'[m] = "SYNCED" => Known(m),
           \A v \in Workers : \/ h'[v] = h[v]
                             \/ /\ h'[v].step \in {"exists", "insert", "ok"} => Known(h'[v].msg)
                                /\ h'[v].step = "append" /\ h'[v].applied => Known(h'[v].msg),
           \A v \in Workers, m \in Messages :
               Writing(v, m) => \/ m \in chat \/ m \in cut'
                                \/ h'[v].msg = m /\ h'[v].step \in {"exists", "insert"}
    PROVE  ChatIInv'
<1>1. \A m \in Messages : Known(m)' <=> Known(m)
  BY DEF Known
<1>2. FlagIsKnown' /\ SyncedIsKnown'
  BY DEF ChatIInv, FlagIsKnown, SyncedIsKnown, Known
<1>3. HandlerKnows'
  BY DEF ChatIInv, HandlerKnows, Known
<1>4. Written'
  BY DEF ChatIInv, Written, Known, Writing
<1>. QED  BY <1>2, <1>3, <1>4 DEF ChatIInv

(* Setbacks stay below their bound. *)
LEMMA SetbackType == Setback => setbacks' \in 0..MaxSetbacks \/ setbacks \notin 0..MaxSetbacks
BY WorkersAssumption DEF Setback

-----------------------------------------------------------------------------
(* At first no event is known and no handler runs. *)
LEMMA ChatInitIInv == ChatInit => ChatIInv
<1> SUFFICES ASSUME ChatInit PROVE ChatIInv
  OBVIOUS
<1>1. NoEvent \in Event /\ NoEvent.known = FALSE /\ NoEvent.applied = FALSE
  BY DEF NoEvent, Event
<1>2. ChatTypeOK
  BY <1>1, ChatHandlerType, WorkersAssumption DEF ChatInit, ChatTypeOK
<1>3. FlagIsKnown /\ SyncedIsKnown /\ Written
  BY <1>1 DEF ChatInit, FlagIsKnown, SyncedIsKnown, Written, Known
<1>4. HandlerKnows
  BY ChatHandlerType DEF ChatInit, HandlerKnows
<1>. QED  BY <1>2, <1>3, <1>4 DEF ChatIInv

(* The device's steps, the members' and those of a handler that only reads.*)
LEMMA ChatDeviceStep ==
    ASSUME ChatIInv,
           Push \/ GiveUp \/ BreakUnknown \/ RetryFailed
             \/ \E u \in Others \union {Author} : Join(u) \/ Leave(u)
    PROVE  ChatIInv'
<1>0. ChatTypeOK
  BY DEF ChatIInv
<1>1. CASE Push
  <2>1. PICK m \in Messages, w \in Workers :
           At(w, "idle") /\ h' = [h EXCEPT ![w] = Fresh(m)] /\ awaited' = w
    BY <1>1 DEF Push
  <2>2. /\ h' \in [Workers -> Handler] /\ h'[w] = Fresh(m)
        /\ \A v \in Workers : v # w => h'[v] = h[v]
    BY <1>0, <2>1, ChatHandlerType, ChatBecomeFacts
  <2>3. ChatTypeOK'
    BY <1>0, <1>1, <2>1, <2>2 DEF Push, ChatTypeOK
  <2>4. h'[w].step = "authorise" /\ h[w].step = "idle"
    BY <2>1, <2>2, ChatHandlerType DEF At
  <2>. QED  BY <1>1, <2>2, <2>3, <2>4, ChatFrame DEF Push, Writing, ChatIInv, SyncedIsKnown
<1>2. CASE GiveUp
  <2>1. ChatTypeOK'
    BY <1>0, <1>2, SetbackType DEF GiveUp, ChatTypeOK
  <2>. QED  BY <1>2, <2>1, ChatFrame DEF GiveUp, Writing, ChatIInv, SyncedIsKnown
<1>3. CASE RetryFailed
  <2>1. ChatTypeOK'
    BY <1>0, <1>3, SetbackType DEF RetryFailed, ChatTypeOK
  <2>2. \A m \in Messages : outbox'[m] = "SYNCED" => outbox[m] = "SYNCED"
    BY <1>3 DEF RetryFailed
  <2>. QED  BY <1>3, <2>1, <2>2, ChatFrame DEF RetryFailed, Writing, ChatIInv, SyncedIsKnown
<1>4. ASSUME NEW u \in Others \union {Author}, Join(u) \/ Leave(u) PROVE ChatIInv'
  <2>1. ChatTypeOK'
    BY <1>0, <1>4 DEF Join, Leave, ChatTypeOK
  <2>. QED  BY <1>4, <2>1, ChatFrame DEF Join, Leave, Writing, ChatIInv, SyncedIsKnown
<1>5. CASE BreakUnknown
  <2>1. PICK v : outbox' = [outbox EXCEPT ![v] = "FAILED"] /\ Setback /\ awaited' = Nobody
    BY <1>5 DEF BreakUnknown, AfterRefusal
  <2>2. outbox' \in [Messages -> {"PENDING", "SYNCED", "FAILED"}]
    BY <1>0, <2>1 DEF ChatTypeOK
  <2>3. ChatTypeOK'
    BY <1>0, <1>5, <2>1, <2>2, SetbackType DEF BreakUnknown, ChatTypeOK
  <2>4. \A m \in Messages : outbox'[m] = "SYNCED" => outbox[m] = "SYNCED"
    BY <1>0, <2>1 DEF ChatTypeOK
  <2>. QED  BY <1>5, <2>3, <2>4, ChatFrame DEF BreakUnknown, Writing, ChatIInv, SyncedIsKnown
<1>. QED  BY <1>1, <1>2, <1>3, <1>4, <1>5

(* The steps of a handler that read. *)
LEMMA ChatReadStep ==
    ASSUME ChatIInv, NEW w \in Workers, Authorise(w) \/ Enrich(w) \/ Precheck(w) \/ LookUp(w)
    PROVE  ChatIInv'
<1>0. ChatTypeOK /\ h \in [Workers -> Handler] /\ h[w] \in Handler
  BY DEF ChatIInv, ChatTypeOK
<1>9. ASSUME UNCHANGED setbacks \/ Setback PROVE setbacks' \in 0..MaxSetbacks
  BY <1>0, <1>9, SetbackType DEF ChatTypeOK
<1>1. CASE Authorise(w)
  <2>1. PICK step \in {"enrich", "refused"} : At(w, "authorise") /\ Goto(w, step)
    BY <1>1 DEF Authorise
  <2>2. /\ h' \in [Workers -> Handler] /\ h'[w].step = step
        /\ \A v \in Workers : v # w => h'[v] = h[v]
    BY <1>0, <2>1, ChatGotoFacts DEF HandlerSteps
  <2>3. ChatTypeOK'
    BY <1>0, <1>1, <1>9, <2>2 DEF Authorise, ChatTypeOK
  <2>. QED  BY <1>1, <2>1, <2>2, <2>3, ChatFrame DEF Authorise, At, Writing, ChatIInv, SyncedIsKnown
<1>2. CASE Enrich(w)
  <2>1. PICK found \in {members, {}} :
           h' = [h EXCEPT ![w] = [h[w] EXCEPT !.step = "precheck", !.to = found]]
    BY <1>0, <1>2 DEF Enrich
  <2>2. /\ [h[w] EXCEPT !.step = "precheck", !.to = found] \in Handler
        /\ [h[w] EXCEPT !.step = "precheck", !.to = found].step = "precheck"
    BY <1>0 DEF Handler, HandlerSteps, ChatTypeOK
  <2>3. /\ h' \in [Workers -> Handler] /\ h'[w].step = "precheck"
        /\ \A v \in Workers : v # w => h'[v] = h[v]
    BY <1>0, <2>1, <2>2, ChatBecomeFacts
  <2>4. ChatTypeOK'
    BY <1>0, <1>2, <1>9, <2>3 DEF Enrich, ChatTypeOK
  <2>. QED  BY <1>2, <2>3, <2>4, ChatFrame DEF Enrich, At, Writing, ChatIInv, SyncedIsKnown
<1>3. CASE Precheck(w)
  <2>1. PICK a \in {logged[h[w].msg].applied, FALSE} :
           h' = [h EXCEPT ![w] = [h[w] EXCEPT !.step = "append", !.applied = a]]
    BY <1>0, <1>3 DEF Precheck
  <2>. DEFINE r == [h[w] EXCEPT !.step = "append", !.applied = a]
  <2>7. h' = [h EXCEPT ![w] = r]
    BY <2>1
  <2>2. h[w].msg \in Messages /\ logged[h[w].msg].applied \in BOOLEAN
    BY <1>0 DEF Handler, ChatTypeOK, Event
  <2>3. /\ r \in Handler /\ r.step = "append" /\ r.msg = h[w].msg
        /\ r.applied = a
    BY <1>0, <2>2 DEF Handler, HandlerSteps
  <2>. HIDE DEF r
  <2>4. h' \in [Workers -> Handler] /\ h'[w] = r /\ \A v \in Workers : v # w => h'[v] = h[v]
    BY <1>0, <2>3, <2>7, ChatBecomeFacts
  <2>5. ChatTypeOK'
    BY <1>0, <1>3, <1>9, <2>4 DEF Precheck, ChatTypeOK
  <2>6. h'[w].applied => Known(h'[w].msg)
    BY <2>2, <2>3, <2>4 DEF ChatIInv, FlagIsKnown
  <2>. QED  BY <1>3, <2>3, <2>4, <2>5, <2>6, ChatFrame
           DEF Precheck, At, Writing, ChatIInv, SyncedIsKnown
<1>4. CASE LookUp(w)
  <2>1. PICK step \in {"ok", "insert"} :
           /\ At(w, "exists") /\ Goto(w, step) /\ (step = "ok" => h[w].msg \in chat)
    BY <1>4 DEF LookUp
  <2>2. /\ h' \in [Workers -> Handler] /\ h'[w].step = step /\ h'[w].msg = h[w].msg
        /\ \A v \in Workers : v # w => h'[v] = h[v]
    BY <1>0, <2>1, ChatGotoFacts DEF HandlerSteps
  <2>3. ChatTypeOK'
    BY <1>0, <1>4, <1>9, <2>2 DEF LookUp, ChatTypeOK
  <2>. QED  BY <1>4, <2>1, <2>2, <2>3, ChatFrame
           DEF LookUp, At, Writing, ChatIInv, SyncedIsKnown, HandlerKnows
<1>. QED  BY <1>1, <1>2, <1>3, <1>4

(* The append: the event becomes known, and whoever made it known goes on  *)
(* to write the message.                                                   *)
LEMMA ChatAppendStep ==
    ASSUME ChatIInv, NEW w \in Workers, AppendEvent(w)
    PROVE  ChatIInv'
<1>0. /\ ChatTypeOK /\ h \in [Workers -> Handler] /\ h[w] \in Handler /\ h[w].msg \in Messages
      /\ logged \in [Messages -> Event] /\ h[w].to \in SUBSET (Others \union {Author})
  BY DEF ChatIInv, ChatTypeOK, Handler
<1>1. PICK m \in Messages : m = h[w].msg
  BY <1>0
<1>. DEFINE e == [known |-> TRUE, to |-> h[w].to, applied |-> TRUE]
<1>2. e \in Event /\ e.known = TRUE /\ e.to = h[w].to
  BY <1>0 DEF Event
<1>3. PICK step \in {"refused", "ok", "exists"} :
         /\ At(w, "append") /\ Goto(w, step)
         /\ UNCHANGED <<members, chat, outbox, awaited, cut, setbacks>>
         /\ logged' = IF Known(m) THEN logged ELSE [logged EXCEPT ![m] = e]
         /\ logged'[m].to = h[w].to => step = IF h[w].applied THEN "ok" ELSE "exists"
  BY <1>1 DEF AppendEvent, Known
<1>. HIDE DEF e
<1>4. /\ h' \in [Workers -> Handler] /\ h'[w].step = step /\ h'[w].msg = m
      /\ \A v \in Workers : v # w => h'[v] = h[v]
  BY <1>0, <1>1, <1>3, ChatGotoFacts DEF HandlerSteps
<1>5. /\ logged' \in [Messages -> Event] /\ logged'[m].known
      /\ \A n \in Messages : n # m => logged'[n] = logged[n]
      /\ Known(m) => logged' = logged
  BY <1>0, <1>2, <1>3 DEF Known
<1>6. ChatTypeOK'
  BY <1>0, <1>3, <1>4, <1>5 DEF ChatTypeOK
<1>7. \A n \in Messages : Known(n) => Known(n)'
  BY <1>5 DEF Known
<1>8. FlagIsKnown' /\ SyncedIsKnown'
  BY <1>3, <1>5 DEF ChatIInv, FlagIsKnown, SyncedIsKnown, Known
<1>9. ASSUME NEW v \in Workers
      PROVE  /\ h'[v].step \in {"exists", "insert", "ok"} => logged'[h'[v].msg].known
             /\ h'[v].step = "append" /\ h'[v].applied => logged'[h'[v].msg].known
  <2>1. CASE v = w
    BY <1>3, <1>4, <1>5, <2>1 DEF Known
  <2>2. CASE v # w
    <3>1. h'[v] = h[v] /\ h[v] \in Handler
      BY <1>0, <1>4, <2>2
    <3>2. PICK n \in Messages : n = h[v].msg
      BY <3>1 DEF Handler
    <3>3. h'[v].msg = n
      BY <3>1, <3>2
    <3>4. /\ h[v].step \in {"exists", "insert", "ok"} => Known(n)
          /\ h[v].step = "append" /\ h[v].applied => Known(n)
      BY <3>2 DEF ChatIInv, HandlerKnows
    <3>. QED  BY <1>7, <3>1, <3>3, <3>4 DEF Known
  <2>. QED  BY <2>1, <2>2
<1>10. HandlerKnows'
  BY <1>9 DEF HandlerKnows, Known
<1>11. ASSUME NEW n \in Messages, Known(n)'
       PROVE  n \in chat' \/ n \in cut' \/ \E v \in Workers : Writing(v, n)'
  <2>1. CASE Known(n)
    <3>1. ASSUME NEW v \in Workers, Writing(v, n) PROVE Writing(v, n)'
      BY <1>3, <1>4, <3>1 DEF Writing, At
    <3>. QED  BY <1>3, <2>1, <3>1 DEF ChatIInv, Written
  <2>2. CASE ~Known(n)
    <3>1. n = m
      BY <1>5, <1>11, <2>2 DEF Known
    <3>2. logged' = [logged EXCEPT ![m] = e]
      BY <1>3, <2>2, <3>1
    <3>3. logged'[m].to = h[w].to
      BY <1>0, <1>2, <3>2
    <3>4. ~h[w].applied
      BY <1>1, <1>3, <2>2, <3>1 DEF ChatIInv, HandlerKnows, At
    <3>5. Writing(w, n)'
      BY <1>3, <1>4, <3>1, <3>3, <3>4 DEF Writing
    <3>. QED  BY <3>5
  <2>. QED  BY <2>1, <2>2
<1>12. Written'
  BY <1>11 DEF Written
<1>. QED  BY <1>6, <1>8, <1>10, <1>12 DEF ChatIInv

(* The insert writes the message or counts as cut. *)
LEMMA ChatInsertStep ==
    ASSUME ChatIInv, NEW w \in Workers, InsertMessage(w)
    PROVE  ChatIInv'
<1>0. ChatTypeOK /\ h \in [Workers -> Handler] /\ h[w] \in Handler /\ h[w].msg \in Messages
  BY DEF ChatIInv, ChatTypeOK, Handler
<1>1. /\ At(w, "insert") /\ Goto(w, "ok") /\ UNCHANGED <<logged, outbox>>
      /\ chat \subseteq chat' /\ cut \subseteq cut' /\ h[w].msg \in chat' \union cut'
  BY DEF InsertMessage
<1>2. /\ h' \in [Workers -> Handler] /\ h'[w].step = "ok" /\ h'[w].msg = h[w].msg
      /\ \A v \in Workers : v # w => h'[v] = h[v]
  BY <1>0, <1>1, ChatGotoFacts DEF HandlerSteps
<1>3. ChatTypeOK'
  BY <1>0, <1>1, <1>2, SetbackType DEF InsertMessage, ChatTypeOK
<1>4. FlagIsKnown' /\ SyncedIsKnown'
  BY <1>1 DEF ChatIInv, FlagIsKnown, SyncedIsKnown, Known
<1>5. HandlerKnows'
  BY <1>1, <1>2 DEF ChatIInv, HandlerKnows, Known, At
<1>6. ASSUME NEW m \in Messages, NEW v \in Workers, Writing(v, m)
      PROVE  m \in chat' \/ m \in cut' \/ Writing(v, m)'
  BY <1>1, <1>2, <1>6 DEF Writing
<1>7. Written'
  BY <1>1, <1>6 DEF ChatIInv, Written, Known
<1>. QED  BY <1>3, <1>4, <1>5, <1>7 DEF ChatIInv

(* A handler ends, with an answer or without. *)
LEMMA ChatEndStep ==
    ASSUME ChatIInv, NEW w \in Workers, Accept(w) \/ Refuse(w) \/ ServerError(w)
    PROVE  ChatIInv'
<1>0. ChatTypeOK /\ h \in [Workers -> Handler] /\ h[w] \in Handler /\ h[w].msg \in Messages
  BY DEF ChatIInv, ChatTypeOK, Handler
<1>1. h' = [h EXCEPT ![w] = IdleHandler]
  BY DEF Accept, Refuse, Reply, ServerError
<1>2. /\ h' \in [Workers -> Handler] /\ h'[w].step = "idle"
      /\ \A v \in Workers : v # w => h'[v] = h[v]
  BY <1>0, <1>1, ChatHandlerType, ChatBecomeFacts
<1>3. CASE ServerError(w)
  <2>1. ChatTypeOK'
    BY <1>0, <1>2, <1>3, SetbackType DEF ServerError, Released, ChatTypeOK
  <2>2. cut \subseteq cut' /\ \A m \in Messages : Writing(w, m) => m \in cut'
    BY <1>3 DEF ServerError, Writing
  <2>. QED  BY <1>2, <1>3, <2>1, <2>2, ChatFrame DEF ServerError, Writing, ChatIInv, SyncedIsKnown
<1>4. CASE Accept(w) \/ Refuse(w)
  <2>1. /\ h[w].step \in {"ok", "refused"} /\ UNCHANGED <<members, logged, chat, cut, setbacks>>
        /\ awaited' \in Workers \union {Nobody}
    BY <1>0, <1>4 DEF Accept, Refuse, Reply, Released, At, ChatTypeOK
  <2>2. PICK status \in {"SYNCED", "FAILED"} :
           /\ outbox' = IF awaited = w THEN [outbox EXCEPT ![h[w].msg] = status] ELSE outbox
           /\ status = "SYNCED" => h[w].step = "ok"
    BY <1>4 DEF Accept, Refuse, Reply, AfterRefusal, At
  <2>3. ChatTypeOK'
    BY <1>0, <1>2, <2>1, <2>2 DEF ChatTypeOK
  <2>4. \A m \in Messages : outbox'[m] = "SYNCED" => Known(m)
    BY <1>0, <2>2 DEF ChatIInv, SyncedIsKnown, HandlerKnows, ChatTypeOK
  <2>. QED  BY <1>2, <2>1, <2>3, <2>4, ChatFrame DEF Writing
<1>. QED  BY <1>3, <1>4

(* Every step keeps the invariant. *)
LEMMA ChatNextIInv == ChatIInv /\ [ChatNext]_chatVars => ChatIInv'
<1> SUFFICES ASSUME ChatIInv, [ChatNext]_chatVars PROVE ChatIInv'
  OBVIOUS
<1>1. CASE UNCHANGED chatVars
  BY <1>1 DEF chatVars, ChatIInv, ChatTypeOK, FlagIsKnown, HandlerKnows, SyncedIsKnown, Written,
              Known, Writing
<1>2. CASE ChatNext
  BY <1>2, ChatDeviceStep, ChatReadStep, ChatAppendStep, ChatInsertStep, ChatEndStep
     DEF ChatNext, Handle
<1>. QED  BY <1>1, <1>2

(* The inductive invariant, for every value of the constants. *)
LEMMA SpecChatIInv == ChatSpec => []ChatIInv
BY ChatInitIInv, ChatNextIInv, PTL DEF ChatSpec

(* The handlers of appendSyncEvent keep their types, and acknowledge a     *)
(* message that was not written only after a failure between the append    *)
(* and the insert, or while another handler is about to write it.          *)
THEOREM SpecChatInv == ChatSpec => []ChatInv
<1>1. ChatIInv => ChatInv
  BY DEF ChatIInv, ChatInv, LossNeedsCut, SyncedIsKnown, Written, Writing
<1>. QED  BY <1>1, SpecChatIInv, PTL
=============================================================================
