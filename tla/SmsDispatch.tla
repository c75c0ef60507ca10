---------------------------- MODULE SmsDispatch ----------------------------
(***************************************************************************)
(* A tenant's text messages: sendBatchSms reserves segments against the    *)
(* monthly ceiling and queues one job per recipient; the SmsProcessor runs *)
(* the jobs: it calls Twilio, stores the sid in the job, records the       *)
(* message in sms_logs and gives the reservation back.  Usage is counted   *)
(* in the database, reservations in Redis, and the two are read and        *)
(* written by separate calls, any of which may fail or be the last of its  *)
(* process; BullMQ repeats a failed attempt, and once the attempt of a     *)
(* worker that died.  Each message is one segment.                         *)
(***************************************************************************)
EXTENDS Integers, FiniteSets

CONSTANTS
    Batches, Jobs,
    BatchOf,        \* the batch each job (recipient) belongs to
    Bypass,         \* batches that bypass the quota
    Disaster,       \* those of them that a disaster event sends
    Ceiling,        \* safetyCeiling
    MaxAttempts,    \* attempts of a job
    MaxMonth,       \* bound: the last billing month
    MaxFailures     \* bound on failed calls, deaths, expiries and suspensions

ASSUME BatchesAssumption ==
    /\ IsFiniteSet(Jobs) /\ BatchOf \in [Jobs -> Batches]
    /\ Bypass \subseteq Batches /\ Disaster \subseteq Bypass
ASSUME BoundsAssumption ==
    /\ Ceiling \in Nat /\ MaxAttempts \in Nat \ {0}
    /\ MaxMonth \in Nat /\ MaxFailures \in Nat

VARIABLES
    month,      \* the billing month of the clock
    send,       \* sendBatchSms of each batch, with its month
    reserved,   \* sms:reserved:<tenant>:<month> in Redis, by month
    volatile,   \* the keys that have a time to live
    job,        \* the jobs of the queue and the attempt that runs
    sent,       \* how many texts Twilio sent for each job
    logs,       \* sms_logs: <<text, month of the row>>, a text being <<job, number>>
    suspended,  \* the tenant is not ACTIVE
    astray,     \* history: how many reservations a month's counter has lost
                \* to an error of Redis, its expiry, a death or another month
    lost,       \* jobs of which a sid was never stored
    failures

vars == <<month, send, reserved, volatile, job, sent, logs, suspended, astray, lost, failures>>

Ended == {"logged", "skipped", "failed"}
Running == {"create", "save", "log", "release", "complete"}
MaxTexts == MaxAttempts + 1
Months == 0..MaxMonth
Job == [step : {"none", "waiting"} \union Running \union Ended,
        tries : 0..MaxAttempts, stalled : BOOLEAN, saved : 0..MaxTexts, held : 0..MaxTexts]
NoJob == [step |-> "none", tries |-> 0, stalled |-> FALSE, saved |-> 0, held |-> 0]

TypeOK ==
    /\ month \in Months
    /\ send \in [Batches -> [step : {"new", "read", "reserved", "queued", "blocked", "failed"},
                             usage : Nat, month : Months]]
    /\ reserved \in [Months -> Int] /\ volatile \in [Months -> BOOLEAN]
    /\ job \in [Jobs -> Job]
    /\ sent \in [Jobs -> 0..MaxTexts]
    /\ logs \subseteq (Jobs \X (1..MaxTexts)) \X Months
    /\ suspended \in BOOLEAN /\ astray \in [Months -> Nat]
    /\ lost \subseteq Jobs
    /\ failures \in 0..MaxFailures

Init ==
    /\ month = 0
    /\ send = [b \in Batches |-> [step |-> "new", usage |-> 0, month |-> 0]]
    /\ reserved = [m \in Months |-> 0] /\ volatile = [m \in Months |-> FALSE]
    /\ job = [j \in Jobs |-> NoJob]
    /\ sent = [j \in Jobs |-> 0]
    /\ logs = {}
    /\ suspended = FALSE /\ astray = [m \in Months |-> 0]
    /\ lost = {}
    /\ failures = 0

JobsOf(b) == {j \in Jobs : BatchOf[j] = b}
Size(b) == Cardinality(JobsOf(b))
Usage == Cardinality({row \in logs : row[2] = month})
Failure == failures < MaxFailures /\ failures' = failures + 1
Quota == <<reserved, volatile>>
Texts == <<sent, logs, lost>>

(* Reserved in month m and not recorded or given up yet. *)
Open(m) == {j \in Jobs : /\ BatchOf[j] \notin Bypass /\ send[BatchOf[j]].month = m
                         /\ \/ send[BatchOf[j]].step = "reserved"
                            \/ job[j].step \in {"waiting", "create", "save", "log", "release"}}

-----------------------------------------------------------------------------
(* sendBatchSms *)

SendStep(b, from, to) == send[b].step = from /\ send' = [send EXCEPT ![b].step = to]

(* The reservation's month, and the quota view, which counts the rows of   *)
(* the current one; a batch that bypasses the quota does not look.         *)
ReadUsage(b) ==
    /\ send[b].step = "new"
    /\ send' = [send EXCEPT ![b] = [step |-> "read", month |-> month,
                                    usage |-> IF b \in Bypass THEN 0 ELSE Usage]]
    /\ UNCHANGED <<month, Quota, job, Texts, suspended, astray, failures>>

(* ATOMIC_RESERVATION_LUA *)
Admits(b) ==
    b \in Bypass \/ send[b].usage + reserved[send[b].month] + Size(b) <= Ceiling

Reserve(b) ==
    /\ Admits(b)
    /\ SendStep(b, "read", "reserved")
    /\ reserved' = [reserved EXCEPT ![send[b].month] = @ + Size(b)]
    /\ volatile' = [volatile EXCEPT ![send[b].month] = TRUE]
    /\ UNCHANGED <<month, job, Texts, suspended, astray, failures>>

Block(b) ==
    /\ ~Admits(b)
    /\ SendStep(b, "read", "blocked")
    /\ UNCHANGED <<month, Quota, job, Texts, suspended, astray, failures>>

(* Redis does not answer: the batch is sent without a reservation. *)
ReserveFails(b) ==
    /\ Failure
    /\ SendStep(b, "read", "reserved")
    /\ astray' = IF b \in Bypass THEN astray
                 ELSE [astray EXCEPT ![send[b].month] = @ + Size(b)]
    /\ UNCHANGED <<month, Quota, job, Texts, suspended>>

Enqueue(b) ==
    /\ SendStep(b, "reserved", "queued")
    /\ job' = [j \in Jobs |-> IF j \in JobsOf(b) THEN [NoJob EXCEPT !.step = "waiting"]
                                                 ELSE job[j]]
    /\ UNCHANGED <<month, Quota, Texts, suspended, astray, failures>>

(* addBulk throws: the reservation is taken back. *)
EnqueueFails(b) ==
    /\ Failure
    /\ SendStep(b, "reserved", "failed")
    /\ reserved' = IF b \in Bypass THEN reserved
                   ELSE [reserved EXCEPT ![send[b].month] = @ - Size(b)]
    /\ UNCHANGED <<month, volatile, job, Texts, suspended, astray>>

(* The process dies with the reservation made and nothing queued. *)
SenderDies(b) ==
    /\ Failure
    /\ SendStep(b, "reserved", "failed")
    /\ UNCHANGED <<month, Quota, job, Texts, suspended, astray>>

-----------------------------------------------------------------------------
(* SmsProcessor.process *)

JobStep(j, from, to) == job[j].step = from /\ job' = [job EXCEPT ![j].step = to]

(* RELEASE_LUA, on the counter of the month it is now, whichever month the *)
(* job was reserved in; its SET drops the time to live.                    *)
GiveBack(j) ==
    IF reserved[month] > 0
    THEN /\ reserved' = [reserved EXCEPT ![month] = @ - 1]
         /\ volatile' = [volatile EXCEPT ![month] = FALSE]
         /\ astray' = IF send[BatchOf[j]].month = month THEN astray
                      ELSE [astray EXCEPT ![month] = @ + 1]
    ELSE UNCHANGED <<Quota, astray>>

(* The attempt ends in an exception.  The last one gives the reservation   *)
(* back and records a FAILED row, unless Twilio has sent the text.         *)
AttemptFails(j) ==
    LET last == job[j].tries + 1 >= MaxAttempts IN
    /\ job' = [job EXCEPT ![j].step = IF last THEN "failed" ELSE "waiting",
                          ![j].tries = @ + 1, ![j].held = 0]
    /\ IF last /\ job[j].step = "create" /\ BatchOf[j] \notin Bypass
       THEN GiveBack(j) ELSE UNCHANGED <<Quota, astray>>
    /\ UNCHANGED <<month, send, suspended>>

(* Mutant of Take: the jobs of a suspended tenant wait. *)
TakeIfActive(j) ==
    /\ job[j].step = "waiting" /\ ~suspended
    /\ job' = [job EXCEPT ![j].step = IF job[j].saved # 0 THEN "log" ELSE "create",
                          ![j].held = job[j].saved]
    /\ UNCHANGED <<month, send, Quota, Texts, suspended, astray, failures>>

(* A job with a sid does not go to Twilio again; the job of a suspended    *)
(* tenant is skipped, unless a disaster event sent it.                     *)
Skips(j) == suspended /\ BatchOf[j] \notin Disaster
Take(j) ==
    /\ job[j].step = "waiting"
    /\ job' = [job EXCEPT ![j].step = IF Skips(j) THEN "skipped"
                                      ELSE IF job[j].saved # 0 THEN "log" ELSE "create",
                          ![j].held = job[j].saved]
    /\ UNCHANGED <<month, send, Quota, Texts, suspended, astray, failures>>

(* The look-up of the tenant fails and has found none: the job goes on. *)
TakeUnread(j) ==
    /\ job[j].step = "waiting" /\ Skips(j)
    /\ Failure
    /\ job' = [job EXCEPT ![j].step = IF job[j].saved # 0 THEN "log" ELSE "create",
                          ![j].held = job[j].saved]
    /\ UNCHANGED <<month, send, Quota, Texts, suspended, astray>>

Create(j) ==
    /\ job[j].step = "create"
    /\ sent' = [sent EXCEPT ![j] = @ + 1]
    /\ job' = [job EXCEPT ![j].step = "save", ![j].held = sent'[j]]
    /\ UNCHANGED <<month, send, Quota, logs, lost, suspended, astray, failures>>

(* Twilio refuses, or sends the text and its answer is lost. *)
CreateFails(j) ==
    /\ job[j].step = "create"
    /\ Failure
    /\ AttemptFails(j)
    /\ \/ UNCHANGED <<sent, lost>>
       \/ sent' = [sent EXCEPT ![j] = @ + 1] /\ lost' = lost \union {j}
    /\ UNCHANGED logs

(* Mutant of SaveSid: the sid is set in memory, the job is not updated. *)
SaveSidInMemory(j) ==
    /\ JobStep(j, "save", "log")
    /\ UNCHANGED <<month, send, Quota, Texts, suspended, astray, failures>>

SaveSid(j) ==
    /\ job[j].step = "save"
    /\ job' = [job EXCEPT ![j].step = "log", ![j].saved = job[j].held]
    /\ UNCHANGED <<month, send, Quota, Texts, suspended, astray, failures>>

SaveSidFails(j) ==
    /\ job[j].step = "save"
    /\ Failure
    /\ AttemptFails(j)
    /\ lost' = lost \union {j}
    /\ UNCHANGED <<sent, logs>>

(* The upsert of the QUEUED row, by sid: a row that is there keeps its     *)
(* month.                                                                  *)
Recorded(j) == \E m \in Months : <<<<j, job[j].held>>, m>> \in logs
RecordText(j) ==
    /\ JobStep(j, "log", IF BatchOf[j] \in Bypass THEN "complete" ELSE "release")
    /\ logs' = IF Recorded(j) THEN logs ELSE logs \union {<<<<j, job[j].held>>, month>>}
    /\ UNCHANGED <<month, send, Quota, sent, lost, suspended, astray, failures>>

RecordTextFails(j) ==
    /\ job[j].step = "log"
    /\ Failure
    /\ AttemptFails(j)
    /\ UNCHANGED Texts

(* Mutant of Release: the whole batch is given back with each of its jobs. *)
ReleaseBatch(j) ==
    LET n == Size(BatchOf[j]) IN
    /\ JobStep(j, "release", "complete")
    /\ reserved' = [reserved EXCEPT ![month] = IF @ > n THEN @ - n ELSE 0]
    /\ volatile' = [volatile EXCEPT ![month] = FALSE]
    /\ astray' = IF send[BatchOf[j]].month = month THEN astray
                 ELSE [astray EXCEPT ![month] = @ + 1]
    /\ UNCHANGED <<month, send, Texts, suspended, failures>>

Release(j) ==
    /\ JobStep(j, "release", "complete")
    /\ GiveBack(j)
    /\ UNCHANGED <<month, send, Texts, suspended, failures>>

(* An error of Redis is only logged. *)
ReleaseFails(j) ==
    /\ Failure
    /\ JobStep(j, "release", "complete")
    /\ UNCHANGED <<month, send, Quota, Texts, suspended, astray>>

Complete(j) ==
    /\ JobStep(j, "complete", "logged")
    /\ UNCHANGED <<month, send, Quota, Texts, suspended, astray, failures>>

(* The worker dies: BullMQ gives the job to another one, once.  What it    *)
(* had given back is given back again.                                     *)
WorkerDies(j) ==
    /\ job[j].step \in Running
    /\ Failure
    /\ job' = [job EXCEPT ![j].step = IF job[j].stalled THEN "failed" ELSE "waiting",
                          ![j].stalled = TRUE, ![j].held = 0]
    /\ lost' = IF job[j].step = "save" THEN lost \union {j} ELSE lost
    /\ astray' = IF job[j].step = "complete" /\ ~job[j].stalled
                 THEN [astray EXCEPT ![send[BatchOf[j]].month] = @ + 1] ELSE astray
    /\ UNCHANGED <<month, send, Quota, sent, logs, suspended>>

-----------------------------------------------------------------------------
(* Half an hour after the last reservation the key expires. *)
Expire(m) ==
    /\ volatile[m] /\ reserved[m] # 0
    /\ Failure
    /\ reserved' = [reserved EXCEPT ![m] = 0] /\ volatile' = [volatile EXCEPT ![m] = FALSE]
    /\ astray' = IF reserved[m] > 0 THEN [astray EXCEPT ![m] = @ + reserved[m]] ELSE astray
    /\ UNCHANGED <<month, send, job, Texts, suspended>>

NextMonth ==
    /\ month < MaxMonth
    /\ month' = month + 1
    /\ UNCHANGED <<send, Quota, job, Texts, suspended, astray, failures>>

SetTenantStatus ==
    /\ Failure
    /\ suspended' = ~suspended
    /\ UNCHANGED <<month, send, Quota, job, Texts, astray>>

Sender(b) == ReadUsage(b) \/ Reserve(b) \/ Block(b) \/ Enqueue(b)
Worker(j) == Take(j) \/ Create(j) \/ SaveSid(j) \/ RecordText(j) \/ Release(j) \/ Complete(j)

Next ==
    \/ \E b \in Batches : Sender(b) \/ ReserveFails(b) \/ EnqueueFails(b) \/ SenderDies(b)
    \/ \E j \in Jobs : \/ Worker(j) \/ TakeUnread(j) \/ CreateFails(j) \/ SaveSidFails(j)
                       \/ RecordTextFails(j) \/ ReleaseFails(j) \/ WorkerDies(j)
    \/ \E m \in Months : Expire(m)
    \/ SetTenantStatus \/ NextMonth

Spec == Init /\ [][Next]_vars

(* BullMQ's workers run the jobs. *)
FairSpec == Spec /\ \A j \in Jobs : WF_vars(Worker(j))

-----------------------------------------------------------------------------
(* The counter of a month covers every message reserved in it that is      *)
(* still to be recorded, but for exactly those reservations it has lost:   *)
(* to an error of Redis, to the expiry of the key, to a worker that died   *)
(* after giving back, and to jobs of another month, which give back to the *)
(* counter of the month they end in.  Retries, final failures, roll-backs  *)
(* of the queue and suspensions cost no other batch anything.              *)
OpenIsReserved ==
    \A m \in Months : reserved[m] + astray[m] >= Cardinality(Open(m))

SmsInv == TypeOK /\ OpenIsReserved

(* A recipient gets a text twice only if the sid of the first was lost:    *)
(* between Twilio's answer and the update of the job, or with the answer.  *)
DuplicateNeedsLostSid == \A j \in Jobs : sent[j] > 1 => j \in lost

(* Every queued message ends: recorded, skipped or failed. *)
EveryJobEnds == \A j \in Jobs : job[j].step = "waiting" ~> job[j].step \in Ended
=============================================================================
