--------------------------- MODULE RollCallCache ---------------------------
(***************************************************************************)
(* What a phone keeps of one student's roll call of one day: the rows of   *)
(* offline_attendance with that student, class and date.  The table has no *)
(* uniqueness but its id and no period.  A mark recorded offline is a row  *)
(* under an id of its own and an event, which comes back from the tenant's *)
(* log under a third id; a mark made on the web comes under the id of the  *)
(* attendance row of its period.  Events are applied one at a time, and    *)
(* the cursor is stored at the end of each page.                           *)
(***************************************************************************)
EXTENDS Naturals, Sequences, FiniteSets

CONSTANTS
    Marks,          \* recordings of this phone
    Periods,        \* periods in which the web's roll call is taken
    Nothing,
    MaxClock,       \* marked_at is in 1..MaxClock (bound)
    MaxLog,         \* bound on the events of the log
    PageSize,       \* events per page
    Retention,      \* plan's retention of offline rows; 0 keeps them all
    MaxKills        \* bound on lost responses and kills of the app

ASSUME MarksAssumption == Marks \intersect Periods = {}
ASSUME BoundsAssumption ==
    /\ MaxClock \in Nat \ {0} /\ PageSize \in Nat \ {0}
    /\ MaxLog \in Nat /\ Retention \in Nat /\ MaxKills \in Nat

VARIABLES
    rows,       \* offline_attendance, by id
    queue,      \* the marks in sync_outbox that are pending
    log,        \* the tenant's events about this student and day
    cursor,     \* last_sequence
    pull,       \* the running pull: the events of its page and how many of
                \* them it has applied
    clock,      \* the clock of the phone
    kills

cacheVars == <<rows, queue, log, cursor, pull, clock, kills>>

Times == 1..MaxClock
LocalId(m) == <<"local", m>>
EventId(m) == <<"event", m>>
WebId(p)   == <<"web", p>>
Ids == {LocalId(m) : m \in Marks} \union {EventId(m) : m \in Marks}
       \union {WebId(p) : p \in Periods}

RowSet == [at : Times, status : {"PENDING", "SYNCED"}]
ASSUME NothingAssumption == Nothing \notin RowSet
Event  == [id : Ids, at : Times]
NoPull == [on |-> FALSE, page |-> <<>>, done |-> 0]

CacheTypeOK ==
    /\ DOMAIN rows = Ids /\ \A i \in Ids : rows[i] # Nothing => rows[i] \in RowSet
    /\ \A m \in Marks : rows[LocalId(m)] # Nothing => rows[LocalId(m)].status = "PENDING"
    /\ queue \subseteq {m \in Marks : rows[LocalId(m)] # Nothing}
    /\ \A i \in 1..Len(log) : log[i] \in Event
    /\ cursor \in 0..Len(log)
    /\ pull.done \in 0..Len(pull.page) /\ Len(pull.page) <= PageSize
    /\ clock \in Times /\ kills \in 0..MaxKills

CacheInit ==
    /\ rows = [i \in Ids |-> Nothing]
    /\ queue = {} /\ log = <<>> /\ cursor = 0
    /\ pull = NoPull
    /\ clock = 1 /\ kills = 0

Present == {i \in Ids : rows[i] # Nothing}
Row(at, status) == [at |-> at, status |-> status]

-----------------------------------------------------------------------------
(* recordAttendance: a row under a fresh id, and the event. *)
Record(m) ==
    /\ rows[LocalId(m)] = Nothing
    /\ rows' = [rows EXCEPT ![LocalId(m)] = Row(clock, "PENDING")]
    /\ queue' = queue \union {m}
    /\ UNCHANGED <<log, cursor, pull, clock, kills>>

(* pushOutbox; the event carries a generated entity id.  Marking it synced *)
(* concerns the outbox, not the row.                                       *)
PushMark(m) ==
    /\ m \in queue /\ Len(log) < MaxLog
    /\ log' = Append(log, [id |-> EventId(m), at |-> rows[LocalId(m)].at])
    /\ queue' = queue \ {m}
    /\ UNCHANGED <<rows, cursor, pull, clock, kills>>

(* The web's recordAttendance.  marked_at is read when the request starts, *)
(* so two overlapping ones may reach the log in the other order.           *)
WebMark(p) ==
    /\ Len(log) < MaxLog
    /\ \E at \in Times : log' = Append(log, [id |-> WebId(p), at |-> at])
    /\ UNCHANGED <<rows, queue, cursor, pull, clock, kills>>

ClockTick ==
    /\ clock < MaxClock
    /\ clock' = clock + 1
    /\ UNCHANGED <<rows, queue, log, cursor, pull, kills>>

StartPull ==
    /\ ~pull.on /\ cursor < Len(log)
    /\ pull' = [on |-> TRUE, done |-> 0,
                page |-> SubSeq(log, cursor + 1,
                            IF cursor + PageSize < Len(log) THEN cursor + PageSize
                                                            ELSE Len(log))]
    /\ UNCHANGED <<rows, queue, log, cursor, clock, kills>>

NextEvent == pull.page[pull.done + 1]

(* Mutant of LocalWins: the comparison is the wrong way round. *)
LocalWinsIfOlder(ev) ==
    \E i \in Present : rows[i].status = "PENDING" /\ ev.at > rows[i].at

(* A pending row that is not older than the event is kept. *)
LocalWins(ev) ==
    \E i \in Present : rows[i].status = "PENDING" /\ ev.at <= rows[i].at

(* Mutant of ApplyEvent: an event that loses is not consumed. *)
ApplyEventStuckOnLoss ==
    /\ pull.on /\ pull.done < Len(pull.page)
    /\ Cardinality(Present) <= 1 /\ ~LocalWins(NextEvent)
    /\ rows' = [rows EXCEPT ![NextEvent.id] = Row(NextEvent.at, "SYNCED")]
    /\ pull' = [pull EXCEPT !.done = @ + 1]
    /\ UNCHANGED <<queue, log, cursor, clock, kills>>

(* saveSyncedAttendance: every row of the day matches the query, whatever  *)
(* its id; getSingleOrNull throws if there are two.                        *)
ApplyEvent ==
    /\ pull.on /\ pull.done < Len(pull.page)
    /\ Cardinality(Present) <= 1
    /\ rows' = IF LocalWins(NextEvent) THEN rows
               ELSE [rows EXCEPT ![NextEvent.id] = Row(NextEvent.at, "SYNCED")]
    /\ pull' = [pull EXCEPT !.done = @ + 1]
    /\ UNCHANGED <<queue, log, cursor, clock, kills>>

(* The exception ends the pull before the cursor is stored. *)
Throw ==
    /\ pull.on /\ pull.done < Len(pull.page)
    /\ Cardinality(Present) > 1
    /\ pull' = NoPull
    /\ UNCHANGED <<rows, queue, log, cursor, clock, kills>>

SaveCursor ==
    /\ pull.on /\ pull.done = Len(pull.page)
    /\ cursor' = cursor + Len(pull.page)
    /\ pull' = NoPull
    /\ UNCHANGED <<rows, queue, log, clock, kills>>

(* A response is lost, or the app is killed in the middle of a page. *)
Kill ==
    /\ pull.on /\ kills < MaxKills
    /\ kills' = kills + 1
    /\ pull' = NoPull
    /\ UNCHANGED <<rows, queue, log, cursor, clock>>

Outdated(at) == Retention > 0 /\ at + Retention < clock

(* pruneExpiredCache, at the end of a pass. *)
Prune ==
    /\ ~pull.on
    /\ \E i \in Present : rows[i].status = "SYNCED" /\ Outdated(rows[i].at)
    /\ rows' = [i \in Ids |->
                  IF i \in Present /\ rows[i].status = "SYNCED" /\ Outdated(rows[i].at)
                  THEN Nothing ELSE rows[i]]
    /\ UNCHANGED <<queue, log, cursor, pull, clock, kills>>

PullStep == StartPull \/ ApplyEvent \/ Throw \/ SaveCursor

CacheNext ==
    \/ \E m \in Marks : Record(m) \/ PushMark(m)
    \/ \E p \in Periods : WebMark(p)
    \/ ClockTick \/ PullStep \/ Kill \/ Prune

CacheSpec == CacheInit /\ [][CacheNext]_cacheVars

(* The sync timer repeats the pull and the pruning; time passes. *)
CacheFairSpec ==
    CacheSpec /\ WF_cacheVars(PullStep) /\ WF_cacheVars(Prune) /\ WF_cacheVars(ClockTick)

-----------------------------------------------------------------------------
(* Of what was pulled, the last event under each id is on the phone, or a  *)
(* mark of the day that is at least as new, or the plan's retention is     *)
(* over: no kill in the middle of a page and no comparison loses a mark.   *)
PulledIsShown ==
    \A k \in 1..cursor :
       \/ \E l \in k+1..Len(log) : l <= cursor + PageSize /\ log[l].id = log[k].id
       \/ \E i \in Present : rows[i].at >= log[k].at
       \/ Outdated(log[k].at)

CacheInv == CacheTypeOK /\ PulledIsShown

(* As long as the day has one row at most, the pull gets to the end of the *)
(* log again and again, whichever mark wins.                               *)
OneRowCatchesUp ==
    [](Cardinality(Present) <= 1) => []<>(cursor = Len(log))
=============================================================================
