------------------------------ MODULE SyncPull ------------------------------
(***************************************************************************)
(* Mobile devices following the log.  A device's pull (SyncService.        *)
(* pullSyncEvents) asks the API for the page after its stored cursor       *)
(* (MobileSyncService.getSyncEvents), applies the events it is sent one at *)
(* a time, stores the cursor and asks for the next page; a 410 sends it to *)
(* the snapshot (getSnapshot) instead.  Between any two statements of the  *)
(* handler the log may grow, be purged or be scrubbed; a response may be   *)
(* lost and the app may be killed.  Of the handlers' queries only the page *)
(* looks at its error: the others go on with no data, as if there were no  *)
(* row.  Both handlers end by writing the acknowledged sequence to the     *)
(* health registry (device_tokens), to the row whose id is the X-Device-Id *)
(* header the app sends.                                                   *)
(***************************************************************************)
EXTENDS EventLog, FiniteSetsExt

CONSTANTS
    Devices,
    Visible,        \* Visible[d]: uuids the role filter lets device d see
    HeaderId,       \* HeaderId[d]: the uuid the app made up for the header
    RowId,          \* RowId[d]: the uuid the database gave d's token row
    PageSize,       \* the limit of one page (50)
    MaxFailures     \* bound on lost responses, failed queries and app kills

ASSUME DevicesAssumption == Visible \in [Devices -> SUBSET Uuids]
ASSUME PageAssumption == PageSize \in Nat \ {0} /\ MaxFailures \in Nat

VARIABLES
    cursor,     \* last_sequence in the device's sync_metadata
    got,        \* sequence numbers the device has applied
    base,       \* the sequence its last snapshot stood for (0: none)
    veiled,     \* history: events left out of a page by a failed look-up
    call,       \* the pull in progress on each device
    registered, \* device_tokens.last_synced_sequence
    failures    \* how many failures have happened (bound)

pullVars == <<cursor, got, base, veiled, call, registered, failures>>
systemVars == <<now, counter, rows, reply,
          cursor, got, base, veiled, call, registered, failures>>

(* unread is history: the latest of this call is 0 for want of an answer.  *)
Idle == [step |-> "idle", since |-> 0, events |-> {}, latest |-> 0,
         more |-> FALSE, unread |-> FALSE]
ServerSteps == {"retention", "counter", "page", "touch", "snapshot", "snaptouch"}
ReplySteps  == {"reply", "gone", "snapped"}
CallSteps   == {"idle", "apply"} \union ServerSteps \union ReplySteps
Call == [step : CallSteps, since : Nat, events : SUBSET Nat, latest : Nat,
         more : BOOLEAN, unread : BOOLEAN]

PullTypeOK ==
    /\ rows \subseteq Row /\ counter \in Nat /\ now \in Nat
    /\ cursor \in [Devices -> Nat] /\ base \in [Devices -> Nat]
    /\ got \in [Devices -> SUBSET Nat] /\ veiled \in [Devices -> SUBSET Nat]
    /\ call \in [Devices -> Call]
    /\ registered \in [Devices -> Nat]
    /\ failures \in 0..MaxFailures

PullInit ==
    /\ LogInit
    /\ cursor = [d \in Devices |-> 0]
    /\ got = [d \in Devices |-> {}]
    /\ base = [d \in Devices |-> 0]
    /\ veiled = [d \in Devices |-> {}]
    /\ call = [d \in Devices |-> Idle]
    /\ registered = [d \in Devices |-> 0]
    /\ failures = 0

At(d, step) == call[d].step = step
Goto(d, step) == call' = [call EXCEPT ![d].step = step]
Lowest(S, n) == {s \in S : Cardinality({t \in S : t < s}) < n}
QueryFails == failures < MaxFailures /\ failures' = failures + 1

-----------------------------------------------------------------------------
(* The request for the page after `since`.  The retention window is only   *)
(* checked for a device that already has a cursor.                         *)
Ask(d, since) ==
    call' = [call EXCEPT ![d] =
        [Idle EXCEPT !.step = IF since > 0 THEN "retention" ELSE "page",
                     !.since = since]]

StartPull(d) ==
    /\ At(d, "idle")
    /\ Ask(d, cursor[d])
    /\ UNCHANGED <<logVars, cursor, got, base, veiled, registered, failures>>

(* getSyncEvents, first query: the oldest retained row. *)
CheckRetention(d) ==
    /\ At(d, "retention")
    /\ Goto(d, IF rows = {} THEN "counter"
               ELSE IF call[d].since + 1 < Min(Seqs(rows)) THEN "gone"
               ELSE "page")
    /\ UNCHANGED <<logVars, cursor, got, base, veiled, registered, failures>>

(* The log was empty: compare with the counter instead. *)
CheckCounter(d) ==
    /\ At(d, "counter")
    /\ Goto(d, IF counter > 0 /\ call[d].since < counter THEN "gone" ELSE "page")
    /\ UNCHANGED <<logVars, cursor, got, base, veiled, registered, failures>>

(* Either query fails: its error is not looked at, and the log reads as    *)
(* empty, the counter as 0.                                                *)
RetentionUnread(d) ==
    /\ At(d, "retention") /\ QueryFails
    /\ Goto(d, "counter")
    /\ UNCHANGED <<logVars, cursor, got, base, veiled, registered>>

CounterUnread(d) ==
    /\ At(d, "counter") /\ QueryFails
    /\ Goto(d, "page")
    /\ UNCHANGED <<logVars, cursor, got, base, veiled, registered>>

(* The page query reads one row more than it returns; of the page, the     *)
(* role filter lets through what the device may see.                       *)
Fetched(d) == Lowest({s \in Seqs(rows) : s > call[d].since}, PageSize + 1)
Page(d) == Lowest(Fetched(d), PageSize)
Shown(d) == {s \in Page(d) : \E row \in rows :
                                 row.seq = s /\ row.uuid \in Visible[d]}
AnswerPage(d, events, latest) ==
    call' = [call EXCEPT ![d].step = "touch", ![d].events = events,
                         ![d].latest = latest,
                         ![d].more = Fetched(d) # Page(d)]

(* Mutants of ReadPage: the cursor is taken from the row read only to see  *)
(* whether there are more; or from the rows left after the role filter.    *)
ReadPageCursorFromExtraRow(d) ==
    /\ At(d, "page")
    /\ AnswerPage(d, Shown(d), Max(Fetched(d) \union {call[d].since}))
    /\ UNCHANGED <<logVars, cursor, got, base, veiled, registered, failures>>
ReadPageCursorFromFiltered(d) ==
    /\ At(d, "page")
    /\ AnswerPage(d, Shown(d), Max(Shown(d) \union {call[d].since}))
    /\ UNCHANGED <<logVars, cursor, got, base, veiled, registered, failures>>

(* The cursor handed back is the last row of the page before the filter.   *)
ReadPage(d) ==
    /\ At(d, "page")
    /\ AnswerPage(d, Shown(d), Max(Page(d) \union {call[d].since}))
    /\ UNCHANGED <<logVars, cursor, got, base, veiled, registered, failures>>

(* A look-up behind the filter (the caller's classes, student record or    *)
(* conversations) fails and finds nothing: some events the device may see  *)
(* are left out, and the cursor handed back is past them all the same.     *)
ReadPageVeiled(d) ==
    /\ At(d, "page") /\ QueryFails
    /\ \E seen \in SUBSET Shown(d) :
          /\ AnswerPage(d, seen, Max(Page(d) \union {call[d].since}))
          /\ veiled' = [veiled EXCEPT ![d] = @ \union (Shown(d) \ seen)]
    /\ UNCHANGED <<logVars, cursor, got, base, registered>>

(* Mutant of ReadSnapshot: the snapshot's sequence is the newest row's. *)
ReadSnapshotNewestRow(d) ==
    /\ At(d, "snapshot")
    /\ call' = [call EXCEPT ![d].step = "snaptouch",
                            ![d].latest = Max(Seqs(rows) \union {0})]
    /\ UNCHANGED <<logVars, cursor, got, base, veiled, registered, failures>>

(* getSnapshot reads the counter before the tables it returns.  The error  *)
(* of that query is not looked at either: no counter is sequence 0.        *)
ReadSnapshot(d) ==
    /\ At(d, "snapshot")
    /\ \/ /\ call' = [call EXCEPT ![d].step = "snaptouch", ![d].latest = counter]
          /\ UNCHANGED failures
       \/ /\ QueryFails
          /\ call' = [call EXCEPT ![d].step = "snaptouch", ![d].latest = 0,
                                  ![d].unread = TRUE]
    /\ UNCHANGED <<logVars, cursor, got, base, veiled, registered>>

(* touchDeviceActivity: UPDATE device_tokens ... WHERE id = X-Device-Id,   *)
(* whose error is not looked at.                                           *)
Touch(d) ==
    /\ call[d].step \in {"touch", "snaptouch"}
    /\ \/ /\ registered' = [e \in Devices |->
                IF RowId[e] = HeaderId[d] THEN call[d].latest ELSE registered[e]]
          /\ UNCHANGED failures
       \/ QueryFails /\ UNCHANGED registered
    /\ Goto(d, IF At(d, "touch") THEN "reply" ELSE "snapped")
    /\ UNCHANGED <<logVars, cursor, got, base, veiled>>

-----------------------------------------------------------------------------
(* The page arrives. *)
Receive(d) ==
    /\ At(d, "reply")
    /\ Goto(d, "apply")
    /\ UNCHANGED <<logVars, cursor, got, base, veiled, registered, failures>>

(* _applyEventLocally, in the order of the page. *)
ApplyEvent(d) ==
    /\ At(d, "apply") /\ call[d].events # {}
    /\ LET s == Min(call[d].events)
       IN  /\ got' = [got EXCEPT ![d] = @ \union {s}]
           /\ call' = [call EXCEPT ![d].events = @ \ {s}]
    /\ UNCHANGED <<logVars, cursor, base, veiled, registered, failures>>

(* setLastSequence after the page, and the next turn of the loop. *)
SaveCursor(d) ==
    /\ At(d, "apply") /\ call[d].events = {}
    /\ LET next == Max({call[d].since, call[d].latest})
       IN  /\ cursor' = [cursor EXCEPT ![d] = next]
           /\ IF call[d].more THEN Ask(d, next)
                              ELSE call' = [call EXCEPT ![d] = Idle]
    /\ UNCHANGED <<logVars, got, base, veiled, registered, failures>>

(* 410: the device asks for the snapshot. *)
ReceiveGone(d) ==
    /\ At(d, "gone")
    /\ Goto(d, "snapshot")
    /\ UNCHANGED <<logVars, cursor, got, base, veiled, registered, failures>>

(* applySnapshot and setLastSequence; the pull returns. *)
SaveSnapshot(d) ==
    /\ At(d, "snapped")
    /\ cursor' = [cursor EXCEPT ![d] = call[d].latest]
    /\ base' = [base EXCEPT ![d] = call[d].latest]
    /\ call' = [call EXCEPT ![d] = Idle]
    /\ UNCHANGED <<logVars, got, veiled, registered, failures>>

(* A server error, a lost response or a killed app: the pass ends and      *)
(* nothing but the stored cursor and the applied events remains of it.     *)
Break(d) ==
    /\ ~At(d, "idle")
    /\ failures < MaxFailures
    /\ failures' = failures + 1
    /\ call' = [call EXCEPT ![d] = Idle]
    /\ UNCHANGED <<logVars, cursor, got, base, veiled, registered>>

Pull(d) ==
    \/ StartPull(d) \/ CheckRetention(d) \/ CheckCounter(d) \/ ReadPage(d)
    \/ RetentionUnread(d) \/ CounterUnread(d) \/ ReadPageVeiled(d)
    \/ ReadSnapshot(d) \/ Touch(d) \/ Receive(d) \/ ApplyEvent(d)
    \/ SaveCursor(d) \/ ReceiveGone(d) \/ SaveSnapshot(d)

PullNext ==
    \/ LogNext /\ UNCHANGED pullVars
    \/ \E d \in Devices : Pull(d) \/ Break(d)

(* The 30 second timer keeps starting pulls, and a started one proceeds. *)
PullFairness == \A d \in Devices : WF_systemVars(Pull(d))

PullSpec == PullInit /\ [][PullNext]_systemVars
PullFairSpec == PullSpec /\ PullFairness

-----------------------------------------------------------------------------
(* A device never moves its cursor past an event it should see and that    *)
(* the log still holds, unless it has applied it, a snapshot stood in for  *)
(* it, or a failed look-up of what the device may see left it out of its   *)
(* page: no event is skipped by paging, filtering, a purge in the middle   *)
(* of a request, a lost page, a cursor set back or a kill between events.  *)
NoRetainedEventSkipped ==
    \A d \in Devices : \A row \in rows :
       row.uuid \in Visible[d] /\ row.seq <= cursor[d] =>
          row.seq \in got[d] \union veiled[d] \/ row.seq <= base[d]

PullInv == PullTypeOK /\ NoRetainedEventSkipped

(* The cursor moves forward through pages, kills, snapshots and failed     *)
(* queries, but for one: the counter of a snapshot read as absent sends it *)
(* back, and then to the very start, from where nothing is missed.         *)
CursorBackOnlyUnread ==
    [][\A d \in Devices :
          \/ cursor[d] <= cursor'[d]
          \/ At(d, "snapped") /\ call[d].unread /\ cursor'[d] = 0]_systemVars

(* Once failures stop, every device comes level with the log and stays so: *)
(* no page of invisible events, purge, 410 or snapshot without a number    *)
(* leaves it behind for ever.                                              *)
CaughtUp ==
    \A d \in Devices : <>[](\A row \in rows : row.seq <= cursor[d])
=============================================================================
