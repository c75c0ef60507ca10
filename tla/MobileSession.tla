---------------------------- MODULE MobileSession ----------------------------
(***************************************************************************)
(* One phone, the accounts that sign in on it, and the sync pass that runs *)
(* in the background: SyncService.syncAll reads the pending outbox once,   *)
(* pushes its entries one by one and then pulls.  Every request takes the  *)
(* access token that is stored at that moment (ApiClient.onRequest), while *)
(* the list of entries and the cursor it works with were read earlier.     *)
(* Signing out wipes the local database and then clears the tokens; it     *)
(* neither waits for a running pass nor stops it, and the sync timer goes  *)
(* on.  The accounts belong to different tenants, so each has its own log. *)
(***************************************************************************)
EXTENDS Naturals, FiniteSets

CONSTANTS
    Users,
    Nobody,         \* no account, no log
    Entries,        \* what the users record offline, each once
    Owner,          \* who records it
    Rank,           \* created_at order
    Refused,        \* entries the server answers with a 4xx, always
    Volatile,       \* entries whose attachments are uploaded anew, under a
                    \* new URL, by each attempt: no two attempts are alike
    MaxLogins,      \* bound on sign-ins
    MaxMishaps      \* bound on lost calls, kills, revoked sessions and on
                    \* presses of the retry button

ASSUME UsersAssumption == Nobody \notin Users
ASSUME EntriesAssumption ==
    /\ Owner \in [Entries -> Users] /\ Rank \in [Entries -> Nat]
    /\ Refused \subseteq Entries /\ Volatile \subseteq Entries
ASSUME PhoneBoundsAssumption == MaxLogins \in Nat /\ MaxMishaps \in Nat

VARIABLES
    signedIn,   \* the app shows an account (AuthState), not the sign-in page
    account,    \* whose tokens are stored
    leaving,    \* what logout still has to do
    timer,      \* startAutoSync has been called
    resting,    \* _nextAllowedSyncTime lies ahead
    outbox,     \* each entry: not recorded yet, a sync_outbox status, wiped
    cursor,     \* whose log the stored last_sequence counts (Nobody: none)
    pass,       \* the running syncAll
    stored,     \* <<entry, user>>: the entry is in that user's tenant's log
    crossed,    \* a pass, a recording or a kill has overlapped a sign-in or
                \* a sign-out
    logins, mishaps

phoneVars == <<signedIn, account, leaving, timer, resting, outbox, cursor, pass,
          stored, crossed, logins, mishaps>>

Accounts == Users \union {Nobody}
Steps    == {"idle", "push", "posted", "accepted", "refused", "pull", "asked"}
Pass == [step : Steps, todo : SUBSET Entries, as : Accounts, from : Accounts,
         auto : BOOLEAN]
NoPass == [step |-> "idle", todo |-> {}, as |-> Nobody, from |-> Nobody,
           auto |-> FALSE]

PhoneTypeOK ==
    /\ account \in Accounts /\ cursor \in Accounts
    /\ signedIn \in BOOLEAN /\ leaving \in {"no", "wipe", "clear"}
    /\ timer \in BOOLEAN /\ resting \in BOOLEAN
    /\ outbox \in [Entries -> {"none", "PENDING", "SYNCED", "FAILED", "wiped"}]
    /\ pass \in Pass
    /\ pass.step \in {"posted", "accepted", "refused"} => pass.todo # {}
    /\ stored \subseteq Entries \X Users
    /\ crossed \in BOOLEAN
    /\ logins \in 0..MaxLogins /\ mishaps \in 0..MaxMishaps

PhoneInit ==
    /\ signedIn = FALSE /\ account = Nobody /\ leaving = "no"
    /\ timer = FALSE /\ resting = FALSE
    /\ outbox = [e \in Entries |-> "none"]
    /\ cursor = Nobody
    /\ pass = NoPass
    /\ stored = {}
    /\ crossed = FALSE
    /\ logins = 0 /\ mishaps = 0

Mishap == mishaps < MaxMishaps /\ mishaps' = mishaps + 1
InOutbox(e) == outbox[e] \in {"PENDING", "SYNCED", "FAILED"}
Pending == {e \in Entries : outbox[e] = "PENDING"}
First(S) == CHOOSE e \in S : \A f \in S : Rank[e] <= Rank[f]
Entry == First(pass.todo)

-----------------------------------------------------------------------------
(* The account. *)

(* Mutant of WipedCursor: the wipe forgets sync_metadata. *)
KeptCursor == cursor

(* clearAll empties every table, sync_outbox and sync_metadata included. *)
WipedCursor == Nobody

(* setAuthenticated: signing out has cleared the previous user's id, so    *)
(* there is nothing to compare with and no wipe.  The home screen starts   *)
(* the timer, which only the independent learner's ever stops.             *)
SetAuthenticated(u) ==
    /\ ~signedIn /\ account = Nobody /\ logins < MaxLogins
    /\ signedIn' = TRUE /\ account' = u
    /\ logins' = logins + 1
    /\ timer' = TRUE
    /\ crossed' = (crossed \/ pass.step # "idle" \/ leaving # "no")
    /\ UNCHANGED <<leaving, resting, outbox, cursor, pass, stored, mishaps>>

(* logout(force: true): the database first, the tokens and the screen     *)
(* after; one that is called meanwhile does the same once more.           *)
LogoutStart ==
    /\ signedIn /\ leaving = "no"
    /\ leaving' = "wipe"
    /\ crossed' = (crossed \/ pass.step # "idle")
    /\ UNCHANGED <<signedIn, account, timer, resting, outbox, cursor, pass,
                   stored, logins, mishaps>>

LogoutWipe ==
    /\ leaving = "wipe"
    /\ outbox' = [e \in Entries |-> IF InOutbox(e) THEN "wiped" ELSE outbox[e]]
    /\ cursor' = WipedCursor
    /\ leaving' = "clear"
    /\ UNCHANGED <<signedIn, account, timer, resting, pass, stored, crossed,
                   logins, mishaps>>

LogoutClear ==
    /\ leaving = "clear"
    /\ signedIn' = FALSE /\ account' = Nobody
    /\ leaving' = "no"
    /\ UNCHANGED <<timer, resting, outbox, cursor, pass, stored, crossed,
                   logins, mishaps>>

(* Recording offline: attendance, homework, a message: queueSyncEvent. *)
Record(e) ==
    /\ signedIn /\ account = Owner[e]
    /\ outbox[e] = "none"
    /\ outbox' = [outbox EXCEPT ![e] = "PENDING"]
    /\ crossed' = (crossed \/ leaving # "no")
    /\ UNCHANGED <<signedIn, account, leaving, timer, resting, cursor, pass,
                   stored, logins, mishaps>>

RetryFailed ==
    /\ Mishap
    /\ \E e \in Entries : outbox[e] = "FAILED"
    /\ outbox' = [e \in Entries |-> IF outbox[e] = "FAILED" THEN "PENDING" ELSE outbox[e]]
    /\ UNCHANGED <<signedIn, account, leaving, timer, resting, cursor, pass,
                   stored, crossed, logins>>

-----------------------------------------------------------------------------
(* The pass. *)

Session == <<signedIn, account, leaving, timer, logins>>

(* syncAll returned: triggerAutoSync backs off when it reports no success. *)
Return(success) ==
    /\ pass' = NoPass
    /\ resting' = IF pass.auto THEN ~success ELSE resting

(* The timer (auto) respects the back-off, the user's button does not. *)
StartPass(auto) ==
    /\ pass.step = "idle"
    /\ IF auto THEN timer /\ ~resting ELSE signedIn
    /\ pass' = [NoPass EXCEPT !.step = "push", !.todo = Pending, !.auto = auto]
    /\ crossed' = (crossed \/ leaving # "no")
    /\ UNCHANGED <<Session, resting, outbox, cursor, stored, mishaps>>

Wake ==
    /\ resting
    /\ resting' = FALSE
    /\ UNCHANGED <<Session, outbox, cursor, pass, stored, crossed, mishaps>>

(* A request takes the token of this moment, and goes out without when     *)
(* there is none.                                                          *)
Send ==
    /\ (pass.step = "push" /\ pass.todo # {}) \/ pass.step = "pull"
    /\ pass' = [pass EXCEPT !.step = IF @ = "push" THEN "posted" ELSE "asked",
                            !.as = account]
    /\ UNCHANGED <<Session, resting, outbox, cursor, stored, crossed, mishaps>>

(* The API appends it to the log of the caller's tenant.  A known uuid     *)
(* with another payload is refused (409).                                  *)
ServerAppends ==
    /\ pass.step = "posted" /\ pass.as # Nobody
    /\ LET known   == <<Entry, pass.as>> \in stored
           refused == Entry \in Refused \/ (known /\ Entry \in Volatile)
       IN  /\ stored' = IF refused THEN stored ELSE stored \union {<<Entry, pass.as>>}
           /\ pass' = [pass EXCEPT !.step = IF refused THEN "refused" ELSE "accepted"]
    /\ UNCHANGED <<Session, resting, outbox, cursor, crossed, mishaps>>

(* Mutant of ReceiveAnswer: a 4xx answer ends the pass like a lost one. *)
ReceiveAnswerStopsAt4xx ==
    /\ pass.step \in {"accepted", "refused"}
    /\ outbox' = IF InOutbox(Entry) /\ pass.step = "accepted"
                 THEN [outbox EXCEPT ![Entry] = "SYNCED"] ELSE outbox
    /\ pass' = [pass EXCEPT !.step = "push",
                            !.todo = IF pass.step = "accepted" THEN @ \ {Entry} ELSE {}]
    /\ UNCHANGED <<Session, resting, cursor, stored, crossed, mishaps>>

(* markOutboxEventSynced or markOutboxEventFailed: UPDATE by client_uuid,  *)
(* without effect on an entry that was wiped meanwhile.                    *)
ReceiveAnswer ==
    /\ pass.step \in {"accepted", "refused"}
    /\ outbox' = IF InOutbox(Entry)
                 THEN [outbox EXCEPT ![Entry] =
                          IF pass.step = "accepted" THEN "SYNCED" ELSE "FAILED"]
                 ELSE outbox
    /\ pass' = [pass EXCEPT !.step = "push", !.todo = @ \ {Entry}]
    /\ UNCHANGED <<Session, resting, cursor, stored, crossed, mishaps>>

(* The request or its answer is lost, or a 5xx: no more pushes.  pushOutbox *)
(* returns as usual and the pull follows.                                  *)
LosePost ==
    /\ pass.step \in {"posted", "accepted", "refused"}
    /\ Mishap
    /\ pass' = [pass EXCEPT !.step = "push", !.todo = {}]
    /\ UNCHANGED <<Session, resting, outbox, cursor, stored, crossed>>

(* pullSyncEvents reads the cursor first. *)
StartPull ==
    /\ pass.step = "push" /\ pass.todo = {}
    /\ pass' = [pass EXCEPT !.step = "pull", !.from = cursor]
    /\ UNCHANGED <<Session, resting, outbox, cursor, stored, crossed, mishaps>>

(* setLastSequence: the position in the log that was read, or the position *)
(* of another log when the pull began with that.                           *)
ReceivePage ==
    /\ pass.step = "asked" /\ pass.as # Nobody
    /\ cursor' = IF pass.from \in {Nobody, pass.as} THEN pass.as ELSE pass.from
    /\ Return(TRUE)
    /\ UNCHANGED <<Session, outbox, stored, crossed, mishaps>>

LosePage ==
    /\ pass.step = "asked"
    /\ Mishap
    /\ Return(TRUE)
    /\ UNCHANGED <<Session, outbox, cursor, stored, crossed>>

(* onSessionExpired: the tokens are cleared, logout(force: true) begins    *)
(* (unawaited), and the pass rethrows the 401.                             *)
Expire ==
    /\ account' = Nobody
    /\ leaving' = "wipe"
    /\ Return(FALSE)
    /\ UNCHANGED <<signedIn, timer, outbox, cursor, stored, logins>>

(* A request without a token is answered 401.  If somebody has signed in   *)
(* meanwhile, their tokens are refreshed and the request repeated.         *)
Unauthorised ==
    /\ pass.step \in {"posted", "asked"} /\ pass.as = Nobody
    /\ IF account = Nobody
       THEN Expire /\ UNCHANGED <<crossed, mishaps>>
       ELSE /\ pass' = [pass EXCEPT !.as = account]
            /\ UNCHANGED <<Session, resting, outbox, cursor, stored, crossed, mishaps>>

(* The session was revoked, and with it the refresh token that is stored. *)
SessionRevoked ==
    /\ pass.step \in {"posted", "asked"} /\ pass.as # Nobody /\ account = pass.as
    /\ Mishap
    /\ Expire
    /\ UNCHANGED crossed

(* The app is killed; tokens and database stay, and with an account the    *)
(* home screen starts the timer again.                                     *)
Kill ==
    /\ Mishap
    /\ pass' = NoPass /\ resting' = FALSE /\ leaving' = "no"
    /\ signedIn' = (account # Nobody) /\ timer' = (account # Nobody)
    /\ crossed' = (crossed \/ leaving # "no")
    /\ UNCHANGED <<account, outbox, cursor, stored, logins>>

PassStep == Send \/ ServerAppends \/ ReceiveAnswer \/ StartPull
            \/ ReceivePage \/ Unauthorised

PhoneNext ==
    \/ \E u \in Users : SetAuthenticated(u)
    \/ LogoutStart \/ LogoutWipe \/ LogoutClear
    \/ \E e \in Entries : Record(e)
    \/ RetryFailed
    \/ \E auto \in BOOLEAN : StartPass(auto)
    \/ Wake \/ PassStep \/ LosePost \/ LosePage \/ SessionRevoked \/ Kill

(* The timer fires, time passes, and what was awaited goes on. *)
PhoneFairness ==
    /\ WF_phoneVars(StartPass(TRUE)) /\ WF_phoneVars(Wake)
    /\ WF_phoneVars(PassStep) /\ WF_phoneVars(LogoutWipe) /\ WF_phoneVars(LogoutClear)

PhoneSpec == PhoneInit /\ [][PhoneNext]_phoneVars
PhoneFairSpec == PhoneSpec /\ PhoneFairness

-----------------------------------------------------------------------------
(* What the phone shows as synced is in somebody's log: no lost answer,    *)
(* refusal, kill or wipe in the middle of a push marks it too early.       *)
SyncedIsStored == \A e \in Entries :
    outbox[e] = "SYNCED" => \E u \in Users : <<e, u>> \in stored

(* Two accounts' data meet only through a pass, a recording or a kill in   *)
(* the middle of a sign-in or a sign-out: as long as there was none,       *)
(* entries are pushed by their owners and the cursor counts the log of the *)
(* stored account.                                                         *)
LeakNeedsCrossing ==
    crossed \/ /\ \A x \in stored : x[2] = Owner[x[1]]
               /\ account = Nobody \/ cursor \in {Nobody, account}

PhoneInv == PhoneTypeOK /\ SyncedIsStored /\ LeakNeedsCrossing

(* While an account stays, no entry is pending for ever: an entry the      *)
(* server keeps refusing, a broken pass or a back-off does not hold it up. *)
EveryEntrySettles ==
    \A e \in Entries :
        outbox[e] = "PENDING" ~> outbox[e] # "PENDING" \/ account = Nobody
=============================================================================
