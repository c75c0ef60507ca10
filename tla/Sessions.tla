------------------------------ MODULE Sessions ------------------------------
(***************************************************************************)
(* The sessions of one account.  The tabs of a browser share its cookies:  *)
(* an access token and the refresh token that was signed with it, a pair.  *)
(* A request answered 401 makes its tab refresh, once for all its requests;*)
(* AuthService checks the refresh token in Redis and the account in a      *)
(* cache of a minute or in the database, revokes the token, signs a pair   *)
(* and stores it under its key and in the account's set, every access to   *)
(* Redis a step of its own.  Meanwhile administrators deactivate and       *)
(* reactivate the account, which ends its sessions in as many calls.       *)
(***************************************************************************)
EXTENDS Integers, FiniteSets

CONSTANTS
    Tabs,
    MaxPairs,       \* bound on the pairs signed
    MaxChanges,     \* bound on activations and deactivations
    MaxFailures     \* bound on failed calls and deaths

ASSUME BoundsAssumption ==
    MaxPairs \in Nat \ {0} /\ {MaxChanges, MaxFailures} \subseteq Nat

VARIABLES
    active,     \* users.is_active
    cached,     \* edulanka:user_active
    keys,       \* pairs whose refresh token is stored (edulanka:rt)
    index,      \* edulanka:user_rts, the account's set of them
    revoked,    \* user_revoked_at: the access tokens of pairs 1..revoked are refused
    issued,     \* pairs signed so far
    cookie,     \* the pair in the browser, 0 if none, and whether its access
                \* token has not expired
    tab,        \* what each tab waits for
    admin,      \* setActivationStatus, and the members it has read
    loose,      \* pairs that were being stored while a revocation ran, or whose
                \* own store or revocation was cut off between key and set
    excused,    \* a tab may have to sign in again
    changes, failures

redis == <<cached, keys, index, revoked>>
ghosts == <<loose, excused>>
vars == <<active, redis, issued, cookie, tab, admin, ghosts, changes, failures>>

Pairs == 1..MaxPairs
Out == [step |-> "out", for |-> "login", pair |-> 0, seen |-> FALSE]
In == [Out EXCEPT !.step = "in"]
Kicked == [Out EXCEPT !.step = "kicked"]
Revoking == {"members", "delete", "unlist", "stamp"}

TypeOK ==
    /\ active \in BOOLEAN /\ excused \in BOOLEAN
    /\ cached \in {"none", "yes", "no"}
    /\ {keys, index, loose} \subseteq SUBSET Pairs
    /\ issued \in 0..MaxPairs /\ revoked \in 0..issued
    /\ cookie \in [pair : 0..MaxPairs, fresh : BOOLEAN]
    /\ tab \in [Tabs -> [step : {"out", "in", "kicked", "fill", "run", "key",
                                 "account", "owner", "srem", "del", "sign", "set", "list",
                                 "answer"},
                         for : {"login", "call", "refresh", "logout"}, pair : 0..MaxPairs,
                         seen : BOOLEAN]]
    /\ admin \in [step : Revoking \union {"idle", "cache"}, held : SUBSET Pairs]
    /\ changes \in 0..MaxChanges /\ failures \in 0..MaxFailures

Init ==
    /\ active \in BOOLEAN /\ cached = "none"
    /\ keys = {} /\ index = {} /\ revoked = 0 /\ issued = 0
    /\ cookie = [pair |-> 0, fresh |-> FALSE]
    /\ tab = [t \in Tabs |-> Out]
    /\ admin = [step |-> "idle", held |-> {}]
    /\ loose = {} /\ excused = ~active /\ changes = 0 /\ failures = 0

Failure == failures < MaxFailures /\ failures' = failures + 1
At(t, step) == tab[t].step = step
Goto(t, step) == tab' = [tab EXCEPT ![t].step = step]
Become(t, r) == tab' = [tab EXCEPT ![t] = r]
Others == <<active, admin, changes>>

-----------------------------------------------------------------------------
(* AuthService.login, once the password is right.  Wrong ones are left out. *)
Login(t) ==
    /\ tab[t].step \in {"out", "kicked"}
    /\ active
    /\ Become(t, [Out EXCEPT !.step = "sign"])
    /\ UNCHANGED <<Others, redis, issued, cookie, ghosts, failures>>

(* A tab opened while the browser has the cookies. *)
Open(t) ==
    /\ At(t, "out") /\ cookie.pair # 0
    /\ Become(t, In)
    /\ UNCHANGED <<Others, redis, issued, cookie, ghosts, failures>>

-----------------------------------------------------------------------------
(* issueTokenPair and storeRefreshToken *)

Sign(t) ==
    /\ At(t, "sign")
    /\ issued < MaxPairs
    /\ issued' = issued + 1
    /\ tab' = [tab EXCEPT ![t].step = "set", ![t].pair = issued']
    /\ loose' = IF admin.step \in Revoking THEN loose \union {issued'} ELSE loose
    /\ UNCHANGED <<Others, redis, cookie, excused, failures>>

StoreKey(t) ==
    /\ At(t, "set")
    /\ keys' = keys \union {tab[t].pair}
    /\ Goto(t, "list")
    /\ UNCHANGED <<Others, cached, index, revoked, issued, cookie, ghosts, failures>>

StoreMember(t) ==
    /\ At(t, "list")
    /\ index' = index \union {tab[t].pair}
    /\ Goto(t, "answer")
    /\ UNCHANGED <<Others, cached, keys, revoked, issued, cookie, ghosts, failures>>

(* Mutant of Answer: a refresh renews the access token's cookie only. *)
AnswerAccessOnly(t) ==
    /\ At(t, "answer")
    /\ cookie' = [pair |-> IF cookie.pair = 0 THEN tab[t].pair ELSE cookie.pair, fresh |-> TRUE]
    /\ Become(t, In)
    /\ UNCHANGED <<Others, redis, issued, ghosts, failures>>

(* Both tokens come back as cookies. *)
Answer(t) ==
    /\ At(t, "answer")
    /\ cookie' = [pair |-> tab[t].pair, fresh |-> TRUE]
    /\ Become(t, In)
    /\ UNCHANGED <<Others, redis, issued, ghosts, failures>>

(* A store or a revocation that ends here leaves a key without its member. *)
CutOff(t) == At(t, "list") \/ (At(t, "del") /\ tab[t].pair \in keys)
NoteCutOff(t) == loose' = IF CutOff(t) THEN loose \union {tab[t].pair} ELSE loose

(* The handler fails, or its answer is lost. *)
AnswerLost(t) ==
    /\ tab[t].step \in {"key", "account", "fill", "owner", "srem", "del",
                       "sign", "set", "list", "answer"}
    /\ tab[t].for # "call"
    /\ Failure
    /\ Become(t, IF tab[t].for = "refresh" THEN Kicked ELSE Out)
    /\ excused' = TRUE
    /\ NoteCutOff(t)
    /\ UNCHANGED <<Others, redis, issued, cookie>>

-----------------------------------------------------------------------------
(* A request: apiFetch, JwtStrategy.validate and isUserActive *)

(* 401: the tab refreshes with the token of its cookie. *)
Refresh(t) ==
    /\ Become(t, [step |-> "key", for |-> "refresh", pair |-> cookie.pair, seen |-> FALSE])
    /\ excused' = (excused \/ \E u \in Tabs \ {t} : tab[u].for = "refresh")

(* A failed query of user_revoked_at reads as none. *)
Request(t) ==
    /\ At(t, "in")
    /\ \/ /\ cookie.fresh
          /\ IF cookie.pair > revoked THEN UNCHANGED failures ELSE Failure
          /\ Become(t, [step |-> "account", for |-> "call", pair |-> cookie.pair, seen |-> FALSE])
          /\ UNCHANGED excused
       \/ /\ ~(cookie.fresh /\ cookie.pair > revoked)
          /\ Refresh(t)
          /\ UNCHANGED failures
    /\ UNCHANGED <<Others, redis, issued, cookie, loose>>

(* isUserActive decides; a refused call refreshes, a refused refresh also  *)
(* gives up its token.                                                     *)
Decide(t, ok) ==
    IF tab[t].for = "refresh"
    THEN tab' = [tab EXCEPT ![t].step = "owner", ![t].seen = ok] /\ UNCHANGED excused
    ELSE IF ok
    THEN tab' = [tab EXCEPT ![t].step = "run", ![t].seen = FALSE] /\ UNCHANGED excused
    ELSE Refresh(t)

(* A cache that cannot be read is no cache. *)
CheckAccount(t) ==
    /\ At(t, "account")
    /\ \/ /\ IF cached = "none" THEN UNCHANGED failures ELSE Failure
          /\ tab' = [tab EXCEPT ![t].step = "fill", ![t].seen = active]
          /\ UNCHANGED excused
       \/ /\ cached # "none"
          /\ Decide(t, cached = "yes")
          /\ UNCHANGED failures
    /\ UNCHANGED <<Others, redis, issued, cookie, loose>>

(* cacheUserActive; an error of it is not looked at. *)
Cache(is) ==
    \/ cached' = (IF is THEN "yes" ELSE "no") /\ UNCHANGED failures
    \/ Failure /\ UNCHANGED cached

FillCache(t) ==
    /\ At(t, "fill")
    /\ Cache(tab[t].seen)
    /\ Decide(t, tab[t].seen)
    /\ UNCHANGED <<Others, keys, index, revoked, issued, cookie, loose>>

Run(t) ==
    /\ At(t, "run")
    /\ Become(t, In)
    /\ UNCHANGED <<Others, redis, issued, cookie, ghosts, failures>>

(* The request is POST /auth/logout: revokeRefreshToken. *)
Logout(t) ==
    /\ At(t, "run")
    /\ tab' = [tab EXCEPT ![t].step = "owner", ![t].for = "logout"]
    /\ excused' = TRUE
    /\ UNCHANGED <<Others, redis, issued, cookie, loose, failures>>

-----------------------------------------------------------------------------
(* refreshTokens *)

CheckKey(t) ==
    /\ At(t, "key")
    /\ IF tab[t].pair \in keys THEN Goto(t, "account") ELSE Become(t, Kicked)
    /\ UNCHANGED <<Others, redis, issued, cookie, ghosts, failures>>

(* revokeRefreshToken of a valid token, then a new pair; of the token of a *)
(* deactivated account; of the one a sign-out gives up.  Three calls: get, *)
(* srem where a key was found, del.                                        *)
FindOwner(t) ==
    /\ At(t, "owner")
    /\ Goto(t, IF tab[t].pair \in keys THEN "srem" ELSE "del")
    /\ UNCHANGED <<Others, redis, issued, cookie, ghosts, failures>>

Unlist(t) ==
    /\ At(t, "srem")
    /\ index' = index \ {tab[t].pair}
    /\ Goto(t, "del")
    /\ UNCHANGED <<Others, cached, keys, revoked, issued, cookie, ghosts, failures>>

Leave(t) ==
    \/ /\ tab[t].for = "refresh"
       /\ Become(t, IF tab[t].seen THEN [Out EXCEPT !.step = "sign", !.for = "refresh"] ELSE Kicked)
       /\ UNCHANGED cookie
    \/ /\ tab[t].for = "logout"
       /\ Become(t, Out)
       /\ cookie' = [pair |-> 0, fresh |-> FALSE]

Revoke(t) ==
    /\ At(t, "del")
    /\ keys' = keys \ {tab[t].pair}
    /\ Leave(t)
    /\ UNCHANGED <<Others, cached, index, revoked, issued, ghosts, failures>>

(* An error of any of the three is only logged. *)
RevokeFails(t) ==
    /\ tab[t].step \in {"owner", "srem", "del"}
    /\ Failure
    /\ Leave(t)
    /\ NoteCutOff(t)
    /\ UNCHANGED <<Others, redis, issued, excused>>

-----------------------------------------------------------------------------
(* UsersService.setActivationStatus; deactivate of students, teachers and  *)
(* parents, which only writes the row.                                     *)

Step(to) == admin' = [admin EXCEPT !.step = to]
ByAdmin == UNCHANGED <<issued, cookie, tab>>

SetActive ==
    /\ admin.step = "idle"
    /\ changes < MaxChanges /\ changes' = changes + 1
    /\ active' = ~active
    /\ \/ Step("cache")
       \/ active /\ UNCHANGED admin
    /\ excused' = TRUE
    /\ ByAdmin /\ UNCHANGED <<redis, loose, failures>>

CacheActive ==
    /\ admin.step = "cache"
    /\ Cache(active)
    /\ Step(IF active THEN "idle" ELSE "members")
    /\ loose' = IF active THEN loose
                  ELSE loose \union {tab[t].pair : t \in {u \in Tabs : tab[u].step \in {"set", "list"}}}
    /\ ByAdmin /\ UNCHANGED <<active, keys, index, revoked, excused, changes>>

(* Mutant of ReadMembers: the set is emptied without being read. *)
ReadNothing ==
    /\ admin.step = "members"
    /\ admin' = [step |-> "delete", held |-> {}]
    /\ ByAdmin /\ UNCHANGED <<active, redis, ghosts, changes, failures>>

(* revokeAllUserRefreshTokens *)
ReadMembers ==
    /\ admin.step = "members"
    /\ admin' = [step |-> "delete", held |-> index]
    /\ ByAdmin /\ UNCHANGED <<active, redis, ghosts, changes, failures>>

DeleteKeys ==
    /\ admin.step = "delete"
    /\ keys' = keys \ admin.held
    /\ admin' = [step |-> "unlist", held |-> {}]
    /\ ByAdmin /\ UNCHANGED <<active, cached, index, revoked, ghosts, changes, failures>>

DeleteSet ==
    /\ admin.step = "unlist"
    /\ index' = {}
    /\ Step("stamp")
    /\ ByAdmin /\ UNCHANGED <<active, cached, keys, revoked, ghosts, changes, failures>>

(* The time is kept in seconds: a pair signed in the same one is not older.*)
Stamp ==
    /\ admin.step = "stamp"
    /\ revoked' \in revoked..issued
    /\ Step("idle")
    /\ ByAdmin /\ UNCHANGED <<active, cached, keys, index, ghosts, changes, failures>>

(* A Redis error ends the revocation and is only logged; or a process dies.*)
AdminFails ==
    /\ admin.step \in Revoking \union {"cache"}
    /\ Failure
    /\ admin' = [step |-> "idle", held |-> {}]
    /\ UNCHANGED <<active, redis, issued, cookie, tab, ghosts, changes>>

-----------------------------------------------------------------------------
(* Mutant of CacheExpires: what says that the account is active is kept. *)
CacheKeepsYes ==
    /\ cached = "no"
    /\ cached' = "none"
    /\ ByAdmin /\ UNCHANGED <<Others, keys, index, revoked, ghosts, failures>>

(* A minute after it was written. *)
CacheExpires ==
    /\ cached # "none"
    /\ cached' = "none"
    /\ ByAdmin /\ UNCHANGED <<Others, keys, index, revoked, ghosts, failures>>

AccessExpires ==
    /\ cookie.fresh
    /\ cookie' = [cookie EXCEPT !.fresh = FALSE]
    /\ UNCHANGED <<Others, redis, issued, tab, ghosts, failures>>

Handler(t) ==
    \/ Sign(t) \/ StoreKey(t) \/ StoreMember(t) \/ Answer(t)
    \/ CheckAccount(t) \/ FillCache(t) \/ Run(t) \/ CheckKey(t)
    \/ FindOwner(t) \/ Unlist(t) \/ Revoke(t)
Change == SetActive \/ CacheActive \/ ReadMembers \/ DeleteKeys \/ DeleteSet \/ Stamp

Next ==
    \/ \E t \in Tabs : \/ Login(t) \/ Open(t) \/ Request(t) \/ Handler(t) \/ Logout(t)
                       \/ AnswerLost(t) \/ RevokeFails(t)
    \/ Change \/ AdminFails
    \/ CacheExpires \/ AccessExpires

Spec == Init /\ [][Next]_vars

(* Handlers run to their end, and Redis drops what has expired. *)
FairSpec ==
    /\ Spec
    /\ \A t \in Tabs : WF_vars(Handler(t))
    /\ WF_vars(CacheExpires)

-----------------------------------------------------------------------------
(* A tab is sent to the login page by an answer 401 only if the account    *)
(* was changed, another tab signed out or was refreshing at that moment, or *)
(* a call failed: a refresh that is over never signs out another tab.      *)
KickedNeedsCause == \A t \in Tabs : At(t, "kicked") => excused

SessionInv == TypeOK /\ KickedNeedsCause

(* No refresh token outlives the revocation that refuses its access token, *)
(* except one that was being stored while a revocation ran, one whose own  *)
(* store or revocation was cut off between its key and the account's set,  *)
(* and one that its rotation or sign-out is about to delete.               *)
Deleting == {tab[t].pair : t \in {u \in Tabs : At(u, "del")}}
RevokedIsGone == {p \in keys : p <= revoked} \subseteq loose \union Deleting

(* An account that stays deactivated is served no more from some time on,  *)
(* whatever the cache and the tokens in flight said.                       *)
DeactivatedStops == <>[](~active) => <>[](\A t \in Tabs : ~At(t, "run"))
=============================================================================
