--------------------------- MODULE SessionsProof ---------------------------
(***************************************************************************)
(* Proofs about accounts that come and go: Sessions, the cookies, keys and *)
(* refresh tokens of the browser's tabs, for any number of tabs, pairs,    *)
(* changes of the account and failures, and MobileSession, the accounts    *)
(* that follow each other on a phone, for any users, entries and mishaps.  *)
(***************************************************************************)
EXTENDS Sessions, MobileSession, WellFoundedInduction, FiniteSetTheorems, TLAPS

-----------------------------------------------------------------------------
(* Sessions.                                                               *)

TabSteps == {"out", "in", "kicked", "fill", "run", "key", "account", "owner", "srem", "del",
             "sign", "set", "list", "answer"}
Tab == [step : TabSteps, for : {"login", "call", "refresh", "logout"}, pair : 0..MaxPairs,
        seen : BOOLEAN]

(* A tab gives up its token, or is between the set and the key of one. *)
Giving(t)     == tab[t].step \in {"owner", "srem", "del"}
Between(t)    == tab[t].step \in {"list", "del"}
Signed(t)     == tab[t].step \in {"set", "list", "answer"}
Refreshing(t) == tab[t].for = "refresh"

(* No pair is ahead of the counter, and the one a tab is being given is    *)
(* nobody else's.                                                          *)
PairsKnown ==
    /\ cookie.pair <= issued
    /\ \A t \in Tabs :
          /\ tab[t].pair <= issued
          /\ tab[t].step = "key" => Refreshing(t)
          /\ Signed(t) => /\ tab[t].pair >= 1 /\ tab[t].pair # cookie.pair
                          /\ \A u \in Tabs \ {t} : tab[u].pair # tab[t].pair

(* A stored token is in the account's set, or about to be, or about to be  *)
(* deleted, or loose; what is left of them in the course of a revocation;  *)
(* and the tokens that are not stored yet.                                 *)
Listed   == \A p \in keys : p \in index \/ p \in loose
                            \/ \E t \in Tabs : Between(t) /\ tab[t].pair = p
Emptied  == /\ admin.step = "delete" => keys \subseteq admin.held \union loose \union Deleting
            /\ admin.step \in {"unlist", "stamp"} => keys \subseteq loose \union Deleting
OnTheWay == \A t \in Tabs :
               tab[t].step \in {"set", "list"} /\ (admin.step \in Revoking \/ tab[t].pair <= revoked)
                  => tab[t].pair \in loose

(* As long as nothing excuses a sign-out: the account is active wherever   *)
(* it is looked up, one tab refreshes at a time, with a token that is      *)
(* stored, and the browser's token is, but for one that is being replaced. *)
Fine(t) ==
    /\ tab[t].step # "kicked"
    /\ Giving(t) => Refreshing(t) /\ tab[t].seen
    /\ tab[t].step = "fill" => tab[t].seen
    /\ tab[t].step \in {"in", "run", "key", "account", "fill"} => cookie.pair # 0
    /\ tab[t].step \in {"key", "list", "answer"} => tab[t].pair \in keys
Quiet ==
    /\ active /\ admin.step = "idle" /\ revoked = 0 /\ cached # "no"
    /\ \A t \in Tabs : Fine(t)
    /\ \A t, u \in Tabs : Refreshing(t) /\ Refreshing(u) => t = u
    /\ cookie.pair = 0 \/ cookie.pair \in keys
       \/ \E t \in Tabs : Refreshing(t) /\ tab[t].step \in {"sign", "set", "list", "answer"}
Calm == ~excused => Quiet

Stores == Listed /\ Emptied /\ OnTheWay /\ RevokedIsGone
IInv == TypeOK /\ PairsKnown /\ Stores /\ Calm

LEMMA Types ==
  ASSUME TypeOK
  PROVE  /\ tab \in [Tabs -> Tab] /\ cookie \in [pair : 0..MaxPairs, fresh : BOOLEAN]
         /\ cookie.pair \in 0..MaxPairs /\ cookie.fresh \in BOOLEAN
         /\ issued \in 0..MaxPairs /\ revoked \in 0..issued /\ issued \in Nat /\ revoked \in Nat
         /\ MaxPairs \in Nat
         /\ \A t \in Tabs : /\ tab[t] \in Tab /\ tab[t].step \in TabSteps
                            /\ tab[t].for \in {"login", "call", "refresh", "logout"}
                            /\ tab[t].pair \in 0..MaxPairs /\ tab[t].seen \in BOOLEAN
BY BoundsAssumption DEF TypeOK, Tab, TabSteps

LEMMA FailureFacts ==
  ASSUME TypeOK, Failure
  PROVE  failures' \in 0..MaxFailures
BY BoundsAssumption DEF TypeOK, Failure

(* What a tab becomes *)
LEMMA Ends ==
  /\ Out \in Tab /\ Out.step = "out" /\ Out.for = "login" /\ Out.pair = 0
  /\ In \in Tab /\ In.step = "in" /\ In.for = "login" /\ In.pair = 0
  /\ Kicked \in Tab /\ Kicked.step = "kicked" /\ Kicked.for = "login" /\ Kicked.pair = 0
  /\ [Out EXCEPT !.step = "sign"] \in Tab /\ [Out EXCEPT !.step = "sign"].step = "sign"
  /\ [Out EXCEPT !.step = "sign"].for = "login" /\ [Out EXCEPT !.step = "sign"].pair = 0
  /\ [Out EXCEPT !.step = "sign", !.for = "refresh"] \in Tab
  /\ [Out EXCEPT !.step = "sign", !.for = "refresh"].step = "sign"
  /\ [Out EXCEPT !.step = "sign", !.for = "refresh"].for = "refresh"
  /\ [Out EXCEPT !.step = "sign", !.for = "refresh"].pair = 0
<1>1. 0 \in 0..MaxPairs
  BY BoundsAssumption
<1>2. Out \in Tab /\ Out.step = "out" /\ Out.for = "login" /\ Out.pair = 0
  BY <1>1 DEF Out, Tab, TabSteps
<1>3. In \in Tab /\ In.step = "in" /\ In.for = "login" /\ In.pair = 0
  BY <1>2 DEF In, Tab, TabSteps
<1>4. Kicked \in Tab /\ Kicked.step = "kicked" /\ Kicked.for = "login" /\ Kicked.pair = 0
  BY <1>2 DEF Kicked, Tab, TabSteps
<1>5. /\ [Out EXCEPT !.step = "sign"] \in Tab /\ [Out EXCEPT !.step = "sign"].step = "sign"
      /\ [Out EXCEPT !.step = "sign"].for = "login" /\ [Out EXCEPT !.step = "sign"].pair = 0
  BY <1>2 DEF Tab, TabSteps
<1>6. /\ [Out EXCEPT !.step = "sign", !.for = "refresh"] \in Tab
      /\ [Out EXCEPT !.step = "sign", !.for = "refresh"].step = "sign"
      /\ [Out EXCEPT !.step = "sign", !.for = "refresh"].for = "refresh"
      /\ [Out EXCEPT !.step = "sign", !.for = "refresh"].pair = 0
  BY <1>2 DEF Tab, TabSteps
<1>. QED  BY <1>2, <1>3, <1>4, <1>5, <1>6

LEMMA GotoFacts ==
  ASSUME TypeOK, NEW t \in Tabs, NEW s \in TabSteps, Goto(t, s)
  PROVE  \E r \in Tab : /\ tab' = [tab EXCEPT ![t] = r]
                        /\ r.step = s /\ r.for = tab[t].for
                        /\ r.pair = tab[t].pair /\ r.seen = tab[t].seen
<1>. DEFINE r == [tab[t] EXCEPT !.step = s]
<1>1. tab' = [tab EXCEPT ![t] = r]
  BY Types DEF Goto
<1>2. r \in Tab /\ r.step = s /\ r.for = tab[t].for /\ r.pair = tab[t].pair /\ r.seen = tab[t].seen
  BY Types DEF Tab
<1>. QED  BY <1>1, <1>2

(* A tab turns to something that is not given a pair, and tokens go from   *)
(* the set or the store: what leaves the set is deleted next, and what the *)
(* tab does not delete is loose.                                           *)
LEMMA TokenMove ==
  ASSUME IInv, NEW t \in Tabs, NEW r \in Tab, tab' = [tab EXCEPT ![t] = r],
         UNCHANGED <<active, revoked, issued, admin, changes>>,
         cookie' \in [pair : 0..MaxPairs, fresh : BOOLEAN], cookie'.pair \in {0, cookie.pair},
         keys' \subseteq keys, index' \subseteq index,
         \A p \in index \ index' : r.step = "del" /\ r.pair = p,
         r.step \notin {"set", "list", "answer"}, r.pair \in {0, cookie.pair, tab[t].pair},
         r.step = "key" => r.for = "refresh",
         cached' \in {"none", "yes", "no"}, excused' \in BOOLEAN, failures' \in 0..MaxFailures,
         loose \subseteq loose', loose' \subseteq Pairs,
         Between(t) /\ tab[t].pair \in keys' => tab[t].pair \in loose'
  PROVE  /\ TypeOK' /\ PairsKnown' /\ Stores'
         /\ tab'[t] = r /\ \A u \in Tabs : u # t => tab'[u] = tab[u]
<1>0. TypeOK /\ PairsKnown /\ Listed /\ Emptied /\ OnTheWay /\ RevokedIsGone
  BY DEF IInv, Stores
<1>1. /\ tab' \in [Tabs -> Tab] /\ tab'[t] = r
      /\ \A u \in Tabs : u # t => tab'[u] = tab[u]
  BY <1>0, Types
<1>2. TypeOK'
  <2>1. tab' \in [Tabs -> [step : {"out", "in", "kicked", "fill", "run", "key", "account",
                                   "owner", "srem", "del", "sign", "set", "list", "answer"},
                           for : {"login", "call", "refresh", "logout"}, pair : 0..MaxPairs,
                           seen : BOOLEAN]]
    BY <1>1 DEF Tab, TabSteps
  <2>. QED  BY <1>0, <2>1 DEF TypeOK
<1>3. /\ r.pair \in Nat /\ r.pair <= issued
      /\ cookie'.pair \in Nat /\ cookie'.pair <= issued
  BY <1>0, Types DEF Tab, PairsKnown
<1>4. PairsKnown'
  <2>1. ASSUME NEW u \in Tabs
        PROVE  /\ tab'[u].pair <= issued
               /\ tab'[u].step = "key" => tab'[u].for = "refresh"
    BY <1>0, <1>1, <1>3 DEF PairsKnown, Refreshing
  <2>2. ASSUME NEW u \in Tabs, tab'[u].step \in {"set", "list", "answer"}
        PROVE  /\ tab'[u].pair >= 1 /\ tab'[u].pair # cookie'.pair
               /\ \A v \in Tabs \ {u} : tab'[v].pair # tab'[u].pair
    <3>1. u # t /\ tab'[u] = tab[u] /\ Signed(u)
      BY <1>1, <2>2 DEF Signed
    <3>2. /\ tab[u].pair >= 1 /\ tab[u].pair # cookie.pair
          /\ \A v \in Tabs \ {u} : tab[v].pair # tab[u].pair
      BY <1>0, <3>1 DEF PairsKnown
    <3>3. r.pair # tab[u].pair /\ cookie'.pair # tab[u].pair
      BY <3>1, <3>2, <1>0, Types
    <3>. QED  BY <1>1, <3>1, <3>2, <3>3
  <2>. QED  BY <1>3, <2>1, <2>2 DEF PairsKnown, Signed, Refreshing
<1>5. Listed'
  <2>1. ASSUME NEW p \in keys'
        PROVE  \/ p \in index' \/ p \in loose'
               \/ \E u \in Tabs : tab'[u].step \in {"list", "del"} /\ tab'[u].pair = p
    <3>1. CASE \E u \in Tabs : Between(u) /\ tab[u].pair = p
      <4>1. PICK u \in Tabs : Between(u) /\ tab[u].pair = p
        BY <3>1
      <4>. QED  BY <1>1, <2>1, <4>1 DEF Between
    <3>2. CASE p \in index \/ p \in loose
      BY <1>1, <3>2
    <3>. QED  BY <1>0, <3>1, <3>2 DEF Listed
  <2>. QED  BY <2>1 DEF Listed, Between
<1>6. \A p \in Deleting \cap keys' : p \in loose' \union Deleting'
  <2>. SUFFICES ASSUME NEW p \in Deleting, p \in keys'
                PROVE  p \in loose' \/ \E u \in Tabs : tab'[u].step = "del" /\ tab'[u].pair = p
    BY DEF Deleting, At
  <2>1. PICK u \in Tabs : At(u, "del") /\ tab[u].pair = p
    BY DEF Deleting
  <2>. QED  BY <1>1, <2>1 DEF At, Between
<1>7. Emptied' /\ RevokedIsGone'
  BY <1>0, <1>6 DEF Emptied, RevokedIsGone
<1>8. OnTheWay'
  BY <1>0, <1>1 DEF OnTheWay
<1>. QED  BY <1>1, <1>2, <1>4, <1>5, <1>7, <1>8 DEF Stores

(* A tab turns to something that is not given a pair; the store is as it   *)
(* was, but that more may be loose.                                        *)
LEMMA TabMove ==
  ASSUME IInv, NEW t \in Tabs, NEW r \in Tab, tab' = [tab EXCEPT ![t] = r],
         UNCHANGED <<active, keys, index, revoked, issued, cookie, admin, changes>>,
         r.step \notin {"set", "list", "answer"}, r.pair \in {0, cookie.pair, tab[t].pair},
         r.step = "key" => r.for = "refresh",
         cached' \in {"none", "yes", "no"}, excused' \in BOOLEAN, failures' \in 0..MaxFailures,
         loose \subseteq loose', loose' \subseteq Pairs,
         Between(t) /\ tab[t].pair \in keys => tab[t].pair \in loose'
  PROVE  /\ TypeOK' /\ PairsKnown' /\ Stores'
         /\ tab'[t] = r /\ \A u \in Tabs : u # t => tab'[u] = tab[u]
<1>1. cookie' \in [pair : 0..MaxPairs, fresh : BOOLEAN] /\ cookie'.pair \in {0, cookie.pair}
  BY Types DEF IInv
<1>. QED  BY <1>1, TokenMove

Replacing(t) == Refreshing(t) /\ tab[t].step \in {"sign", "set", "list", "answer"}

(* The same of what the browser relies on; r is all that is new. *)
LEMMA CalmMove ==
  ASSUME IInv, NEW t \in Tabs, NEW r \in Tab, tab'[t] = r,
         \A u \in Tabs : u # t => tab'[u] = tab[u],
         UNCHANGED <<active, revoked, cookie, admin>>, keys \subseteq keys',
         excused => excused', excused \in BOOLEAN, excused' \in BOOLEAN,
         ~excused' =>
            /\ cached' # "no"
            /\ r.step # "kicked"
            /\ r.step \in {"owner", "srem", "del"} => r.for = "refresh" /\ r.seen
            /\ r.step = "fill" => r.seen
            /\ r.step \in {"in", "run", "key", "account", "fill"} => cookie.pair # 0
            /\ r.step \in {"key", "list", "answer"} => r.pair \in keys'
            /\ r.for = "refresh" => \A u \in Tabs \ {t} : ~Refreshing(u)
            /\ ~Replacing(t) \/ (r.for = "refresh" /\ r.step \in {"sign", "set", "list", "answer"})
  PROVE  Calm'
<1>. SUFFICES ASSUME ~excused' PROVE Quiet'
  BY DEF Calm
<1>1. Quiet
  BY DEF IInv, Calm
<1>2. active' /\ admin'.step = "idle" /\ revoked' = 0 /\ cached' # "no"
  BY <1>1 DEF Quiet
<1>3. ASSUME NEW u \in Tabs
      PROVE  /\ tab'[u].step # "kicked"
             /\ tab'[u].step \in {"owner", "srem", "del"} => tab'[u].for = "refresh" /\ tab'[u].seen
             /\ tab'[u].step = "fill" => tab'[u].seen
             /\ tab'[u].step \in {"in", "run", "key", "account", "fill"} => cookie'.pair # 0
             /\ tab'[u].step \in {"key", "list", "answer"} => tab'[u].pair \in keys'
  <2>1. CASE u = t
    BY <2>1
  <2>2. CASE u # t
    <3>1. tab'[u] = tab[u] /\ Fine(u)
      BY <1>1, <2>2 DEF Quiet
    <3>. QED  BY <3>1 DEF Fine, Giving, Refreshing
  <2>. QED  BY <2>1, <2>2
<1>4. ASSUME NEW u \in Tabs, NEW v \in Tabs,
             tab'[u].for = "refresh", tab'[v].for = "refresh"
      PROVE  u = v
  <2>1. CASE u # t /\ v # t
    BY <1>1, <1>4, <2>1 DEF Quiet, Refreshing
  <2>2. CASE u = t \/ v = t
    BY <1>4, <2>2 DEF Refreshing
  <2>. QED  BY <2>1, <2>2
<1>5. \/ cookie'.pair = 0 \/ cookie'.pair \in keys'
      \/ \E u \in Tabs : tab'[u].for = "refresh" /\ tab'[u].step \in {"sign", "set", "list", "answer"}
  <2>1. CASE cookie.pair = 0 \/ cookie.pair \in keys
    BY <2>1
  <2>2. CASE \E u \in Tabs : Replacing(u)
    <3>1. PICK u \in Tabs : Replacing(u)
      BY <2>2
    <3>2. tab'[u].for = "refresh" /\ tab'[u].step \in {"sign", "set", "list", "answer"}
      <4>1. CASE u = t
        BY <3>1, <4>1
      <4>2. CASE u # t
        BY <3>1, <4>2 DEF Replacing, Refreshing
      <4>. QED  BY <4>1, <4>2
    <3>. QED  BY <3>2
  <2>. QED  BY <1>1, <2>1, <2>2 DEF Quiet, Replacing
<1>. QED  BY <1>2, <1>3, <1>4, <1>5 DEF Quiet, Fine, Refreshing, Giving

LEMMA CalmFacts ==
  ASSUME IInv, ~excused
  PROVE  /\ active /\ admin.step = "idle" /\ revoked = 0 /\ cached # "no"
         /\ \A t \in Tabs : /\ tab[t].step # "kicked"
                            /\ Giving(t) => Refreshing(t) /\ tab[t].seen
                            /\ tab[t].step = "fill" => tab[t].seen
                            /\ tab[t].step \in {"in", "run", "key", "account", "fill"} => cookie.pair # 0
                            /\ tab[t].step \in {"key", "list", "answer"} => tab[t].pair \in keys
         /\ \A t, u \in Tabs : Refreshing(t) /\ Refreshing(u) => t = u
         /\ cookie.pair = 0 \/ cookie.pair \in keys \/ \E t \in Tabs : Replacing(t)
BY DEF IInv, Calm, Quiet, Fine, Replacing

LEMMA GhostTypes ==
  ASSUME IInv
  PROVE  /\ TypeOK /\ excused \in BOOLEAN /\ loose \subseteq Pairs
         /\ cached \in {"none", "yes", "no"} /\ failures \in 0..MaxFailures
         /\ active \in BOOLEAN
BY DEF IInv, TypeOK

-----------------------------------------------------------------------------
(* Requests and their answers *)

LEMMA LoginStep ==
  ASSUME IInv, NEW t \in Tabs, Login(t)
  PROVE  IInv'
<1>. DEFINE r == [Out EXCEPT !.step = "sign"]
<1>1. /\ r \in Tab /\ r.step = "sign" /\ r.for = "login" /\ r.pair = 0
      /\ tab' = [tab EXCEPT ![t] = r] /\ tab[t].step \in {"out", "kicked"}
      /\ UNCHANGED <<active, cached, keys, index, revoked, issued, cookie, admin, loose, excused,
                     changes, failures>>
  BY Ends DEF Login, Become, Others, redis, ghosts
<1>. HIDE DEF r
<1>2. /\ TypeOK' /\ PairsKnown' /\ Stores'
      /\ tab'[t] = r /\ \A u \in Tabs : u # t => tab'[u] = tab[u]
  BY <1>1, GhostTypes, TabMove DEF Between
<1>3. Calm'
  BY <1>1, <1>2, GhostTypes, CalmFacts, CalmMove DEF Replacing
<1>. QED  BY <1>2, <1>3 DEF IInv

LEMMA OpenStep ==
  ASSUME IInv, NEW t \in Tabs, Open(t)
  PROVE  IInv'
<1>1. /\ In \in Tab /\ In.step = "in" /\ In.for = "login" /\ In.pair = 0
      /\ tab' = [tab EXCEPT ![t] = In] /\ tab[t].step = "out" /\ cookie.pair # 0
      /\ UNCHANGED <<active, cached, keys, index, revoked, issued, cookie, admin, loose, excused,
                     changes, failures>>
  BY Ends DEF Open, Become, Others, redis, ghosts, At
<1>2. /\ TypeOK' /\ PairsKnown' /\ Stores'
      /\ tab'[t] = In /\ \A u \in Tabs : u # t => tab'[u] = tab[u]
  BY <1>1, GhostTypes, TabMove DEF Between
<1>3. Calm'
  BY <1>1, <1>2, GhostTypes, CalmFacts, CalmMove DEF Replacing
<1>. QED  BY <1>2, <1>3 DEF IInv

LEMMA RunStep ==
  ASSUME IInv, NEW t \in Tabs, Run(t)
  PROVE  IInv'
<1>1. /\ In \in Tab /\ In.step = "in" /\ In.for = "login" /\ In.pair = 0
      /\ tab' = [tab EXCEPT ![t] = In] /\ tab[t].step = "run"
      /\ UNCHANGED <<active, cached, keys, index, revoked, issued, cookie, admin, loose, excused,
                     changes, failures>>
  BY Ends DEF Run, Become, Others, redis, ghosts, At
<1>2. /\ TypeOK' /\ PairsKnown' /\ Stores'
      /\ tab'[t] = In /\ \A u \in Tabs : u # t => tab'[u] = tab[u]
  BY <1>1, GhostTypes, TabMove DEF Between
<1>3. Calm'
  BY <1>1, <1>2, GhostTypes, CalmFacts, CalmMove DEF Replacing
<1>. QED  BY <1>2, <1>3 DEF IInv

(* A tab begins to refresh: with a stored token, if nothing excuses that   *)
(* it has none.                                                            *)
LEMMA RefreshStep ==
  ASSUME IInv, NEW t \in Tabs, Refresh(t), tab[t].step \in {"in", "account", "fill"},
         ~Replacing(t), cached' \in {"none", "yes", "no"},
         tab[t].step = "in" \/ excused, cached' = cached \/ excused,
         failures' \in 0..MaxFailures,
         UNCHANGED <<active, keys, index, revoked, issued, cookie, admin, loose, changes>>
  PROVE  IInv'
<1>. DEFINE r == [step |-> "key", for |-> "refresh", pair |-> cookie.pair, seen |-> FALSE]
<1>1. tab' = [tab EXCEPT ![t] = r]
  BY DEF Refresh, Become
<1>2. r \in Tab /\ r.step = "key" /\ r.for = "refresh" /\ r.pair = cookie.pair
  BY GhostTypes, Types DEF Tab, TabSteps
<1>3. excused' = (excused \/ \E u \in Tabs \ {t} : Refreshing(u))
  BY DEF Refresh, Refreshing
<1>. HIDE DEF r
<1>4. excused' \in BOOLEAN /\ (excused => excused')
      /\ (~excused' => \A u \in Tabs \ {t} : ~Refreshing(u)) /\ excused \in BOOLEAN
  BY <1>3, GhostTypes
<1>5. /\ TypeOK' /\ PairsKnown' /\ Stores'
      /\ tab'[t] = r /\ \A u \in Tabs : u # t => tab'[u] = tab[u]
  BY <1>1, <1>2, <1>4, GhostTypes, TabMove DEF Between
<1>6. ASSUME ~excused'
      PROVE  cookie.pair # 0 /\ cookie.pair \in keys /\ cached' # "no"
  <2>1. ~excused /\ tab[t].step = "in" /\ cached' = cached
    BY <1>4, <1>6
  <2>2. ~\E u \in Tabs : Replacing(u)
    BY <1>4, <1>6 DEF Replacing
  <2>. QED  BY <2>1, <2>2, CalmFacts
<1>7. Calm'
  BY <1>2, <1>4, <1>5, <1>6, CalmMove
<1>. QED  BY <1>5, <1>7 DEF IInv

LEMMA RequestStep ==
  ASSUME IInv, NEW t \in Tabs, Request(t)
  PROVE  IInv'
<1>1. /\ tab[t].step = "in" /\ failures' \in 0..MaxFailures
      /\ UNCHANGED <<active, cached, keys, index, revoked, issued, cookie, admin, loose, changes>>
  BY GhostTypes, FailureFacts DEF Request, Others, redis, At
<1>. DEFINE r == [step |-> "account", for |-> "call", pair |-> cookie.pair, seen |-> FALSE]
<1>2. CASE tab' = [tab EXCEPT ![t] = r] /\ excused' = excused
  <2>1. r \in Tab /\ r.step = "account" /\ r.for = "call" /\ r.pair = cookie.pair
    BY GhostTypes, Types DEF Tab, TabSteps
  <2>. HIDE DEF r
  <2>2. /\ TypeOK' /\ PairsKnown' /\ Stores'
        /\ tab'[t] = r /\ \A u \in Tabs : u # t => tab'[u] = tab[u]
    BY <1>1, <1>2, <2>1, GhostTypes, TabMove DEF Between
  <2>3. Calm'
    BY <1>1, <1>2, <2>1, <2>2, GhostTypes, CalmFacts, CalmMove DEF Replacing
  <2>. QED  BY <2>2, <2>3 DEF IInv
<1>3. CASE Refresh(t) /\ UNCHANGED failures
  BY <1>1, <1>3, GhostTypes, RefreshStep DEF Replacing
<1>. QED  BY <1>2, <1>3 DEF Request, Become

(* The verdict on the account is only bad if it was changed. *)
LEMMA DecideStep ==
  ASSUME IInv, NEW t \in Tabs, NEW ok \in BOOLEAN, Decide(t, ok),
         tab[t].step \in {"account", "fill"}, ok \/ excused,
         cached' \in {"none", "yes", "no"}, ~excused => cached' # "no",
         failures' \in 0..MaxFailures,
         UNCHANGED <<active, keys, index, revoked, issued, cookie, admin, loose, changes>>
  PROVE  IInv'
<1>1. CASE ~Refreshing(t) /\ ~ok
  <2>1. Refresh(t)
    BY <1>1 DEF Decide, Refreshing
  <2>. QED  BY <1>1, <2>1, RefreshStep DEF Replacing
<1>2. CASE Refreshing(t) \/ ok
  <2>1. PICK s \in {"owner", "run"}, b \in BOOLEAN :
           /\ tab' = [tab EXCEPT ![t].step = s, ![t].seen = b] /\ excused' = excused
           /\ Refreshing(t) <=> s = "owner"
           /\ s = "owner" => b = ok
    BY <1>2 DEF Decide, Refreshing
  <2>. DEFINE r == [tab[t] EXCEPT !.step = s, !.seen = b]
  <2>2. tab' = [tab EXCEPT ![t] = r]
    BY <2>1, GhostTypes, Types
  <2>3. r \in Tab /\ r.step = s /\ r.for = tab[t].for /\ r.pair = tab[t].pair /\ r.seen = b
    BY <2>1, GhostTypes, Types DEF Tab, TabSteps
  <2>. HIDE DEF r
  <2>4. /\ TypeOK' /\ PairsKnown' /\ Stores'
        /\ tab'[t] = r /\ \A u \in Tabs : u # t => tab'[u] = tab[u]
    BY <2>1, <2>2, <2>3, GhostTypes, TabMove DEF Between
  <2>5. ASSUME ~excused'
        PROVE  /\ r.step \notin {"kicked", "list", "answer", "fill", "key"}
               /\ r.step \in {"owner", "srem", "del"} => r.for = "refresh" /\ r.seen
               /\ cookie.pair # 0 /\ cached' # "no" /\ ~Replacing(t)
               /\ r.for = "refresh" => \A u \in Tabs \ {t} : ~Refreshing(u)
    <3>1. ~excused /\ ok
      BY <2>1, <2>5
    <3>2. cookie.pair # 0 /\ \A u, v \in Tabs : Refreshing(u) /\ Refreshing(v) => u = v
      BY <3>1, CalmFacts
    <3>. QED  BY <2>1, <2>3, <3>1, <3>2 DEF Replacing, Refreshing
  <2>6. Calm'
    BY <2>1, <2>3, <2>4, <2>5, GhostTypes, CalmMove
  <2>. QED  BY <2>4, <2>6 DEF IInv
<1>. QED  BY <1>1, <1>2

LEMMA CheckAccountStep ==
  ASSUME IInv, NEW t \in Tabs, CheckAccount(t)
  PROVE  IInv'
<1>1. /\ tab[t].step = "account" /\ failures' \in 0..MaxFailures
      /\ UNCHANGED <<active, cached, keys, index, revoked, issued, cookie, admin, loose, changes>>
  BY GhostTypes, FailureFacts DEF CheckAccount, Others, redis, At
<1>2. CASE tab' = [tab EXCEPT ![t].step = "fill", ![t].seen = active] /\ excused' = excused
  <2>. DEFINE r == [tab[t] EXCEPT !.step = "fill", !.seen = active]
  <2>1. tab' = [tab EXCEPT ![t] = r]
    BY <1>2, GhostTypes, Types
  <2>2. r \in Tab /\ r.step = "fill" /\ r.for = tab[t].for /\ r.pair = tab[t].pair /\ r.seen = active
    BY GhostTypes, Types DEF Tab, TabSteps
  <2>. HIDE DEF r
  <2>3. /\ TypeOK' /\ PairsKnown' /\ Stores'
        /\ tab'[t] = r /\ \A u \in Tabs : u # t => tab'[u] = tab[u]
    BY <1>1, <1>2, <2>1, <2>2, GhostTypes, TabMove DEF Between
  <2>4. ASSUME ~excused'
        PROVE  /\ active /\ cookie.pair # 0 /\ cached' # "no" /\ ~Replacing(t)
               /\ r.for = "refresh" => \A u \in Tabs \ {t} : ~Refreshing(u)
    <3>1. /\ active /\ cached # "no" /\ cookie.pair # 0
          /\ \A u, v \in Tabs : Refreshing(u) /\ Refreshing(v) => u = v
      BY <1>1, <1>2, <2>4, CalmFacts
    <3>. QED  BY <1>1, <2>2, <3>1 DEF Replacing, Refreshing
  <2>5. Calm'
    BY <1>1, <1>2, <2>2, <2>3, <2>4, GhostTypes, CalmMove
  <2>. QED  BY <2>3, <2>5 DEF IInv
<1>3. CASE cached # "none" /\ Decide(t, cached = "yes")
  <2>. DEFINE ok == cached = "yes"
  <2>1. Decide(t, ok)
    BY <1>3
  <2>2. ok \in BOOLEAN /\ (ok \/ excused) /\ (~excused => cached' # "no")
    BY <1>1, <1>3, GhostTypes, CalmFacts
  <2>. HIDE DEF ok
  <2>. QED  BY <1>1, <2>1, <2>2, GhostTypes, DecideStep
<1>. QED  BY <1>2, <1>3 DEF CheckAccount

LEMMA CacheFacts ==
  ASSUME IInv, NEW is \in BOOLEAN, Cache(is)
  PROVE  /\ cached' \in {"none", "yes", "no"} /\ failures' \in 0..MaxFailures
         /\ cached' = "no" => ~is \/ cached = "no"
BY GhostTypes, FailureFacts DEF Cache

LEMMA FillCacheStep ==
  ASSUME IInv, NEW t \in Tabs, FillCache(t)
  PROVE  IInv'
<1>1. /\ tab[t].step = "fill" /\ Decide(t, tab[t].seen) /\ Cache(tab[t].seen)
      /\ UNCHANGED <<active, keys, index, revoked, issued, cookie, admin, loose, changes>>
  BY DEF FillCache, Others, At
<1>2. tab[t].seen \in BOOLEAN /\ (tab[t].seen \/ excused)
  BY <1>1, GhostTypes, Types, CalmFacts
<1>3. /\ cached' \in {"none", "yes", "no"} /\ failures' \in 0..MaxFailures
      /\ ~excused => cached' # "no"
  BY <1>1, <1>2, CacheFacts, CalmFacts
<1>. QED  BY <1>1, <1>2, <1>3, DecideStep

LEMMA CheckKeyStep ==
  ASSUME IInv, NEW t \in Tabs, CheckKey(t)
  PROVE  IInv'
<1>1. /\ tab[t].step = "key" /\ Refreshing(t)
      /\ UNCHANGED <<active, cached, keys, index, revoked, issued, cookie, admin, loose, excused,
                     changes, failures>>
  BY DEF CheckKey, Others, redis, ghosts, At, IInv, PairsKnown
<1>2. CASE tab[t].pair \in keys
  <2>1. PICK r \in Tab : /\ tab' = [tab EXCEPT ![t] = r]
                         /\ r.step = "account" /\ r.for = tab[t].for
                         /\ r.pair = tab[t].pair /\ r.seen = tab[t].seen
    BY <1>2, GhostTypes, GotoFacts DEF CheckKey, TabSteps
  <2>2. /\ TypeOK' /\ PairsKnown' /\ Stores'
        /\ tab'[t] = r /\ \A u \in Tabs : u # t => tab'[u] = tab[u]
    BY <1>1, <2>1, GhostTypes, TabMove DEF Between
  <2>3. ASSUME ~excused'
        PROVE  /\ cookie.pair # 0 /\ cached' # "no" /\ ~Replacing(t)
               /\ \A u \in Tabs \ {t} : ~Refreshing(u)
    <3>1. /\ cached # "no" /\ cookie.pair # 0
          /\ \A u, v \in Tabs : Refreshing(u) /\ Refreshing(v) => u = v
      BY <1>1, <2>3, CalmFacts
    <3>. QED  BY <1>1, <3>1 DEF Replacing
  <2>4. Calm'
    BY <1>1, <2>1, <2>2, <2>3, GhostTypes, CalmMove
  <2>. QED  BY <2>2, <2>4 DEF IInv
<1>3. CASE tab[t].pair \notin keys
  <2>1. tab' = [tab EXCEPT ![t] = Kicked]
    BY <1>3 DEF CheckKey, Become
  <2>2. /\ TypeOK' /\ PairsKnown' /\ Stores'
        /\ tab'[t] = Kicked /\ \A u \in Tabs : u # t => tab'[u] = tab[u]
    BY <1>1, <2>1, Ends, GhostTypes, TabMove DEF Between
  <2>3. excused'
    BY <1>1, <1>3, CalmFacts
  <2>. QED  BY <2>2, <2>3 DEF IInv, Calm
<1>. QED  BY <1>2, <1>3

(* What a step of a refresh that is not excused leaves as it is. *)
LEMMA GivingFacts ==
  ASSUME IInv, NEW t \in Tabs, Giving(t), ~excused
  PROVE  /\ cached # "no" /\ ~Replacing(t) /\ Refreshing(t) /\ tab[t].seen
         /\ \A u \in Tabs \ {t} : ~Refreshing(u)
<1>1. /\ cached # "no" /\ Refreshing(t) /\ tab[t].seen
      /\ \A u, v \in Tabs : Refreshing(u) /\ Refreshing(v) => u = v
  BY CalmFacts
<1>. QED  BY <1>1 DEF Replacing, Giving

LEMMA FindOwnerStep ==
  ASSUME IInv, NEW t \in Tabs, FindOwner(t)
  PROVE  IInv'
<1>1. /\ tab[t].step = "owner" /\ Giving(t)
      /\ UNCHANGED <<active, cached, keys, index, revoked, issued, cookie, admin, loose, excused,
                     changes, failures>>
  BY DEF FindOwner, Others, redis, ghosts, At, Giving
<1>2. PICK s \in {"srem", "del"} : Goto(t, s)
  BY DEF FindOwner
<1>3. PICK r \in Tab : /\ tab' = [tab EXCEPT ![t] = r]
                       /\ r.step = s /\ r.for = tab[t].for
                       /\ r.pair = tab[t].pair /\ r.seen = tab[t].seen
  BY <1>2, GhostTypes, GotoFacts DEF TabSteps
<1>4. /\ TypeOK' /\ PairsKnown' /\ Stores'
      /\ tab'[t] = r /\ \A u \in Tabs : u # t => tab'[u] = tab[u]
  BY <1>1, <1>3, GhostTypes, TabMove DEF Between
<1>5. ASSUME ~excused
      PROVE  /\ cached # "no" /\ ~Replacing(t) /\ r.for = "refresh" /\ r.seen
             /\ \A u \in Tabs \ {t} : ~Refreshing(u)
  BY <1>1, <1>3, <1>5, GivingFacts DEF Refreshing
<1>6. Calm'
  BY <1>1, <1>3, <1>4, <1>5, GhostTypes, CalmMove
<1>. QED  BY <1>4, <1>6 DEF IInv

(* A member goes before its key. *)
LEMMA UnlistStep ==
  ASSUME IInv, NEW t \in Tabs, Unlist(t)
  PROVE  IInv'
<1>1. /\ tab[t].step = "srem" /\ Giving(t) /\ index' = index \ {tab[t].pair}
      /\ UNCHANGED <<active, cached, keys, revoked, issued, cookie, admin, loose, excused,
                     changes, failures>>
  BY DEF Unlist, Others, ghosts, At, Giving
<1>2. PICK r \in Tab : /\ tab' = [tab EXCEPT ![t] = r]
                       /\ r.step = "del" /\ r.for = tab[t].for
                       /\ r.pair = tab[t].pair /\ r.seen = tab[t].seen
  BY GhostTypes, GotoFacts DEF Unlist, TabSteps
<1>3. cookie' \in [pair : 0..MaxPairs, fresh : BOOLEAN] /\ cookie'.pair \in {0, cookie.pair}
  BY <1>1, GhostTypes, Types
<1>10. index' \subseteq index /\ \A p \in index \ index' : r.step = "del" /\ r.pair = p
  BY <1>1, <1>2
<1>4. /\ TypeOK' /\ PairsKnown' /\ Stores'
      /\ tab'[t] = r /\ \A u \in Tabs : u # t => tab'[u] = tab[u]
  BY <1>1, <1>2, <1>3, <1>10, GhostTypes, TokenMove DEF Between
<1>5. ASSUME ~excused
      PROVE  /\ cached # "no" /\ ~Replacing(t) /\ r.for = "refresh" /\ r.seen
             /\ \A u \in Tabs \ {t} : ~Refreshing(u)
  BY <1>1, <1>2, <1>5, GivingFacts DEF Refreshing
<1>6. Calm'
  BY <1>1, <1>2, <1>4, <1>5, GhostTypes, CalmMove
<1>. QED  BY <1>4, <1>6 DEF IInv

(* A tab is done with its token, which is deleted or left behind. *)
LEMMA LeaveStep ==
  ASSUME IInv, NEW t \in Tabs, Giving(t), Leave(t),
         keys' = keys \/ keys' = keys \ {tab[t].pair},
         At(t, "del") /\ tab[t].pair \in keys' => tab[t].pair \in loose',
         loose \subseteq loose', loose' \subseteq Pairs, failures' \in 0..MaxFailures,
         UNCHANGED <<active, cached, index, revoked, issued, admin, excused, changes>>
  PROVE  IInv'
<1>1. Giving(t) => ~At(t, "list")
  BY DEF Giving, At
<1>2. CASE tab[t].for = "logout" /\ tab' = [tab EXCEPT ![t] = Out]
           /\ cookie' = [pair |-> 0, fresh |-> FALSE]
  <2>1. cookie' \in [pair : 0..MaxPairs, fresh : BOOLEAN] /\ cookie'.pair \in {0, cookie.pair}
    BY <1>2, BoundsAssumption
  <2>2. TypeOK' /\ PairsKnown' /\ Stores'
    BY <1>1, <1>2, <2>1, Ends, GhostTypes, TokenMove DEF Between, At
  <2>3. excused'
    BY <1>2, GivingFacts DEF Refreshing
  <2>. QED  BY <2>2, <2>3 DEF IInv, Calm
<1>3. ASSUME tab[t].for = "refresh", cookie' = cookie,
             NEW r \in Tab, tab' = [tab EXCEPT ![t] = r], r.pair = 0,
             \/ r.step = "sign" /\ r.for = "refresh"
             \/ r.step = "kicked" /\ ~tab[t].seen
      PROVE  IInv'
  <2>1. cookie' \in [pair : 0..MaxPairs, fresh : BOOLEAN] /\ cookie'.pair \in {0, cookie.pair}
    BY <1>3, GhostTypes, Types
  <2>2. /\ TypeOK' /\ PairsKnown' /\ Stores'
        /\ tab'[t] = r /\ \A u \in Tabs : u # t => tab'[u] = tab[u]
    BY <1>1, <1>3, <2>1, GhostTypes, TokenMove DEF Between, At
  <2>3. Calm'
    <3>. SUFFICES ASSUME ~excused' PROVE Quiet'
      BY DEF Calm
    <3>1. Quiet /\ tab[t].seen /\ \A u \in Tabs \ {t} : ~Refreshing(u)
      BY GivingFacts DEF IInv, Calm
    <3>2. r.step = "sign" /\ r.for = "refresh"
      BY <1>3, <3>1
    <3>3. ASSUME NEW u \in Tabs
          PROVE  /\ tab'[u].step # "kicked"
                 /\ tab'[u].step \in {"owner", "srem", "del"} =>
                       tab'[u].for = "refresh" /\ tab'[u].seen
                 /\ tab'[u].step = "fill" => tab'[u].seen
                 /\ tab'[u].step \in {"in", "run", "key", "account", "fill"} => cookie.pair # 0
                 /\ tab'[u].step \in {"key", "list", "answer"} => tab'[u].pair \in keys'
      <4>1. CASE u = t
        BY <2>2, <3>2, <4>1
      <4>2. CASE u # t
        <5>1. tab'[u] = tab[u] /\ Fine(u) /\ tab[u].step # "key"
          BY <2>2, <3>1, <4>2 DEF Quiet, IInv, PairsKnown
        <5>2. tab[u].step \in {"list", "answer"} => tab[t].pair # tab[u].pair
          BY <4>2 DEF IInv, PairsKnown, Signed
        <5>. QED  BY <5>1, <5>2 DEF Fine, Giving, Refreshing
      <4>. QED  BY <4>1, <4>2
    <3>4. \A u, v \in Tabs : tab'[u].for = "refresh" /\ tab'[v].for = "refresh" => u = v
      BY <2>2, <3>1 DEF Refreshing
    <3>5. tab'[t].for = "refresh" /\ tab'[t].step = "sign"
      BY <2>2, <3>2
    <3>. QED  BY <1>3, <3>1, <3>3, <3>4, <3>5 DEF Quiet, Fine, Refreshing, Giving
  <2>. QED  BY <2>2, <2>3 DEF IInv
<1>4. CASE tab[t].for = "refresh" /\ tab[t].seen /\ cookie' = cookie
           /\ tab' = [tab EXCEPT ![t] = [Out EXCEPT !.step = "sign", !.for = "refresh"]]
  BY <1>3, <1>4, Ends
<1>5. CASE tab[t].for = "refresh" /\ ~tab[t].seen /\ cookie' = cookie
           /\ tab' = [tab EXCEPT ![t] = Kicked]
  BY <1>3, <1>5, Ends
<1>. QED  BY <1>2, <1>4, <1>5 DEF Leave, Become

LEMMA RevokeStep ==
  ASSUME IInv, NEW t \in Tabs, Revoke(t)
  PROVE  IInv'
<1>1. /\ Giving(t) /\ Leave(t) /\ keys' = keys \ {tab[t].pair}
      /\ UNCHANGED <<active, cached, index, revoked, issued, admin, loose, excused, changes,
                     failures>>
  BY DEF Revoke, Others, ghosts, At, Giving
<1>. QED  BY <1>1, GhostTypes, LeaveStep

(* A token whose revocation is cut off between its set and its key is loose.*)
LEMMA CutOffFacts ==
  ASSUME IInv, NEW t \in Tabs, NoteCutOff(t)
  PROVE  /\ loose \subseteq loose' /\ loose' \subseteq Pairs
         /\ Between(t) /\ tab[t].pair \in keys => tab[t].pair \in loose'
<1>1. At(t, "list") => tab[t].pair \in Pairs
  BY GhostTypes, Types DEF IInv, PairsKnown, Signed, At, Pairs
<1>2. keys \subseteq Pairs
  BY DEF IInv, TypeOK
<1>. QED  BY <1>1, <1>2, GhostTypes DEF NoteCutOff, CutOff, Between, At

LEMMA RevokeFailsStep ==
  ASSUME IInv, NEW t \in Tabs, RevokeFails(t)
  PROVE  IInv'
<1>1. /\ Giving(t) /\ Leave(t) /\ NoteCutOff(t) /\ failures' \in 0..MaxFailures
      /\ UNCHANGED <<active, cached, keys, index, revoked, issued, admin, excused, changes>>
  BY GhostTypes, FailureFacts DEF RevokeFails, Others, redis, Giving
<1>. QED  BY <1>1, CutOffFacts, LeaveStep DEF Between, At

(* A sign-out is excused. *)
LEMMA LogoutStep ==
  ASSUME IInv, NEW t \in Tabs, Logout(t)
  PROVE  IInv'
<1>1. /\ tab[t].step = "run" /\ excused' = TRUE
      /\ UNCHANGED <<active, cached, keys, index, revoked, issued, cookie, admin, loose, changes,
                     failures>>
  BY DEF Logout, Others, redis, At
<1>2. PICK r \in Tab : /\ tab' = [tab EXCEPT ![t] = r]
                       /\ r.step = "owner" /\ r.pair = tab[t].pair
  <2>. DEFINE r == [tab[t] EXCEPT !.step = "owner", !.for = "logout"]
  <2>1. tab' = [tab EXCEPT ![t] = r]
    BY GhostTypes, Types DEF Logout
  <2>2. r \in Tab /\ r.step = "owner" /\ r.pair = tab[t].pair
    BY GhostTypes, Types DEF Tab, TabSteps
  <2>. QED  BY <2>1, <2>2
<1>3. TypeOK' /\ PairsKnown' /\ Stores'
  BY <1>1, <1>2, GhostTypes, TabMove DEF Between
<1>. QED  BY <1>1, <1>3 DEF IInv, Calm

LEMMA AnswerLostStep ==
  ASSUME IInv, NEW t \in Tabs, AnswerLost(t)
  PROVE  IInv'
<1>1. PICK r \in {Out, Kicked} : tab' = [tab EXCEPT ![t] = r]
  BY DEF AnswerLost, Become
<1>2. /\ excused' = TRUE /\ failures' \in 0..MaxFailures /\ NoteCutOff(t)
      /\ UNCHANGED <<active, cached, keys, index, revoked, issued, cookie, admin, changes>>
  BY GhostTypes, FailureFacts DEF AnswerLost, Others, redis
<1>3. /\ r \in Tab /\ r.step \in {"out", "kicked"} /\ r.pair = 0 /\ excused' \in BOOLEAN
  BY <1>2, Ends
<1>4. TypeOK' /\ PairsKnown' /\ Stores'
  BY <1>1, <1>2, <1>3, CutOffFacts, GhostTypes, TabMove
<1>. QED  BY <1>2, <1>4 DEF IInv, Calm

-----------------------------------------------------------------------------
(* A pair is signed, stored, listed and put into the cookies. *)

LEMMA SignStep ==
  ASSUME IInv, NEW t \in Tabs, Sign(t)
  PROVE  IInv'
<1>. DEFINE n == issued + 1
<1>. DEFINE r == [tab[t] EXCEPT !.step = "set", !.pair = n]
<1>0. /\ TypeOK /\ PairsKnown /\ Listed /\ Emptied /\ OnTheWay /\ RevokedIsGone
  BY DEF IInv, Stores
<1>1. /\ tab[t].step = "sign" /\ issued' = n /\ tab' = [tab EXCEPT ![t] = r]
      /\ loose' = IF admin.step \in Revoking THEN loose \union {n} ELSE loose
      /\ UNCHANGED <<active, cached, keys, index, revoked, cookie, admin, excused, changes, failures>>
  BY <1>0, Types DEF Sign, Others, redis, At
<1>2. n \in Pairs /\ n \in 0..MaxPairs /\ n > issued /\ n \in Nat
  BY <1>0, Types DEF Sign, Pairs
<1>. HIDE DEF n
<1>3. /\ r \in Tab /\ r.step = "set" /\ r.pair = n /\ r.for = tab[t].for
  BY <1>0, <1>2, Types DEF Tab, TabSteps
<1>. HIDE DEF r
<1>4. /\ tab' \in [Tabs -> Tab] /\ tab'[t] = r
      /\ \A u \in Tabs : u # t => tab'[u] = tab[u]
  BY <1>0, <1>1, <1>3, Types
<1>5. TypeOK'
  <2>1. tab' \in [Tabs -> [step : {"out", "in", "kicked", "fill", "run", "key", "account",
                                   "owner", "srem", "del", "sign", "set", "list", "answer"},
                           for : {"login", "call", "refresh", "logout"}, pair : 0..MaxPairs,
                           seen : BOOLEAN]]
    BY <1>4 DEF Tab, TabSteps
  <2>2. loose' \subseteq Pairs /\ issued' \in 0..MaxPairs /\ revoked' \in 0..issued'
    BY <1>0, <1>1, <1>2, Types, GhostTypes
  <2>. QED  BY <1>0, <1>1, <2>1, <2>2 DEF TypeOK
<1>6. \A u \in Tabs : tab[u].pair \in Nat /\ tab[u].pair < n /\ cookie.pair \in Nat /\ cookie.pair < n
  BY <1>0, <1>2, Types DEF PairsKnown
<1>7. PairsKnown'
  <2>1. ASSUME NEW u \in Tabs
        PROVE  /\ tab'[u].pair <= n
               /\ tab'[u].step = "key" => tab'[u].for = "refresh"
               /\ tab'[u].step \in {"set", "list", "answer"} =>
                     /\ tab'[u].pair >= 1 /\ tab'[u].pair # cookie.pair
                     /\ \A v \in Tabs \ {u} : tab'[v].pair # tab'[u].pair
    <3>1. CASE u = t
      BY <1>2, <1>3, <1>4, <1>6, <3>1
    <3>2. CASE u # t
      <4>1. tab'[u] = tab[u] /\ tab[u].pair < n
        BY <1>4, <1>6, <3>2
      <4>2. tab[u].step \in {"set", "list", "answer"} =>
               /\ tab[u].pair >= 1 /\ tab[u].pair # cookie.pair
               /\ \A v \in Tabs \ {u} : tab[v].pair # tab[u].pair
        BY <1>0 DEF PairsKnown, Signed
      <4>3. tab[u].step = "key" => tab[u].for = "refresh"
        BY <1>0 DEF PairsKnown, Refreshing
      <4>4. tab'[t].pair # tab[u].pair
        BY <1>2, <1>3, <1>4, <1>6
      <4>5. ASSUME NEW v \in Tabs \ {u}, tab[u].step \in {"set", "list", "answer"}
            PROVE  tab'[v].pair # tab[u].pair
        BY <1>4, <4>2, <4>4, <4>5
      <4>6. tab[u].pair <= n
        BY <1>2, <1>6
      <4>. QED  BY <4>1, <4>2, <4>3, <4>5, <4>6
    <3>. QED  BY <3>1, <3>2
  <2>2. cookie.pair <= n
    BY <1>2, <1>6
  <2>. QED  BY <1>1, <2>1, <2>2 DEF PairsKnown, Signed, Refreshing
<1>8. Listed' /\ Emptied' /\ RevokedIsGone'
  <2>1. ASSUME NEW p \in keys
        PROVE  \/ p \in index \/ p \in loose'
               \/ \E u \in Tabs : tab'[u].step \in {"list", "del"} /\ tab'[u].pair = p
    <3>1. CASE \E u \in Tabs : Between(u) /\ tab[u].pair = p
      <4>1. PICK u \in Tabs : Between(u) /\ tab[u].pair = p
        BY <3>1
      <4>. QED  BY <1>1, <1>4, <4>1 DEF Between
    <3>2. CASE p \in index \/ p \in loose
      BY <1>1, <3>2
    <3>. QED  BY <1>0, <3>1, <3>2 DEF Listed
  <2>2. Deleting' = Deleting
    BY <1>1, <1>3, <1>4 DEF Deleting, At
  <2>. QED  BY <1>0, <1>1, <2>1, <2>2 DEF Listed, Emptied, RevokedIsGone, Between
<1>9. OnTheWay'
  <2>1. ~(n <= revoked)
    BY <1>0, <1>2, Types
  <2>. QED  BY <1>0, <1>1, <1>3, <1>4, <2>1 DEF OnTheWay
<1>10. Calm'
  <2>1. Replacing(t) <=> Refreshing(t)
    BY <1>1 DEF Replacing
  <2>2. ~excused => cached # "no" /\ (Refreshing(t) => \A u \in Tabs \ {t} : ~Refreshing(u))
    BY CalmFacts
  <2>. QED  BY <1>1, <1>3, <1>4, <2>1, <2>2, GhostTypes, CalmMove DEF Refreshing
<1>. QED  BY <1>5, <1>7, <1>8, <1>9, <1>10 DEF IInv, Stores

LEMMA StoreKeyStep ==
  ASSUME IInv, NEW t \in Tabs, StoreKey(t)
  PROVE  IInv'
<1>0. /\ TypeOK /\ PairsKnown /\ Listed /\ Emptied /\ OnTheWay /\ RevokedIsGone
  BY DEF IInv, Stores
<1>1. /\ tab[t].step = "set" /\ keys' = keys \union {tab[t].pair}
      /\ UNCHANGED <<active, cached, index, revoked, issued, cookie, admin, loose, excused,
                     changes, failures>>
  BY DEF StoreKey, Others, ghosts, At
<1>2. PICK r \in Tab : /\ tab' = [tab EXCEPT ![t] = r]
                       /\ r.step = "list" /\ r.for = tab[t].for
                       /\ r.pair = tab[t].pair /\ r.seen = tab[t].seen
  BY <1>0, GotoFacts DEF StoreKey, TabSteps
<1>3. /\ tab' \in [Tabs -> Tab] /\ tab'[t] = r
      /\ \A u \in Tabs : u # t => tab'[u] = tab[u]
  BY <1>0, <1>2, Types
<1>4. tab[t].pair \in Pairs
  BY <1>0, <1>1, Types DEF PairsKnown, Signed, Pairs
<1>5. TypeOK'
  <2>1. tab' \in [Tabs -> [step : {"out", "in", "kicked", "fill", "run", "key", "account",
                                   "owner", "srem", "del", "sign", "set", "list", "answer"},
                           for : {"login", "call", "refresh", "logout"}, pair : 0..MaxPairs,
                           seen : BOOLEAN]]
    BY <1>3 DEF Tab, TabSteps
  <2>. QED  BY <1>0, <1>1, <1>4, <2>1 DEF TypeOK
<1>6. /\ \A u \in Tabs : /\ tab'[u].pair = tab[u].pair /\ tab'[u].for = tab[u].for
                         /\ tab'[u].step = IF u = t THEN "list" ELSE tab[u].step
  BY <1>2, <1>3
<1>7. PairsKnown'
  BY <1>0, <1>1, <1>6 DEF PairsKnown, Signed, Refreshing
<1>8. Listed'
  <2>1. ASSUME NEW p \in keys
        PROVE  \/ p \in index \/ p \in loose
               \/ \E u \in Tabs : tab'[u].step \in {"list", "del"} /\ tab'[u].pair = p
    <3>1. CASE \E u \in Tabs : Between(u) /\ tab[u].pair = p
      <4>1. PICK u \in Tabs : Between(u) /\ tab[u].pair = p
        BY <3>1
      <4>. QED  BY <1>6, <4>1 DEF Between
    <3>2. CASE p \in index \/ p \in loose
      BY <3>2
    <3>. QED  BY <1>0, <3>1, <3>2 DEF Listed
  <2>2. tab'[t].step = "list" /\ tab'[t].pair = tab[t].pair
    BY <1>6
  <2>. QED  BY <1>1, <2>1, <2>2 DEF Listed, Between
<1>9. /\ admin.step \in Revoking => tab[t].pair \in loose
      /\ tab[t].pair <= revoked => tab[t].pair \in loose
  BY <1>0, <1>1 DEF OnTheWay
<1>10. Emptied' /\ RevokedIsGone'
  <2>1. Deleting' = Deleting
    BY <1>1, <1>6 DEF Deleting, At
  <2>. QED  BY <1>0, <1>1, <1>9, <2>1 DEF Emptied, RevokedIsGone, Revoking
<1>11. OnTheWay'
  BY <1>0, <1>1, <1>6 DEF OnTheWay
<1>12. Calm'
  <2>1. Replacing(t) <=> Refreshing(t)
    BY <1>1 DEF Replacing
  <2>2. ~excused => cached # "no" /\ (Refreshing(t) => \A u \in Tabs \ {t} : ~Refreshing(u))
    BY CalmFacts
  <2>3. r.pair \in keys'
    BY <1>1, <1>2
  <2>. QED  BY <1>1, <1>2, <1>3, <2>1, <2>2, <2>3, GhostTypes, CalmMove DEF Refreshing
<1>. QED  BY <1>5, <1>7, <1>8, <1>10, <1>11, <1>12 DEF IInv, Stores

LEMMA StoreMemberStep ==
  ASSUME IInv, NEW t \in Tabs, StoreMember(t)
  PROVE  IInv'
<1>0. /\ TypeOK /\ PairsKnown /\ Listed /\ Emptied /\ OnTheWay /\ RevokedIsGone
  BY DEF IInv, Stores
<1>1. /\ tab[t].step = "list" /\ index' = index \union {tab[t].pair}
      /\ UNCHANGED <<active, cached, keys, revoked, issued, cookie, admin, loose, excused,
                     changes, failures>>
  BY DEF StoreMember, Others, ghosts, At
<1>2. PICK r \in Tab : /\ tab' = [tab EXCEPT ![t] = r]
                       /\ r.step = "answer" /\ r.for = tab[t].for
                       /\ r.pair = tab[t].pair /\ r.seen = tab[t].seen
  BY <1>0, GotoFacts DEF StoreMember, TabSteps
<1>3. /\ tab' \in [Tabs -> Tab] /\ tab'[t] = r
      /\ \A u \in Tabs : u # t => tab'[u] = tab[u]
  BY <1>0, <1>2, Types
<1>4. tab[t].pair \in Pairs
  BY <1>0, <1>1, Types DEF PairsKnown, Signed, Pairs
<1>5. TypeOK'
  <2>1. tab' \in [Tabs -> [step : {"out", "in", "kicked", "fill", "run", "key", "account",
                                   "owner", "srem", "del", "sign", "set", "list", "answer"},
                           for : {"login", "call", "refresh", "logout"}, pair : 0..MaxPairs,
                           seen : BOOLEAN]]
    BY <1>3 DEF Tab, TabSteps
  <2>. QED  BY <1>0, <1>1, <1>4, <2>1 DEF TypeOK
<1>6. /\ \A u \in Tabs : /\ tab'[u].pair = tab[u].pair /\ tab'[u].for = tab[u].for
                         /\ tab'[u].step = IF u = t THEN "answer" ELSE tab[u].step
  BY <1>2, <1>3
<1>7. PairsKnown'
  BY <1>0, <1>1, <1>6 DEF PairsKnown, Signed, Refreshing
<1>8. Listed'
  <2>1. ASSUME NEW p \in keys
        PROVE  \/ p \in index' \/ p \in loose
               \/ \E u \in Tabs : tab'[u].step \in {"list", "del"} /\ tab'[u].pair = p
    <3>1. CASE \E u \in Tabs : Between(u) /\ tab[u].pair = p
      <4>1. PICK u \in Tabs : Between(u) /\ tab[u].pair = p
        BY <3>1
      <4>2. CASE u = t
        BY <1>1, <4>1, <4>2
      <4>3. CASE u # t
        BY <1>6, <4>1, <4>3 DEF Between
      <4>. QED  BY <4>2, <4>3
    <3>2. CASE p \in index \/ p \in loose
      BY <1>1, <3>2
    <3>. QED  BY <1>0, <3>1, <3>2 DEF Listed
  <2>. QED  BY <1>1, <2>1 DEF Listed, Between
<1>9. Emptied' /\ RevokedIsGone' /\ OnTheWay'
  <2>1. Deleting' = Deleting
    BY <1>1, <1>6 DEF Deleting, At
  <2>. QED  BY <1>0, <1>1, <1>6, <2>1 DEF Emptied, RevokedIsGone, OnTheWay
<1>10. Calm'
  <2>1. Replacing(t) <=> Refreshing(t)
    BY <1>1 DEF Replacing
  <2>2. ~excused => /\ cached # "no" /\ (Refreshing(t) => \A u \in Tabs \ {t} : ~Refreshing(u))
                    /\ r.pair \in keys
    BY <1>1, <1>2, CalmFacts
  <2>. QED  BY <1>1, <1>2, <1>3, <2>1, <2>2, GhostTypes, CalmMove DEF Refreshing
<1>. QED  BY <1>5, <1>7, <1>8, <1>9, <1>10 DEF IInv, Stores
LEMMA AnswerStep ==
  ASSUME IInv, NEW t \in Tabs, Answer(t)
  PROVE  IInv'
<1>0. /\ TypeOK /\ PairsKnown /\ Listed /\ Emptied /\ OnTheWay /\ RevokedIsGone
  BY DEF IInv, Stores
<1>. DEFINE c == [pair |-> tab[t].pair, fresh |-> TRUE]
<1>1. /\ tab[t].step = "answer" /\ tab' = [tab EXCEPT ![t] = In] /\ cookie' = c
      /\ UNCHANGED <<active, cached, keys, index, revoked, issued, admin, loose, excused,
                     changes, failures>>
  BY DEF Answer, Become, Others, redis, ghosts, At
<1>2. c \in [pair : 0..MaxPairs, fresh : BOOLEAN] /\ c.pair = tab[t].pair
  BY <1>0, Types
<1>. HIDE DEF c
<1>3. /\ In \in Tab /\ In.step = "in" /\ In.for = "login" /\ In.pair = 0
      /\ tab' \in [Tabs -> Tab] /\ tab'[t] = In
      /\ \A u \in Tabs : u # t => tab'[u] = tab[u]
  BY <1>0, <1>1, Ends, Types
<1>4. TypeOK'
  <2>1. tab' \in [Tabs -> [step : {"out", "in", "kicked", "fill", "run", "key", "account",
                                   "owner", "srem", "del", "sign", "set", "list", "answer"},
                           for : {"login", "call", "refresh", "logout"}, pair : 0..MaxPairs,
                           seen : BOOLEAN]]
    BY <1>3 DEF Tab, TabSteps
  <2>. QED  BY <1>0, <1>1, <1>2, <2>1 DEF TypeOK
<1>5. /\ tab[t].pair \in Nat /\ tab[t].pair >= 1 /\ tab[t].pair <= issued
      /\ \A u \in Tabs \ {t} : tab[u].pair # tab[t].pair
  BY <1>0, <1>1, Types DEF PairsKnown, Signed
<1>6. PairsKnown'
  <2>1. ASSUME NEW u \in Tabs
        PROVE  /\ tab'[u].pair <= issued
               /\ tab'[u].step = "key" => tab'[u].for = "refresh"
               /\ tab'[u].step \in {"set", "list", "answer"} =>
                     /\ tab'[u].pair >= 1 /\ tab'[u].pair # tab[t].pair
                     /\ \A v \in Tabs \ {u} : tab'[v].pair # tab'[u].pair
    <3>1. CASE u = t
      BY <1>0, <1>3, <3>1, Types
    <3>2. CASE u # t
      <4>1. tab'[u] = tab[u] /\ tab[u].pair <= issued /\ tab[u].pair # tab[t].pair
        BY <1>0, <1>3, <1>5, <3>2 DEF PairsKnown
      <4>2. tab[u].step \in {"set", "list", "answer"} =>
               tab[u].pair >= 1 /\ \A v \in Tabs \ {u} : tab[v].pair # tab[u].pair
        BY <1>0 DEF PairsKnown, Signed
      <4>3. tab[u].step = "key" => tab[u].for = "refresh"
        BY <1>0 DEF PairsKnown, Refreshing
      <4>4. tab[u].step \in {"set", "list", "answer"} => tab'[t].pair # tab[u].pair
        BY <1>0, <1>3, <4>2, Types
      <4>. QED  BY <1>3, <4>1, <4>2, <4>3, <4>4
    <3>. QED  BY <3>1, <3>2
  <2>. QED  BY <1>1, <1>2, <1>5, <2>1 DEF PairsKnown, Signed, Refreshing
<1>7. Listed'
  <2>1. ASSUME NEW p \in keys
        PROVE  \/ p \in index \/ p \in loose
               \/ \E u \in Tabs : tab'[u].step \in {"list", "del"} /\ tab'[u].pair = p
    <3>1. CASE \E u \in Tabs : Between(u) /\ tab[u].pair = p
      <4>1. PICK u \in Tabs : Between(u) /\ tab[u].pair = p
        BY <3>1
      <4>. QED  BY <1>1, <1>3, <4>1 DEF Between
    <3>2. CASE p \in index \/ p \in loose
      BY <3>2
    <3>. QED  BY <1>0, <3>1, <3>2 DEF Listed
  <2>. QED  BY <1>1, <2>1 DEF Listed, Between
<1>8. Emptied' /\ RevokedIsGone' /\ OnTheWay'
  <2>1. Deleting' = Deleting
    BY <1>1, <1>3 DEF Deleting, At
  <2>. QED  BY <1>0, <1>1, <1>3, <2>1 DEF Emptied, RevokedIsGone, OnTheWay
<1>9. Calm'
  <2>. SUFFICES ASSUME ~excused' PROVE Quiet'
    BY DEF Calm
  <2>1. Quiet
    BY <1>1 DEF IInv, Calm
  <2>2. tab[t].pair \in keys
    BY <1>1, <2>1 DEF Quiet, Fine
  <2>3. ASSUME NEW u \in Tabs
        PROVE  /\ tab'[u].step # "kicked"
               /\ tab'[u].step \in {"owner", "srem", "del"} =>
                     tab'[u].for = "refresh" /\ tab'[u].seen
               /\ tab'[u].step = "fill" => tab'[u].seen
               /\ tab'[u].step \in {"key", "list", "answer"} => tab'[u].pair \in keys
    BY <1>3, <2>1 DEF Quiet, Fine, Giving, Refreshing
  <2>4. \A u, v \in Tabs : tab'[u].for = "refresh" /\ tab'[v].for = "refresh" => u = v
    BY <1>3, <2>1 DEF Quiet, Refreshing
  <2>. QED  BY <1>1, <1>2, <1>5, <2>1, <2>2, <2>3, <2>4 DEF Quiet, Fine, Refreshing,
                                                              Giving
<1>. QED  BY <1>4, <1>6, <1>7, <1>8, <1>9 DEF IInv, Stores

-----------------------------------------------------------------------------
(* The administrator's calls.  All of them are excused. *)

LEMMA ByAdminFacts ==
  ASSUME IInv, excused', TypeOK', UNCHANGED <<issued, cookie, tab>>, Stores'
  PROVE  IInv'
<1>1. PairsKnown'
  BY DEF IInv, PairsKnown, Signed, Refreshing
<1>. QED  BY <1>1 DEF IInv, Calm

LEMMA Busy ==
  ASSUME IInv, admin.step # "idle"
  PROVE  excused
BY DEF IInv, Calm, Quiet

LEMMA SetActiveStep ==
  ASSUME IInv, SetActive
  PROVE  IInv'
<1>0. TypeOK /\ Listed /\ Emptied /\ OnTheWay /\ RevokedIsGone
  BY DEF IInv, Stores
<1>1. /\ admin.step = "idle" /\ excused' = TRUE /\ active' \in BOOLEAN
      /\ changes' \in 0..MaxChanges
      /\ UNCHANGED <<cached, keys, index, revoked, loose, issued, cookie, tab, failures>>
  BY <1>0, BoundsAssumption DEF SetActive, redis, ByAdmin, TypeOK
<1>2. /\ admin' \in [step : Revoking \union {"idle", "cache"}, held : SUBSET Pairs]
      /\ admin'.step \in {"idle", "cache"}
  BY <1>0, <1>1 DEF SetActive, Step, TypeOK
<1>3. TypeOK'
  BY <1>0, <1>1, <1>2 DEF TypeOK
<1>4. Stores'
  BY <1>0, <1>1, <1>2 DEF Stores, Listed, Emptied, OnTheWay,
                    RevokedIsGone, Deleting, Between, At, Revoking
<1>. QED  BY <1>1, <1>3, <1>4, ByAdminFacts

LEMMA CacheActiveStep ==
  ASSUME IInv, CacheActive
  PROVE  IInv'
<1>0. TypeOK /\ PairsKnown /\ Listed /\ Emptied /\ OnTheWay /\ RevokedIsGone
  BY DEF IInv, Stores
<1>. DEFINE to == IF active THEN "idle" ELSE "members"
<1>10. cached' \in {"none", "yes", "no"} /\ failures' \in 0..MaxFailures
  BY GhostTypes, CacheFacts DEF CacheActive
<1>1. /\ admin.step = "cache" /\ admin' = [admin EXCEPT !.step = to]
      /\ loose' = IF active THEN loose
                  ELSE loose \union {tab[t].pair : t \in {u \in Tabs : tab[u].step \in {"set", "list"}}}
      /\ UNCHANGED <<active, keys, index, revoked, excused, changes, issued, cookie, tab>>
  BY DEF CacheActive, Step, ByAdmin
<1>2. excused' = TRUE
  BY <1>0, <1>1, Busy DEF TypeOK
<1>3. \A t \in Tabs : tab[t].step \in {"set", "list"} => tab[t].pair \in Pairs
  BY <1>0, Types DEF PairsKnown, Signed, Pairs
<1>4. loose \subseteq loose' /\ loose' \subseteq Pairs
      /\ (active \/ \A t \in Tabs : tab[t].step \in {"set", "list"} => tab[t].pair \in loose')
  BY <1>0, <1>1, <1>3 DEF TypeOK
<1>5. to \in {"idle", "members"} /\ (active => to = "idle")
  OBVIOUS
<1>. HIDE DEF to
<1>6. admin' \in [step : Revoking \union {"idle", "cache"}, held : SUBSET Pairs] /\ admin'.step = to
  BY <1>0, <1>1, <1>5 DEF TypeOK, Revoking
<1>7. TypeOK'
  BY <1>0, <1>10, <1>1, <1>4, <1>6 DEF TypeOK
<1>8. Listed' /\ Emptied' /\ RevokedIsGone'
  BY <1>0, <1>1, <1>4, <1>5, <1>6 DEF Listed, Emptied, RevokedIsGone, Deleting, Between, At
<1>9. OnTheWay'
  BY <1>0, <1>1, <1>4, <1>5, <1>6 DEF OnTheWay, Revoking
<1>. QED  BY <1>1, <1>2, <1>7, <1>8, <1>9, ByAdminFacts DEF Stores

(* After the set was read, what is stored is read, loose or being deleted. *)
LEMMA ReadMembersStep ==
  ASSUME IInv, ReadMembers
  PROVE  IInv'
<1>0. TypeOK /\ Listed /\ Emptied /\ OnTheWay /\ RevokedIsGone
  BY DEF IInv, Stores
<1>1. /\ admin.step = "members" /\ admin' = [step |-> "delete", held |-> index]
      /\ UNCHANGED <<active, cached, keys, index, revoked, loose, excused, changes,
                     issued, cookie, tab, failures>>
  BY DEF ReadMembers, redis, ghosts, ByAdmin
<1>2. excused' = TRUE
  BY <1>0, <1>1, Busy DEF TypeOK
<1>3. admin'.step = "delete" /\ admin'.held = index
  BY <1>1
<1>4. TypeOK'
  BY <1>0, <1>1 DEF TypeOK, Revoking
<1>5. keys \subseteq index \union loose \union Deleting
  BY <1>0, <1>1 DEF Listed, OnTheWay, Deleting, Between, At, Revoking
<1>6. Stores'
  BY <1>0, <1>1, <1>3, <1>5 DEF Stores, Listed, Emptied, OnTheWay,
                    RevokedIsGone, Deleting, Between, At, Revoking
<1>. QED  BY <1>1, <1>2, <1>4, <1>6, ByAdminFacts

LEMMA DeleteKeysStep ==
  ASSUME IInv, DeleteKeys
  PROVE  IInv'
<1>0. TypeOK /\ Listed /\ Emptied /\ OnTheWay /\ RevokedIsGone
  BY DEF IInv, Stores
<1>1. /\ admin.step = "delete" /\ admin' = [step |-> "unlist", held |-> {}]
      /\ keys' = keys \ admin.held
      /\ UNCHANGED <<active, cached, index, revoked, loose, excused, changes,
                     issued, cookie, tab, failures>>
  BY DEF DeleteKeys, ghosts, ByAdmin
<1>2. excused' = TRUE
  BY <1>0, <1>1, Busy DEF TypeOK
<1>3. admin'.step = "unlist"
  BY <1>1
<1>4. TypeOK'
  BY <1>0, <1>1 DEF TypeOK, Revoking
<1>5. keys' \subseteq loose \union Deleting /\ keys' \subseteq keys
  BY <1>0, <1>1 DEF Emptied
<1>6. Stores'
  BY <1>0, <1>1, <1>3, <1>5 DEF Stores, Listed, Emptied, OnTheWay,
                    RevokedIsGone, Deleting, Between, At, Revoking
<1>. QED  BY <1>1, <1>2, <1>4, <1>6, ByAdminFacts

LEMMA DeleteSetStep ==
  ASSUME IInv, DeleteSet
  PROVE  IInv'
<1>0. TypeOK /\ Listed /\ Emptied /\ OnTheWay /\ RevokedIsGone
  BY DEF IInv, Stores
<1>1. /\ admin.step = "unlist" /\ admin' = [admin EXCEPT !.step = "stamp"] /\ index' = {}
      /\ UNCHANGED <<active, cached, keys, revoked, loose, excused, changes,
                     issued, cookie, tab, failures>>
  BY DEF DeleteSet, Step, ghosts, ByAdmin
<1>2. excused' = TRUE
  BY <1>0, <1>1, Busy DEF TypeOK
<1>3. /\ admin' \in [step : Revoking \union {"idle", "cache"}, held : SUBSET Pairs]
      /\ admin'.step = "stamp"
  BY <1>0, <1>1 DEF TypeOK, Revoking
<1>4. TypeOK'
  BY <1>0, <1>1, <1>3 DEF TypeOK
<1>5. keys \subseteq loose \union Deleting
  BY <1>0, <1>1 DEF Emptied
<1>6. Stores'
  BY <1>0, <1>1, <1>3, <1>5 DEF Stores, Listed, Emptied, OnTheWay,
                    RevokedIsGone, Deleting, Between, At, Revoking
<1>. QED  BY <1>1, <1>2, <1>4, <1>6, ByAdminFacts

LEMMA StampStep ==
  ASSUME IInv, Stamp
  PROVE  IInv'
<1>0. TypeOK /\ Listed /\ Emptied /\ OnTheWay /\ RevokedIsGone
  BY DEF IInv, Stores
<1>1. /\ admin.step = "stamp" /\ admin' = [admin EXCEPT !.step = "idle"]
      /\ revoked' \in revoked..issued
      /\ UNCHANGED <<active, cached, keys, index, loose, excused, changes,
                     issued, cookie, tab, failures>>
  BY DEF Stamp, Step, ghosts, ByAdmin
<1>2. excused' = TRUE
  BY <1>0, <1>1, Busy DEF TypeOK
<1>3. /\ admin' \in [step : Revoking \union {"idle", "cache"}, held : SUBSET Pairs]
      /\ admin'.step = "idle" /\ revoked' \in 0..issued
  BY <1>0, <1>1, Types DEF TypeOK, Revoking
<1>4. TypeOK'
  BY <1>0, <1>1, <1>3 DEF TypeOK
<1>5. keys \subseteq loose \union Deleting
      /\ \A t \in Tabs : tab[t].step \in {"set", "list"} => tab[t].pair \in loose
  BY <1>0, <1>1 DEF Emptied, OnTheWay, Revoking
<1>6. Stores'
  BY <1>0, <1>1, <1>3, <1>5 DEF Stores, Listed, Emptied, OnTheWay,
                    RevokedIsGone, Deleting, Between, At, Revoking
<1>. QED  BY <1>1, <1>2, <1>4, <1>6, ByAdminFacts

LEMMA AdminFailsStep ==
  ASSUME IInv, AdminFails
  PROVE  IInv'
<1>0. TypeOK /\ Listed /\ Emptied /\ OnTheWay /\ RevokedIsGone
  BY DEF IInv, Stores
<1>1. /\ admin.step # "idle" /\ admin' = [step |-> "idle", held |-> {}]
      /\ failures' \in 0..MaxFailures
      /\ UNCHANGED <<active, cached, keys, index, revoked, loose, excused, changes,
                     issued, cookie, tab>>
  BY <1>0, FailureFacts DEF AdminFails, redis, ghosts, Revoking
<1>2. excused' = TRUE
  BY <1>0, <1>1, Busy DEF TypeOK
<1>3. admin'.step = "idle"
  BY <1>1
<1>4. TypeOK'
  BY <1>0, <1>1 DEF TypeOK
<1>5. Stores'
  BY <1>0, <1>1, <1>3 DEF Stores, Listed, Emptied, OnTheWay,
                    RevokedIsGone, Deleting, Between, At, Revoking
<1>. QED  BY <1>1, <1>2, <1>4, <1>5, ByAdminFacts

-----------------------------------------------------------------------------
LEMMA ExpiryStep ==
  ASSUME IInv, CacheExpires \/ AccessExpires
  PROVE  IInv'
<1>1. /\ UNCHANGED <<active, keys, index, revoked, issued, tab, admin, loose, excused,
                     changes, failures>>
      /\ cached' \in {cached, "none"}
      /\ cookie' = cookie \/ cookie' = [cookie EXCEPT !.fresh = FALSE]
  BY DEF CacheExpires, AccessExpires, Others, redis, ghosts, ByAdmin
<1>2. cookie' \in [pair : 0..MaxPairs, fresh : BOOLEAN] /\ cookie'.pair = cookie.pair
  BY <1>1, GhostTypes, Types
<1>3. TypeOK'
  BY <1>1, <1>2, GhostTypes DEF TypeOK
<1>4. PairsKnown' /\ Stores'
  BY <1>1, <1>2 DEF IInv, PairsKnown, Signed, Refreshing, Stores, Listed, Emptied, OnTheWay,
                    RevokedIsGone, Deleting, Between, At
<1>5. Calm'
  BY <1>1, <1>2 DEF IInv, Calm, Quiet, Fine, Refreshing, Giving
<1>. QED  BY <1>3, <1>4, <1>5 DEF IInv

LEMMA Same ==
  ASSUME IInv, UNCHANGED vars
  PROVE  IInv'
<1>1. UNCHANGED <<active, cached, keys, index, revoked, issued, cookie, tab, admin, loose,
                  excused, changes, failures>>
  BY DEF vars, redis, ghosts
<1>2. TypeOK'
  BY <1>1 DEF IInv, TypeOK
<1>3. PairsKnown' /\ Stores' /\ Calm'
  BY <1>1 DEF IInv, PairsKnown, Signed, Refreshing, Stores, Listed, Emptied, OnTheWay,
              RevokedIsGone, Deleting, Between, At, Calm, Quiet, Fine, Giving
<1>. QED  BY <1>2, <1>3 DEF IInv

LEMMA InitInv == Init => IInv
<1>. SUFFICES ASSUME Init PROVE IInv
  OBVIOUS
<1>1. /\ \A t \in Tabs : tab[t] = Out /\ tab[t].step = "out" /\ tab[t].for = "login" /\ tab[t].pair = 0
      /\ cookie.pair = 0 /\ admin.step = "idle" /\ issued = 0 /\ revoked = 0 /\ (active \/ excused)
      /\ keys = {} /\ cached = "none"
  BY Ends DEF Init
<1>2. TypeOK
  <2>1. Out \in [step : {"out", "in", "kicked", "fill", "run", "key", "account",
                         "owner", "srem", "del", "sign", "set", "list", "answer"},
                 for : {"login", "call", "refresh", "logout"}, pair : 0..MaxPairs, seen : BOOLEAN]
    BY Ends DEF Tab, TabSteps
  <2>2. 0 \in 0..MaxPairs /\ 0 \in 0..MaxChanges /\ 0 \in 0..MaxFailures /\ 0 \in 0..0
    BY BoundsAssumption
  <2>3. cookie \in [pair : 0..MaxPairs, fresh : BOOLEAN]
        /\ admin \in [step : Revoking \union {"idle", "cache"}, held : SUBSET Pairs]
    BY <2>2 DEF Init
  <2>4. active \in BOOLEAN /\ excused \in BOOLEAN
    BY DEF Init
  <2>5. tab \in [Tabs -> [step : {"out", "in", "kicked", "fill", "run", "key", "account",
                                  "owner", "srem", "del", "sign", "set", "list", "answer"},
                          for : {"login", "call", "refresh", "logout"}, pair : 0..MaxPairs,
                          seen : BOOLEAN]]
    BY <2>1 DEF Init
  <2>6. {keys, index, loose} \subseteq SUBSET Pairs
    BY DEF Init
  <2>7. cached \in {"none", "yes", "no"} /\ issued \in 0..MaxPairs /\ revoked \in 0..issued
        /\ changes \in 0..MaxChanges /\ failures \in 0..MaxFailures
    BY <2>2 DEF Init
  <2>. QED  BY <2>3, <2>4, <2>5, <2>6, <2>7 DEF TypeOK
<1>3. PairsKnown /\ Stores
  BY <1>1 DEF PairsKnown, Signed, Stores, Listed, Emptied, OnTheWay, RevokedIsGone, Deleting,
              At, Revoking
<1>4. Calm
  BY <1>1 DEF Calm, Quiet, Fine, Refreshing, Giving
<1>. QED  BY <1>2, <1>3, <1>4 DEF IInv

LEMMA NextInv == IInv /\ [Next]_vars => IInv'
<1>. SUFFICES ASSUME IInv, [Next]_vars PROVE IInv'
  OBVIOUS
<1>1. ASSUME NEW t \in Tabs,
             \/ Login(t) \/ Open(t) \/ Request(t) \/ Handler(t) \/ Logout(t)
             \/ AnswerLost(t) \/ RevokeFails(t)
      PROVE  IInv'
  BY <1>1, LoginStep, OpenStep, RequestStep, SignStep, StoreKeyStep, StoreMemberStep, AnswerStep,
     CheckAccountStep, FillCacheStep, RunStep, CheckKeyStep, FindOwnerStep, UnlistStep,
     RevokeStep, LogoutStep, AnswerLostStep, RevokeFailsStep DEF Handler
<1>2. ASSUME Change \/ AdminFails PROVE IInv'
  BY <1>2, SetActiveStep, CacheActiveStep, ReadMembersStep, DeleteKeysStep, DeleteSetStep,
     StampStep, AdminFailsStep DEF Change
<1>. QED  BY <1>1, <1>2, ExpiryStep, Same DEF Next

THEOREM SpecIInv == Spec => []IInv
<1>. QED  BY InitInv, NextInv, PTL DEF Spec

(* Type correctness, and no tab is sent to the login page without cause. *)
THEOREM SpecSessionInv == Spec => []SessionInv
<1>1. IInv => SessionInv
  BY DEF IInv, Calm, Quiet, Fine, SessionInv, KickedNeedsCause, At
<1>. QED  BY <1>1, SpecIInv, PTL

(* No refresh token outlives the revocation that refuses its access token, *)
(* except the loose ones.                                                  *)
THEOREM SpecRevokedIsGone == Spec => []RevokedIsGone
<1>1. IInv => RevokedIsGone
  BY DEF IInv, Stores
<1>. QED  BY <1>1, SpecIInv, PTL

-----------------------------------------------------------------------------
(* MobileSession.                                                          *)

(* What the server has accepted is in the log of the account it was sent   *)
(* for.                                                                    *)
AcceptedIsStored ==
    pass.step = "accepted" => pass.as \in Users /\ <<Entry, pass.as>> \in stored

(* While nothing has crossed: no pass runs beside a sign-out; what the     *)
(* phone has queued, and its cursor, are those of the stored account or    *)
(* about to be wiped; and a pass works for that account.                   *)
Undisturbed == pass.step # "idle" => leaving = "no"
QueueIsOwn ==
    \A e \in Entries : InOutbox(e) =>
       leaving # "clear" /\ (account = Owner[e] \/ leaving = "wipe")
CursorIsOwn ==
    cursor # Nobody =>
       leaving # "clear" /\ (account = cursor \/ (account = Nobody /\ leaving = "wipe"))
PassIsOwn ==
    /\ pass.step # "idle" => \A e \in pass.todo : account = Owner[e]
    /\ pass.step \in {"posted", "accepted", "refused", "asked"} => pass.as = account
    /\ pass.step \in {"pull", "asked"} => pass.from \in {Nobody, account}
StoredByOwner == \A x \in stored : x[2] = Owner[x[1]]

Apart == Undisturbed /\ QueueIsOwn /\ CursorIsOwn /\ PassIsOwn /\ StoredByOwner

PhoneIInv == PhoneTypeOK /\ SyncedIsStored /\ AcceptedIsStored /\ (crossed \/ Apart)

-----------------------------------------------------------------------------
(* The first of some entries is one of them: ranks are natural numbers.    *)
LEMMA FirstIsOne ==
    ASSUME NEW S \in SUBSET Entries, S # {}
    PROVE  First(S) \in S
<1> DEFINE T == {0..Rank[e] : e \in S}
<1>1. T \subseteq FiniteSubsetsOf(Nat) /\ T # {}
  <2>1. \A e \in S : IsFiniteSet(0..Rank[e]) /\ 0..Rank[e] \in SUBSET Nat
    BY EntriesAssumption, FS_Interval
  <2>. QED  BY <2>1 DEF FiniteSubsetsOf
<1>2. PICK X \in T : \A Y \in T : <<Y, X>> \notin StrictSubsetOrdering(Nat)
  BY <1>1, FS_StrictSubsetOrderingWellFounded, WFMin
<1>3. PICK e \in S : X = 0..Rank[e]
  BY <1>2
<1>4. \A f \in S : ~(Rank[f] < Rank[e])
  <2>1. SUFFICES ASSUME NEW f \in S, Rank[f] < Rank[e]  PROVE FALSE
    OBVIOUS
  <2>2. 0..Rank[f] \in T /\ 0..Rank[f] \subseteq X /\ 0..Rank[f] # X /\ X \subseteq Nat
    <3>1. Rank[f] \in Nat /\ Rank[e] \in Nat
      BY EntriesAssumption
    <3>2. Rank[e] \in X /\ Rank[e] \notin 0..Rank[f]
      BY <1>3, <2>1, <3>1
    <3>. QED  BY <1>3, <2>1, <3>1, <3>2
  <2>. QED  BY <1>2, <2>2 DEF StrictSubsetOrdering
<1>5. \A f \in S : Rank[e] <= Rank[f]
  BY <1>4, EntriesAssumption
<1>. QED  BY <1>5 DEF First

(* A pass is a record of its fields. *)
LEMMA PassFields ==
    ASSUME PhoneTypeOK
    PROVE  /\ pass = [step |-> pass.step, todo |-> pass.todo, as |-> pass.as,
                      from |-> pass.from, auto |-> pass.auto]
           /\ pass.step \in Steps /\ pass.todo \in SUBSET Entries /\ pass.as \in Accounts
           /\ pass.from \in Accounts /\ pass.auto \in BOOLEAN
BY DEF PhoneTypeOK, Pass

(* No pass. *)
LEMMA NoPassFields ==
    /\ NoPass \in Pass /\ NoPass.step = "idle" /\ NoPass.todo = {}
    /\ NoPass.as = Nobody /\ NoPass.from = Nobody /\ NoPass.auto = FALSE
BY DEF NoPass, Pass, Steps, Accounts

(* While an answer is awaited, what was sent is the first of the list. *)
LEMMA EntryIsOne ==
    ASSUME PhoneTypeOK, pass.todo # {}
    PROVE  Entry \in pass.todo /\ Entry \in Entries
BY FirstIsOne, PassFields DEF Entry

(* An account that signs in where nobody's data is left. *)
LEMMA SetAuthenticatedIInv ==
    ASSUME PhoneIInv, NEW u \in Users, SetAuthenticated(u)
    PROVE  PhoneIInv'
<1>1. PhoneTypeOK'
  BY PhoneBoundsAssumption DEF PhoneIInv, PhoneTypeOK, SetAuthenticated, Accounts
<1>2. SyncedIsStored' /\ AcceptedIsStored'
  BY DEF PhoneIInv, SyncedIsStored, AcceptedIsStored, SetAuthenticated, Entry
<1>3. ASSUME ~crossed'  PROVE Apart'
  <2>1. ~crossed /\ pass.step = "idle" /\ leaving = "no" /\ Apart
    BY <1>3 DEF SetAuthenticated, PhoneIInv
  <2>2. cursor = Nobody /\ \A e \in Entries : ~InOutbox(e)
    BY <2>1, UsersAssumption, EntriesAssumption
    DEF SetAuthenticated, Apart, QueueIsOwn, CursorIsOwn
  <2>. QED  BY <2>1, <2>2
       DEF SetAuthenticated, Apart, Undisturbed, QueueIsOwn, CursorIsOwn, PassIsOwn,
           StoredByOwner, InOutbox
<1>. QED  BY <1>1, <1>2, <1>3 DEF PhoneIInv

(* Signing out, step by step: what is queued and the cursor are wiped      *)
(* before the account is cleared.                                          *)
LEMMA LogoutIInv ==
    ASSUME PhoneIInv, LogoutStart \/ LogoutWipe \/ LogoutClear
    PROVE  PhoneIInv'
<1>1. /\ UNCHANGED <<pass, stored>>
      /\ crossed' \in BOOLEAN /\ (crossed => crossed')
      /\ \A e \in Entries : outbox'[e] = outbox[e] \/ outbox'[e] = "wiped"
  BY DEF LogoutStart, LogoutWipe, LogoutClear, PhoneIInv, PhoneTypeOK
<1>2. PhoneTypeOK'
  BY DEF LogoutStart, LogoutWipe, LogoutClear, WipedCursor, PhoneIInv, PhoneTypeOK, Accounts
<1>3. SyncedIsStored' /\ AcceptedIsStored'
  BY <1>1 DEF PhoneIInv, SyncedIsStored, AcceptedIsStored, Entry
<1>4. ASSUME ~crossed'  PROVE Apart'
  <2>1. Apart /\ StoredByOwner'
    BY <1>1, <1>4 DEF PhoneIInv, Apart, StoredByOwner
  <2>2. CASE LogoutStart
    BY <1>4, <2>1, <2>2, UsersAssumption
    DEF LogoutStart, Apart, Undisturbed, QueueIsOwn, CursorIsOwn, PassIsOwn, InOutbox
  <2>3. CASE LogoutWipe
    <3>1. \A e \in Entries : ~InOutbox(e)'
      BY <2>3 DEF LogoutWipe, InOutbox
    <3>. QED  BY <2>1, <2>3, <3>1
         DEF LogoutWipe, WipedCursor, Apart, Undisturbed, QueueIsOwn, CursorIsOwn, PassIsOwn
  <2>4. CASE LogoutClear
    BY <2>1, <2>4
    DEF LogoutClear, Apart, Undisturbed, QueueIsOwn, CursorIsOwn, PassIsOwn, InOutbox
  <2>. QED  BY <2>1, <2>2, <2>3, <2>4
<1>. QED  BY <1>2, <1>3, <1>4 DEF PhoneIInv

(* Recording, under the stored account. *)
LEMMA RecordIInv ==
    ASSUME PhoneIInv, NEW e \in Entries, Record(e)
    PROVE  PhoneIInv'
<1>1. /\ UNCHANGED <<account, leaving, cursor, pass, stored>> /\ account = Owner[e]
      /\ \A f \in Entries : outbox'[f] = IF f = e THEN "PENDING" ELSE outbox[f]
      /\ crossed' = (crossed \/ leaving # "no")
  BY DEF Record, PhoneIInv, PhoneTypeOK
<1>2. PhoneTypeOK'
  BY DEF Record, PhoneIInv, PhoneTypeOK
<1>3. SyncedIsStored' /\ AcceptedIsStored'
  BY <1>1 DEF PhoneIInv, SyncedIsStored, AcceptedIsStored, Entry
<1>4. ASSUME ~crossed'  PROVE Apart'
  <2>1. Apart /\ leaving = "no"
    BY <1>1, <1>4 DEF PhoneIInv
  <2>2. QueueIsOwn'
    BY <1>1, <2>1 DEF Apart, QueueIsOwn, InOutbox
  <2>. QED  BY <1>1, <2>1, <2>2
       DEF Apart, Undisturbed, CursorIsOwn, PassIsOwn, StoredByOwner
<1>. QED  BY <1>2, <1>3, <1>4 DEF PhoneIInv

(* What is retried was queued already. *)
LEMMA RetryFailedIInv ==
    ASSUME PhoneIInv, RetryFailed
    PROVE  PhoneIInv'
<1>1. /\ UNCHANGED <<account, leaving, cursor, pass, stored, crossed>>
      /\ \A f \in Entries : \/ outbox'[f] = outbox[f]
                            \/ outbox[f] = "FAILED" /\ outbox'[f] = "PENDING"
  BY DEF RetryFailed, PhoneIInv, PhoneTypeOK
<1>2. PhoneTypeOK'
  BY PhoneBoundsAssumption DEF RetryFailed, Mishap, PhoneIInv, PhoneTypeOK
<1>3. SyncedIsStored' /\ AcceptedIsStored'
  BY <1>1 DEF PhoneIInv, SyncedIsStored, AcceptedIsStored, Entry
<1>4. Apart => Apart'
  <2>1. \A f \in Entries : InOutbox(f)' => InOutbox(f)
    BY <1>1 DEF InOutbox
  <2>2. QueueIsOwn => QueueIsOwn'
    BY <1>1, <2>1 DEF QueueIsOwn
  <2>. QED  BY <1>1, <2>2 DEF Apart, Undisturbed, CursorIsOwn, PassIsOwn, StoredByOwner
<1>. QED  BY <1>1, <1>2, <1>3, <1>4 DEF PhoneIInv

-----------------------------------------------------------------------------
(* A pass begins with what is queued for the stored account. *)
LEMMA StartPassIInv ==
    ASSUME PhoneIInv, NEW auto \in BOOLEAN, StartPass(auto)
    PROVE  PhoneIInv'
<1>1. /\ UNCHANGED <<signedIn, account, leaving, timer, logins>>
      /\ UNCHANGED <<resting, outbox, cursor, stored, mishaps>>
      /\ crossed' = (crossed \/ leaving # "no")
  BY DEF StartPass, Session
<1>2. /\ pass' \in Pass /\ pass'.step = "push" /\ pass'.todo = Pending
      /\ pass'.as = Nobody /\ pass'.from = Nobody
  BY DEF StartPass, NoPass, Pass, Steps, Accounts, Pending
<1>3. PhoneTypeOK'
  BY <1>1, <1>2 DEF PhoneIInv, PhoneTypeOK
<1>4. SyncedIsStored' /\ AcceptedIsStored'
  BY <1>1, <1>2 DEF PhoneIInv, SyncedIsStored, AcceptedIsStored
<1>5. ASSUME ~crossed'  PROVE Apart'
  <2>1. Apart /\ leaving = "no"
    BY <1>1, <1>5 DEF PhoneIInv
  <2>2. \A e \in Pending : account = Owner[e]
    BY <2>1 DEF Apart, QueueIsOwn, InOutbox, Pending
  <2>. QED  BY <1>1, <1>2, <2>1, <2>2
       DEF Apart, Undisturbed, QueueIsOwn, CursorIsOwn, PassIsOwn, StoredByOwner, InOutbox
<1>. QED  BY <1>3, <1>4, <1>5 DEF PhoneIInv

(* The back-off is over. *)
LEMMA WakeIInv ==
    ASSUME PhoneIInv, Wake
    PROVE  PhoneIInv'
BY DEF Wake, Session, PhoneIInv, PhoneTypeOK, SyncedIsStored, AcceptedIsStored, Entry, Apart,
       Undisturbed, QueueIsOwn, CursorIsOwn, PassIsOwn, StoredByOwner, InOutbox

(* A request goes out for the stored account. *)
LEMMA SendIInv ==
    ASSUME PhoneIInv, Send
    PROVE  PhoneIInv'
<1>1. /\ UNCHANGED <<signedIn, account, leaving, timer, logins>>
      /\ UNCHANGED <<resting, outbox, cursor, stored, crossed, mishaps>>
      /\ account \in Accounts
  BY DEF Send, Session, PhoneIInv, PhoneTypeOK
<1>2. /\ pass' \in Pass /\ pass.step # "idle"
      /\ pass'.step = IF pass.step = "push" THEN "posted" ELSE "asked"
      /\ pass'.todo = pass.todo /\ pass'.from = pass.from /\ pass'.as = account
      /\ pass.step = "push" => pass.todo # {}
      /\ pass.step # "push" => pass.step = "pull"
  BY <1>1, PassFields DEF Send, PhoneIInv, Pass, Steps
<1>3. PhoneTypeOK'
  BY <1>1, <1>2 DEF PhoneIInv, PhoneTypeOK
<1>4. SyncedIsStored' /\ AcceptedIsStored'
  BY <1>1, <1>2 DEF PhoneIInv, SyncedIsStored, AcceptedIsStored
<1>5. Apart => Apart'
  BY <1>1, <1>2
  DEF Apart, Undisturbed, QueueIsOwn, CursorIsOwn, PassIsOwn, StoredByOwner, InOutbox
<1>. QED  BY <1>1, <1>3, <1>4, <1>5 DEF PhoneIInv

(* What the server accepts it has, for the account of the request. *)
LEMMA ServerAppendsIInv ==
    ASSUME PhoneIInv, ServerAppends
    PROVE  PhoneIInv'
<1>1. PICK refused \in BOOLEAN :
         /\ stored' = IF refused THEN stored ELSE stored \union {<<Entry, pass.as>>}
         /\ pass' = [pass EXCEPT !.step = IF refused THEN "refused" ELSE "accepted"]
  BY DEF ServerAppends
<1>2. /\ UNCHANGED <<signedIn, account, leaving, timer, logins>>
      /\ UNCHANGED <<resting, outbox, cursor, crossed, mishaps>>
      /\ pass.step = "posted" /\ pass.as \in Users
  BY PassFields DEF ServerAppends, Session, PhoneIInv, Accounts
<1>3. /\ pass' \in Pass
      /\ pass'.step = IF refused THEN "refused" ELSE "accepted"
      /\ pass'.todo = pass.todo /\ pass'.from = pass.from /\ pass'.as = pass.as
  BY <1>1, PassFields DEF PhoneIInv, Pass, Steps
<1>4. Entry \in pass.todo /\ Entry \in Entries /\ Entry' = Entry
  BY <1>2, <1>3, EntryIsOne DEF PhoneIInv, PhoneTypeOK, Entry
<1>5. PhoneTypeOK'
  BY <1>1, <1>2, <1>3, <1>4 DEF PhoneIInv, PhoneTypeOK
<1>6. SyncedIsStored'
  BY <1>1, <1>2 DEF PhoneIInv, SyncedIsStored
<1>7. AcceptedIsStored'
  BY <1>1, <1>2, <1>3, <1>4 DEF AcceptedIsStored
<1>8. Apart => Apart'
  <2>1. Apart => StoredByOwner'
    BY <1>1, <1>2, <1>4 DEF Apart, PassIsOwn, StoredByOwner
  <2>. QED  BY <1>2, <1>3, <2>1
       DEF Apart, Undisturbed, QueueIsOwn, CursorIsOwn, PassIsOwn, InOutbox
<1>. QED  BY <1>2, <1>5, <1>6, <1>7, <1>8 DEF PhoneIInv

(* Only what the server has accepted is marked as synced. *)
LEMMA ReceiveAnswerIInv ==
    ASSUME PhoneIInv, ReceiveAnswer
    PROVE  PhoneIInv'
<1>1. /\ UNCHANGED <<signedIn, account, leaving, timer, logins>>
      /\ UNCHANGED <<resting, cursor, stored, crossed, mishaps>>
      /\ pass.step \in {"accepted", "refused"}
  BY DEF ReceiveAnswer, Session
<1>2. /\ pass' \in Pass /\ pass'.step = "push" /\ pass'.todo = pass.todo \ {Entry}
      /\ pass'.from = pass.from /\ pass'.as = pass.as
  BY PassFields DEF ReceiveAnswer, PhoneIInv, Pass, Steps
<1>3. /\ outbox' \in [Entries -> {"none", "PENDING", "SYNCED", "FAILED", "wiped"}]
      /\ \A e \in Entries :
            \/ outbox'[e] = outbox[e]
            \/ InOutbox(e) /\ outbox'[e] = "FAILED"
            \/ InOutbox(e) /\ e = Entry /\ pass.step = "accepted" /\ outbox'[e] = "SYNCED"
  BY <1>1 DEF ReceiveAnswer, PhoneIInv, PhoneTypeOK
<1>4. PhoneTypeOK'
  BY <1>1, <1>2, <1>3 DEF PhoneIInv, PhoneTypeOK
<1>5. SyncedIsStored' /\ AcceptedIsStored'
  BY <1>1, <1>2, <1>3 DEF PhoneIInv, SyncedIsStored, AcceptedIsStored
<1>6. Apart => Apart'
  <2>1. \A e \in Entries : InOutbox(e)' => InOutbox(e)
    BY <1>3 DEF InOutbox
  <2>2. QueueIsOwn => QueueIsOwn'
    BY <1>1, <2>1 DEF QueueIsOwn
  <2>. QED  BY <1>1, <1>2, <2>2
       DEF Apart, Undisturbed, CursorIsOwn, PassIsOwn, StoredByOwner
<1>. QED  BY <1>1, <1>4, <1>5, <1>6 DEF PhoneIInv

(* A lost call ends the pushes, and the pull follows. *)
LEMMA LosePostIInv ==
    ASSUME PhoneIInv, LosePost
    PROVE  PhoneIInv'
<1>1. /\ UNCHANGED <<signedIn, account, leaving, timer, logins>>
      /\ UNCHANGED <<resting, outbox, cursor, stored, crossed>>
      /\ mishaps' \in 0..MaxMishaps /\ pass.step # "idle"
  BY PhoneBoundsAssumption DEF LosePost, Mishap, Session, PhoneIInv, PhoneTypeOK
<1>2. /\ pass' \in Pass /\ pass'.step = "push" /\ pass'.todo = {}
      /\ pass'.from = pass.from /\ pass'.as = pass.as
  BY PassFields DEF LosePost, PhoneIInv, Pass, Steps
<1>3. PhoneTypeOK'
  BY <1>1, <1>2 DEF PhoneIInv, PhoneTypeOK
<1>4. SyncedIsStored' /\ AcceptedIsStored'
  BY <1>1, <1>2 DEF PhoneIInv, SyncedIsStored, AcceptedIsStored
<1>5. Apart => Apart'
  BY <1>1, <1>2
  DEF Apart, Undisturbed, QueueIsOwn, CursorIsOwn, PassIsOwn, StoredByOwner, InOutbox
<1>. QED  BY <1>1, <1>3, <1>4, <1>5 DEF PhoneIInv

(* A pull begins with the stored cursor. *)
LEMMA StartPullIInv ==
    ASSUME PhoneIInv, StartPull
    PROVE  PhoneIInv'
<1>1. /\ UNCHANGED <<signedIn, account, leaving, timer, logins>>
      /\ UNCHANGED <<resting, outbox, cursor, stored, crossed, mishaps>>
      /\ pass.step = "push" /\ pass.todo = {} /\ cursor \in Accounts
  BY DEF StartPull, Session, PhoneIInv, PhoneTypeOK
<1>2. /\ pass' \in Pass /\ pass'.step = "pull" /\ pass'.todo = {}
      /\ pass'.from = cursor /\ pass'.as = pass.as
  BY <1>1, PassFields DEF StartPull, PhoneIInv, Pass, Steps
<1>3. PhoneTypeOK'
  BY <1>1, <1>2 DEF PhoneIInv, PhoneTypeOK
<1>4. SyncedIsStored' /\ AcceptedIsStored'
  BY <1>1, <1>2 DEF PhoneIInv, SyncedIsStored, AcceptedIsStored
<1>5. Apart => Apart'
  BY <1>1, <1>2
  DEF Apart, Undisturbed, QueueIsOwn, CursorIsOwn, PassIsOwn, StoredByOwner, InOutbox
<1>. QED  BY <1>1, <1>3, <1>4, <1>5 DEF PhoneIInv

(* A pull that ends leaves nothing of the pass; a page moves the cursor to *)
(* the log of the account that asked, when it began with that log.         *)
LEMMA PullEndsIInv ==
    ASSUME PhoneIInv, ReceivePage \/ LosePage
    PROVE  PhoneIInv'
<1>1. /\ UNCHANGED <<signedIn, account, leaving, timer, logins>>
      /\ UNCHANGED <<outbox, stored, crossed>> /\ pass' = NoPass /\ pass.step = "asked"
      /\ \/ cursor' = cursor
         \/ cursor' = pass.from /\ pass.from \notin {Nobody, pass.as}
         \/ cursor' = pass.as
      /\ mishaps' \in 0..MaxMishaps /\ resting' \in BOOLEAN
  <2>1. mishaps' \in 0..MaxMishaps
    <3>1. mishaps \in 0..MaxMishaps
      BY DEF PhoneIInv, PhoneTypeOK
    <3>2. mishaps' = mishaps \/ (mishaps < MaxMishaps /\ mishaps' = mishaps + 1)
      BY DEF ReceivePage, LosePage, Mishap
    <3>. QED  BY <3>1, <3>2, PhoneBoundsAssumption
  <2>2. resting' \in BOOLEAN /\ pass' = NoPass /\ pass.step = "asked"
    BY DEF ReceivePage, LosePage, Return, PhoneIInv, PhoneTypeOK
  <2>3. \/ cursor' = cursor
        \/ cursor' = pass.from /\ pass.from \notin {Nobody, pass.as}
        \/ cursor' = pass.as
    BY DEF ReceivePage, LosePage
  <2>. QED  BY <2>1, <2>2, <2>3 DEF ReceivePage, LosePage, Session
<1>2. PhoneTypeOK'
  BY <1>1, NoPassFields, PassFields DEF PhoneIInv, PhoneTypeOK
<1>3. SyncedIsStored' /\ AcceptedIsStored'
  BY <1>1, NoPassFields DEF PhoneIInv, SyncedIsStored, AcceptedIsStored
<1>4. Apart => Apart'
  <2>1. Apart => leaving = "no" /\ pass.as = account /\ pass.from \in {Nobody, account}
    BY <1>1 DEF Apart, Undisturbed, PassIsOwn
  <2>2. Apart => CursorIsOwn'
    BY <1>1, <2>1 DEF Apart, CursorIsOwn
  <2>. QED  BY <1>1, <2>2, NoPassFields
       DEF Apart, Undisturbed, QueueIsOwn, PassIsOwn, StoredByOwner, InOutbox
<1>. QED  BY <1>1, <1>2, <1>3, <1>4 DEF PhoneIInv

(* The tokens go, the pass ends, and the sign-out begins with the wipe. *)
LEMMA ExpireIInv ==
    ASSUME PhoneIInv, pass.step # "idle", Expire, crossed' = crossed,
           mishaps' \in 0..MaxMishaps
    PROVE  PhoneIInv'
<1>1. /\ UNCHANGED <<signedIn, timer, outbox, cursor, stored, logins, crossed>>
      /\ account' = Nobody /\ leaving' = "wipe" /\ pass' = NoPass /\ resting' \in BOOLEAN
  BY DEF Expire, Return, PhoneIInv, PhoneTypeOK
<1>2. PhoneTypeOK'
  BY <1>1, NoPassFields DEF PhoneIInv, PhoneTypeOK, Accounts
<1>3. SyncedIsStored' /\ AcceptedIsStored'
  BY <1>1, NoPassFields DEF PhoneIInv, SyncedIsStored, AcceptedIsStored
<1>4. Apart => Apart'
  BY <1>1, NoPassFields
  DEF Apart, Undisturbed, QueueIsOwn, CursorIsOwn, PassIsOwn, StoredByOwner, InOutbox
<1>. QED  BY <1>1, <1>2, <1>3, <1>4 DEF PhoneIInv

(* A request without a token: when it is repeated for somebody who signed  *)
(* in meanwhile, something has crossed already.                            *)
LEMMA UnauthorisedIInv ==
    ASSUME PhoneIInv, Unauthorised
    PROVE  PhoneIInv'
<1>1. pass.step \in {"posted", "asked"} /\ pass.as = Nobody
  BY DEF Unauthorised
<1>2. CASE account = Nobody
  BY <1>1, <1>2, ExpireIInv DEF Unauthorised, PhoneIInv, PhoneTypeOK
<1>3. CASE account # Nobody
  <2>1. /\ UNCHANGED <<signedIn, account, leaving, timer, logins>>
        /\ UNCHANGED <<resting, outbox, cursor, stored, crossed, mishaps>>
        /\ account \in Accounts
    BY <1>3 DEF Unauthorised, Session, PhoneIInv, PhoneTypeOK
  <2>2. /\ pass' \in Pass /\ pass'.step = pass.step /\ pass'.todo = pass.todo
    BY <1>3, <2>1, PassFields DEF Unauthorised, PhoneIInv, Pass
  <2>3. PhoneTypeOK' /\ crossed'
    BY <1>1, <1>3, <2>1, <2>2 DEF PhoneIInv, PhoneTypeOK, Apart, PassIsOwn
  <2>4. SyncedIsStored' /\ AcceptedIsStored'
    BY <1>1, <2>1, <2>2 DEF PhoneIInv, SyncedIsStored, AcceptedIsStored
  <2>. QED  BY <2>3, <2>4 DEF PhoneIInv
<1>. QED  BY <1>2, <1>3

(* The session was revoked while a request was under way. *)
LEMMA SessionRevokedIInv ==
    ASSUME PhoneIInv, SessionRevoked
    PROVE  PhoneIInv'
<1>1. /\ pass.step # "idle" /\ Expire /\ crossed' = crossed
      /\ mishaps' \in 0..MaxMishaps
  BY PhoneBoundsAssumption DEF SessionRevoked, Mishap, PhoneIInv, PhoneTypeOK
<1>. QED  BY <1>1, ExpireIInv

(* A kill in the middle of a sign-out leaves it half done: that crosses. *)
LEMMA KillIInv ==
    ASSUME PhoneIInv, Kill
    PROVE  PhoneIInv'
<1>1. /\ UNCHANGED <<account, outbox, cursor, stored, logins>>
      /\ pass' = NoPass /\ leaving' = "no" /\ crossed' = (crossed \/ leaving # "no")
  BY DEF Kill
<1>2. PhoneTypeOK'
  <2>1. signedIn' \in BOOLEAN /\ timer' \in BOOLEAN /\ resting' \in BOOLEAN
    BY DEF Kill
  <2>2. crossed' \in BOOLEAN
    BY <1>1 DEF PhoneIInv, PhoneTypeOK
  <2>3. mishaps' \in 0..MaxMishaps
    BY PhoneBoundsAssumption DEF Kill, Mishap, PhoneIInv, PhoneTypeOK
  <2>. QED  BY <1>1, <2>1, <2>2, <2>3, NoPassFields DEF PhoneIInv, PhoneTypeOK
<1>3. SyncedIsStored' /\ AcceptedIsStored'
  BY <1>1, NoPassFields DEF PhoneIInv, SyncedIsStored, AcceptedIsStored
<1>4. ~crossed' => Apart'
  BY <1>1, NoPassFields
  DEF PhoneIInv, Apart, Undisturbed, QueueIsOwn, CursorIsOwn, PassIsOwn, StoredByOwner, InOutbox
<1>. QED  BY <1>2, <1>3, <1>4 DEF PhoneIInv

-----------------------------------------------------------------------------
(* A phone without an account. *)
LEMMA PhoneInitIInv == PhoneInit => PhoneIInv
<1> SUFFICES ASSUME PhoneInit  PROVE PhoneIInv
  OBVIOUS
<1>1. PhoneTypeOK
  <2>1. 0 \in 0..MaxLogins /\ 0 \in 0..MaxMishaps
    BY PhoneBoundsAssumption
  <2>2. outbox \in [Entries -> {"none", "PENDING", "SYNCED", "FAILED", "wiped"}]
    BY DEF PhoneInit
  <2>. QED  BY <2>1, <2>2, NoPassFields DEF PhoneInit, PhoneTypeOK, Accounts
<1>2. SyncedIsStored /\ AcceptedIsStored
  BY NoPassFields DEF PhoneInit, SyncedIsStored, AcceptedIsStored
<1>3. Apart
  BY NoPassFields
  DEF PhoneInit, Apart, Undisturbed, QueueIsOwn, CursorIsOwn, PassIsOwn, StoredByOwner, InOutbox
<1>. QED  BY <1>1, <1>2, <1>3 DEF PhoneIInv

(* Every step keeps the invariant. *)
LEMMA PhoneNextIInv == PhoneIInv /\ [PhoneNext]_phoneVars => PhoneIInv'
<1> SUFFICES ASSUME PhoneIInv, [PhoneNext]_phoneVars  PROVE PhoneIInv'
  OBVIOUS
<1>1. CASE UNCHANGED phoneVars
  BY <1>1
  DEF phoneVars, PhoneIInv, PhoneTypeOK, SyncedIsStored, AcceptedIsStored, Entry, Apart,
      Undisturbed, QueueIsOwn, CursorIsOwn, PassIsOwn, StoredByOwner, InOutbox
<1>2. CASE PassStep
  BY <1>2, SendIInv, ServerAppendsIInv, ReceiveAnswerIInv, StartPullIInv, PullEndsIInv,
     UnauthorisedIInv DEF PassStep
<1>3. CASE PhoneNext
  BY <1>2, <1>3, SetAuthenticatedIInv, LogoutIInv, RecordIInv, RetryFailedIInv, StartPassIInv,
     WakeIInv, LosePostIInv, PullEndsIInv, SessionRevokedIInv, KillIInv DEF PhoneNext
<1>. QED  BY <1>1, <1>3

(* The inductive invariant, for every value of the constants. *)
LEMMA SpecPhoneIInv == PhoneSpec => []PhoneIInv
BY PhoneInitIInv, PhoneNextIInv, PTL DEF PhoneSpec

(* However often accounts change on a phone, whatever is lost, refused or  *)
(* killed: what it shows as synced is in a log, and two accounts' data     *)
(* meet only when a pass, a recording or a kill has overlapped a sign-in   *)
(* or a sign-out.                                                          *)
THEOREM LeaksNeedACrossing == PhoneSpec => []PhoneInv
<1>1. PhoneIInv => PhoneInv
  BY DEF PhoneIInv, PhoneInv, LeakNeedsCrossing, Apart, CursorIsOwn, StoredByOwner
<1>. QED  BY <1>1, SpecPhoneIInv, PTL
=============================================================================
