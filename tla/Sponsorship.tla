----------------------------- MODULE Sponsorship -----------------------------
(***************************************************************************)
(* The sponsorship pools of one month and the grants paid from them.       *)
(* SponsorshipService funds a pool, awards and revokes grants for several  *)
(* super admins at a time, and ends the expired ones at night.  Nothing    *)
(* runs in a transaction: each call of the database is a step of its own,  *)
(* and what one of them read is stale when the next one writes.            *)
(***************************************************************************)
EXTENDS Integers, Sequences, FiniteSets

CONSTANTS
    Admins,         \* calls of super admins that run at the same time
    Grants,         \* grants that may be awarded
    Amounts,        \* a tenth of the net profit, as it is entered
    Costs,          \* estimated costs; a grant without one leaves the pools
                    \* alone and is left out
    MaxFunds,       \* bound on the calculations, and so on the pools
    MaxFailures     \* bound on failed calls and deaths

ASSUME DataAssumption == Amounts \subseteq Nat /\ Costs \subseteq Nat \ {0}
ASSUME BoundsAssumption == IsFiniteSet(Admins) /\ {MaxFunds, MaxFailures} \subseteq Nat

VARIABLES
    pools,      \* sponsorship_pools of the month, oldest first: remaining_lkr
    grant,      \* sponsored_grants, and whether expires_at has passed
    events,     \* sponsored_grant_events, by grant
    admin,      \* the call each admin waits for
    night,      \* processExpiredGrants and the grants it has read
    crossed,    \* pools whose balance another call wrote between the read and
                \* the write of one, or whose grant two calls ended
    raced,      \* grants that two calls ended
    twice,      \* two calculations of the month ran at the same time
    missed,     \* a lookup that failed was read as no pool, and there was one
    funds, failures

vars == <<pools, grant, events, admin, night, crossed, raced, twice, missed, funds, failures>>

PoolIds == 1..MaxFunds
NoGrant == "none"
Idle == [step |-> "idle", pool |-> 0, grant |-> NoGrant, sum |-> 0, seen |-> 0]
Unborn == [state |-> "none", pool |-> 0, cost |-> 0, expired |-> FALSE]
NoJob == [step |-> "idle", ids |-> {}]

(* The sum is an amount or a cost; seen is the balance that was read. *)
Call == [step : {"idle", "fund", "deduct", "insert", "granted", "revoke", "restore", "revoked"},
         pool : 0..MaxFunds, grant : Grants \union {NoGrant}, sum : Nat, seen : Nat]

TypeOK ==
    /\ pools \in Seq(Nat) /\ Len(pools) <= MaxFunds
    /\ grant \in [Grants -> [state : {"none", "active", "inactive"}, pool : 0..MaxFunds,
                             cost : Nat, expired : BOOLEAN]]
    /\ events \in [Grants -> SUBSET {"GRANTED", "MANUAL_REVOKE", "EXPIRED"}]
    /\ admin \in [Admins -> Call]
    /\ night \in [step : {"idle", "end", "log"}, ids : SUBSET Grants]
    /\ crossed \subseteq PoolIds /\ raced \subseteq Grants
    /\ twice \in BOOLEAN /\ missed \in BOOLEAN
    /\ funds \in 0..MaxFunds /\ failures \in 0..MaxFailures

Init ==
    /\ pools = <<>>
    /\ grant = [g \in Grants |-> Unborn]
    /\ events = [g \in Grants |-> {}]
    /\ admin = [a \in Admins |-> Idle]
    /\ night = NoJob
    /\ crossed = {} /\ raced = {}
    /\ twice = FALSE /\ missed = FALSE
    /\ funds = 0 /\ failures = 0

Failure == failures < MaxFailures /\ failures' = failures + 1
At(a, step) == admin[a].step = step
Rest(a) == admin' = [admin EXCEPT ![a] = Idle]
Begin(a, step, p, g, n) ==
    /\ admin[a] = Idle
    /\ admin' = [admin EXCEPT ![a] = [step |-> step, pool |-> p, grant |-> g, sum |-> n,
                                      seen |-> IF p = 0 THEN 0 ELSE pools[p]]]
Goto(a, step) == admin' = [admin EXCEPT ![a].step = step]
Others == <<night, twice, missed, funds>>
Log(g, event) == events' = [events EXCEPT ![g] = @ \union {event}]

(* The balance that a call has read may have been written since. *)
Cross(p, seen) == crossed' = IF pools[p] = seen THEN crossed ELSE crossed \union {p}

-----------------------------------------------------------------------------
(* calculateMonthlyPool *)

(* Mutant of FindPool: every calculation inserts a row. *)
FindNothing(a) ==
    /\ funds < MaxFunds /\ funds' = funds + 1
    /\ \E n \in Amounts : Begin(a, "fund", 0, NoGrant, n)
    /\ twice' = (twice \/ \E b \in Admins : At(b, "fund"))
    /\ UNCHANGED <<pools, grant, events, night, crossed, raced, missed, failures>>

(* The row of the month is looked up.  An error is not looked at and reads *)
(* as no row: one of the query, or, for good, that there are two of them.  *)
FindPool(a) ==
    /\ funds < MaxFunds /\ funds' = funds + 1
    /\ \E n \in Amounts, read \in BOOLEAN :
          /\ Begin(a, "fund", IF read /\ Len(pools) = 1 THEN 1 ELSE 0, NoGrant, n)
          /\ missed' = (missed \/ (~read /\ Len(pools) = 1))
          /\ IF read THEN UNCHANGED failures ELSE Failure
    /\ twice' = (twice \/ \E b \in Admins : At(b, "fund"))
    /\ UNCHANGED <<pools, grant, events, night, crossed, raced>>

(* Mutant of WritePool: the balance is set to the amount. *)
WriteAmount(a) ==
    /\ At(a, "fund")
    /\ admin[a].pool # 0
    /\ LET p == admin[a].pool IN
       /\ pools' = [pools EXCEPT ![p] = admin[a].sum]
       /\ Cross(p, admin[a].seen)
    /\ Rest(a)
    /\ UNCHANGED <<Others, grant, events, raced, failures>>

(* The former amount is not among the columns that were read and counts as *)
(* zero: the whole new amount is added to the balance.                     *)
WritePool(a) ==
    /\ At(a, "fund")
    /\ admin[a].pool # 0
    /\ LET p == admin[a].pool IN
       /\ pools' = [pools EXCEPT ![p] = admin[a].seen + admin[a].sum]
       /\ Cross(p, admin[a].seen)
    /\ Rest(a)
    /\ UNCHANGED <<Others, grant, events, raced, failures>>

(* Nothing in the table keeps a month to one row. *)
InsertPool(a) ==
    /\ At(a, "fund")
    /\ admin[a].pool = 0
    /\ pools' = Append(pools, admin[a].sum)
    /\ Rest(a)
    /\ UNCHANGED <<Others, grant, events, crossed, raced, failures>>

-----------------------------------------------------------------------------
(* awardGrant *)

Pending(g) == \E a \in Admins : admin[a].step \in {"deduct", "insert"} /\ admin[a].grant = g

(* Mutant of CheckBalance: the balance need not cover the cost. *)
CheckNothing(a) ==
    /\ \E g \in Grants, p \in DOMAIN pools, c \in Costs :
          /\ grant[g] = Unborn /\ ~Pending(g)
          /\ Begin(a, "deduct", p, g, c)
    /\ UNCHANGED <<Others, pools, grant, events, crossed, raced, failures>>

CheckBalance(a) ==
    /\ \E g \in Grants, p \in DOMAIN pools, c \in Costs :
          /\ grant[g] = Unborn /\ ~Pending(g)
          /\ c <= pools[p]
          /\ Begin(a, "deduct", p, g, c)
    /\ UNCHANGED <<Others, pools, grant, events, crossed, raced, failures>>

Deduct(a) ==
    /\ At(a, "deduct")
    /\ LET p == admin[a].pool IN
       /\ pools' = [pools EXCEPT ![p] = admin[a].seen - admin[a].sum]
       /\ Cross(p, admin[a].seen)
    /\ Goto(a, "insert")
    /\ UNCHANGED <<Others, grant, events, raced, failures>>

InsertGrant(a) ==
    /\ At(a, "insert")
    /\ grant' = [grant EXCEPT ![admin[a].grant] =
                    [state |-> "active", pool |-> admin[a].pool, cost |-> admin[a].sum,
                     expired |-> FALSE]]
    /\ Goto(a, "granted")
    /\ UNCHANGED <<Others, pools, events, crossed, raced, failures>>

LogGranted(a) ==
    /\ At(a, "granted")
    /\ Log(admin[a].grant, "GRANTED")
    /\ Rest(a)
    /\ UNCHANGED <<Others, pools, grant, crossed, raced, failures>>

-----------------------------------------------------------------------------
(* revokeGrant *)

ReadGrant(a) ==
    /\ \E g \in Grants : grant[g].state = "active" /\ Begin(a, "revoke", 0, g, 0)
    /\ UNCHANGED <<Others, pools, grant, events, crossed, raced, failures>>

(* The row is updated by its id, whether it is still active or not. *)
Deactivate(a) ==
    /\ At(a, "revoke")
    /\ LET g == admin[a].grant
           again == grant[g].state = "inactive"
           meets == night.step = "end" /\ g \in night.ids IN
       /\ grant' = [grant EXCEPT ![g].state = "inactive"]
       /\ raced' = IF again \/ meets THEN raced \union {g} ELSE raced
       /\ crossed' = IF again THEN crossed \union {grant[g].pool} ELSE crossed
       /\ Goto(a, "restore")
    /\ UNCHANGED <<Others, pools, events, failures>>

(* increment_pool_remaining *)
Restore(a) ==
    /\ At(a, "restore")
    /\ LET g == grant[admin[a].grant] IN
       pools' = [pools EXCEPT ![g.pool] = @ + g.cost]
    /\ Goto(a, "revoked")
    /\ UNCHANGED <<Others, grant, events, crossed, raced, failures>>

(* An error is only logged: the money is not given back, now or later. *)
RestoreFails(a) ==
    /\ At(a, "restore")
    /\ Failure
    /\ Goto(a, "revoked")
    /\ UNCHANGED <<Others, pools, grant, events, crossed, raced>>

LogRevoked(a) ==
    /\ At(a, "revoked")
    /\ Log(admin[a].grant, "MANUAL_REVOKE")
    /\ Rest(a)
    /\ UNCHANGED <<Others, pools, grant, crossed, raced, failures>>

(* Any other call of a handler fails, or the process dies. *)
CallFails(a) ==
    /\ ~At(a, "idle")
    /\ Failure
    /\ Rest(a)
    /\ UNCHANGED <<Others, pools, grant, events, crossed, raced>>

-----------------------------------------------------------------------------
(* processExpiredGrants, a step of the nightly job *)

ByNight == UNCHANGED <<pools, admin, crossed, twice, missed, funds>>

Expire(g) ==
    /\ grant[g].state = "active" /\ ~grant[g].expired
    /\ grant' = [grant EXCEPT ![g].expired = TRUE]
    /\ ByNight /\ UNCHANGED <<events, night, raced, failures>>

(* Mutants of ReadExpired: ended grants are read as well; or the job of    *)
(* one night is the last.                                                  *)
ReadEnded ==
    /\ night.step = "idle"
    /\ LET ids == {g \in Grants : grant[g].expired /\ "EXPIRED" \notin events[g]} IN
       ids # {} /\ night' = [step |-> "end", ids |-> ids]
    /\ ByNight /\ UNCHANGED <<grant, events, raced, failures>>
ReadExpiredOnce ==
    /\ night.step = "idle" /\ failures = 0
    /\ LET ids == {g \in Grants : grant[g].state = "active" /\ grant[g].expired} IN
       ids # {} /\ night' = [step |-> "end", ids |-> ids]
    /\ ByNight /\ UNCHANGED <<grant, events, raced, failures>>

ReadExpired ==
    /\ night.step = "idle"
    /\ LET ids == {g \in Grants : grant[g].state = "active" /\ grant[g].expired} IN
       ids # {} /\ night' = [step |-> "end", ids |-> ids]
    /\ ByNight /\ UNCHANGED <<grant, events, raced, failures>>

EndExpired ==
    /\ night.step = "end"
    /\ grant' = [g \in Grants |-> IF g \in night.ids THEN [grant[g] EXCEPT !.state = "inactive"]
                                                     ELSE grant[g]]
    /\ night' = [night EXCEPT !.step = "log"]
    /\ ByNight /\ UNCHANGED <<events, raced, failures>>

LogExpired ==
    /\ night.step = "log"
    /\ events' = [g \in Grants |-> events[g] \union IF g \in night.ids THEN {"EXPIRED"} ELSE {}]
    /\ night' = NoJob
    /\ ByNight /\ UNCHANGED <<grant, raced, failures>>

(* A call fails, or an earlier step of the nightly job. *)
NightFails ==
    /\ night # NoJob
    /\ Failure
    /\ night' = NoJob
    /\ ByNight /\ UNCHANGED <<grant, events, raced>>

-----------------------------------------------------------------------------
Fund(a) == FindPool(a) \/ WritePool(a) \/ InsertPool(a)
Give(a) == CheckBalance(a) \/ Deduct(a) \/ InsertGrant(a) \/ LogGranted(a)
Revoke(a) == ReadGrant(a) \/ Deactivate(a) \/ Restore(a) \/ RestoreFails(a) \/ LogRevoked(a)
Night == ReadExpired \/ EndExpired \/ LogExpired

Next ==
    \/ \E a \in Admins : Fund(a) \/ Give(a) \/ Revoke(a) \/ CallFails(a)
    \/ \E g \in Grants : Expire(g)
    \/ Night \/ NightFails

Spec == Init /\ [][Next]_vars

(* BullMQ runs the job every night, whatever became of the last one. *)
FairSpec == Spec /\ WF_vars(Night)

-----------------------------------------------------------------------------
(* A grant holds its cost from the deduction until it ends, a revoked one  *)
(* until the money is given back.                                          *)
Held(g, p) ==
    LET paid == {admin[a].sum : a \in {b \in Admins : /\ At(b, "insert")
                                                      /\ admin[b].grant = g /\ admin[b].pool = p}}
        inForce == \/ grant[g].state = "active"
                   \/ \E a \in Admins : At(a, "restore") /\ admin[a].grant = g
    IN CASE paid # {} -> CHOOSE n \in paid : TRUE
         [] paid = {} /\ inForce /\ grant[g].pool = p -> grant[g].cost
         [] OTHER -> 0

Remaining(p) == IF p \in DOMAIN pools THEN pools[p] ELSE 0

Balance == [p \in PoolIds |-> Remaining(p)]
HeldFrom == [p \in PoolIds |-> [g \in Grants |-> Held(g, p)]]

Pool == INSTANCE GrantPool WITH balance <- Balance, held <- HeldFrom, mixed <- crossed

(* Every pool keeps the promise of GrantPool until two calls cross: the    *)
(* money of a grant is taken once, when it can be afforded, and given back *)
(* at most once, although no call of the service is a transaction.         *)
ImplementsGrantPool == Pool!PoolSpec

(* A grant is both expired and revoked only if the two calls crossed, and  *)
(* a month has two pools only if two calculations ran at the same time or  *)
(* the lookup of the one pool failed.                                      *)
EndsOnce == \A g \in Grants : {"MANUAL_REVOKE", "EXPIRED"} \subseteq events[g] => g \in raced
OnePool == Len(pools) > 1 => twice \/ missed

LedgerInv == TypeOK /\ OnePool

(* A grant that has expired is ended some night, though a night may fail.  *)
ExpiredEnds ==
    \A g \in Grants : grant[g].state = "active" /\ grant[g].expired ~> grant[g].state = "inactive"
=============================================================================
