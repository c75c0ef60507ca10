-------------------------- MODULE SponsorshipProof --------------------------
(***************************************************************************)
(* Proofs about Sponsorship for any number of calls, grants, amounts,      *)
(* costs, calculations and failures.                                       *)
(***************************************************************************)
EXTENDS Sponsorship, FiniteSetTheorems, SequenceTheorems, TLAPS

Paying(a) == admin[a].step \in {"deduct", "insert"}
Ending(a) == admin[a].step \in {"restore", "revoked"}
Funding == {a \in Admins : At(a, "fund")}

(* Every calculation under way may still add a pool. *)
Counted == Len(pools) + Cardinality(Funding) <= funds

(* A call works on a pool and a grant that are there; an award has its      *)
(* grant to itself and can afford it by what it has read.                   *)
Works(a) ==
    /\ At(a, "fund") => admin[a].pool <= Len(pools) /\ admin[a].sum \in Amounts
    /\ admin[a].step \notin {"idle", "fund"} => admin[a].grant \in Grants
    /\ Paying(a) => /\ admin[a].pool \in 1..Len(pools) /\ admin[a].sum \in Costs
                    /\ grant[admin[a].grant].state = "none"
    /\ At(a, "deduct") => admin[a].sum <= admin[a].seen
    /\ At(a, "granted") \/ At(a, "revoke") => grant[admin[a].grant].state # "none"
    /\ Ending(a) => grant[admin[a].grant].state = "inactive"
OwnGrant ==
    \A a, b \in Admins : Paying(a) /\ Paying(b) /\ admin[a].grant = admin[b].grant => a = b
PaidFrom ==
    /\ \A g \in Grants : grant[g].state # "none" => grant[g].pool \in 1..Len(pools)
    /\ \A g \in night.ids : grant[g].state # "none"
Linked == (\A a \in Admins : Works(a)) /\ OwnGrant /\ PaidFrom

(* The money of a grant is given back by one call, unless two crossed. *)
OneRestore ==
    \A a, b \in Admins :
        At(a, "restore") /\ At(b, "restore") /\ admin[a].grant = admin[b].grant =>
            a = b \/ grant[admin[a].grant].pool \in crossed

(* Until two calculations run at once, or a lookup fails, there is one at   *)
(* most, and it inserts only where no pool is.                              *)
Alone ==
    ~(twice \/ missed) =>
        /\ Len(pools) <= 1
        /\ \A a, b \in Admins : At(a, "fund") /\ At(b, "fund") => a = b
        /\ \A a \in Admins : At(a, "fund") /\ admin[a].pool = 0 => Len(pools) = 0

(* Who revokes a grant and who expires it know of each other.               *)
Revoked(g) == \/ "MANUAL_REVOKE" \in events[g]
              \/ \E a \in Admins : Ending(a) /\ admin[a].grant = g
Expired(g) == \/ "EXPIRED" \in events[g]
              \/ night.step = "log" /\ g \in night.ids
Nearing(g) == night.step = "end" /\ g \in night.ids
Ended ==
    \A g \in Grants :
       /\ Revoked(g) \/ Expired(g) => grant[g].state = "inactive"
       /\ Revoked(g) /\ (Expired(g) \/ Nearing(g)) => g \in raced

IInv == TypeOK /\ Counted /\ Linked /\ OneRestore /\ Alone /\ Ended

-----------------------------------------------------------------------------
(* What the three ways to write a call's record make of it. *)
Steps == {"idle", "fund", "deduct", "insert", "granted", "revoke", "restore", "revoked"}
Same(a) == \A b \in Admins : b # a => admin'[b] = admin[b]
Keeps(a) == /\ admin'[a].pool = admin[a].pool /\ admin'[a].grant = admin[a].grant
            /\ admin'[a].sum = admin[a].sum /\ admin'[a].seen = admin[a].seen

LEMMA GotoFacts ==
    ASSUME admin \in [Admins -> Call], NEW a \in Admins, NEW step \in Steps, Goto(a, step)
    PROVE  /\ admin' \in [Admins -> Call] /\ Same(a) /\ Keeps(a)
           /\ admin'[a].step = step
<1>1. [admin[a] EXCEPT !.step = step] \in Call
  BY DEF Call, Steps
<1>2. admin' = [admin EXCEPT ![a] = [admin[a] EXCEPT !.step = step]]
  BY DEF Goto
<1>. QED  BY <1>1, <1>2 DEF Call, Same, Keeps

LEMMA RestFacts ==
    ASSUME admin \in [Admins -> Call], NEW a \in Admins, Rest(a)
    PROVE  admin' \in [Admins -> Call] /\ Same(a) /\ admin'[a].step = "idle"
BY BoundsAssumption DEF Rest, Call, Idle, Same

LEMMA BeginFacts ==
    ASSUME admin \in [Admins -> Call], pools \in Seq(Nat), Len(pools) <= MaxFunds,
           NEW a \in Admins, NEW step \in Steps, NEW p \in 0..Len(pools),
           NEW g \in Grants \union {NoGrant}, NEW n \in Nat, Begin(a, step, p, g, n)
    PROVE  /\ admin' \in [Admins -> Call] /\ Same(a)
           /\ admin[a].step = "idle"
           /\ admin'[a].step = step /\ admin'[a].pool = p /\ admin'[a].grant = g
           /\ admin'[a].sum = n /\ (p # 0 => admin'[a].seen = pools[p])
<1>1. Len(pools) \in Nat /\ MaxFunds \in Nat
  BY LenProperties, BoundsAssumption
<1>2. p # 0 => pools[p] \in Nat
  BY <1>1, ElementOfSeq
<1>3. [step |-> step, pool |-> p, grant |-> g, sum |-> n,
       seen |-> IF p = 0 THEN 0 ELSE pools[p]] \in Call
  BY <1>1, <1>2 DEF Call, Steps
<1>. QED  BY <1>3 DEF Begin, Idle, Same

LEMMA FailureFacts == failures \in 0..MaxFailures /\ Failure => failures' \in 0..MaxFailures
BY BoundsAssumption DEF Failure

(* A call that writes a balance. *)
LEMMA WriteLength ==
    ASSUME pools \in Seq(Nat), NEW p, NEW n, pools' = [pools EXCEPT ![p] = n]
    PROVE  Len(pools') = Len(pools)
<1>1. DOMAIN pools' = DOMAIN pools /\ pools' = [i \in 1..Len(pools) |-> pools'[i]]
  BY LenProperties
<1>. QED  BY <1>1, LenProperties

LEMMA WriteFacts ==
    ASSUME pools \in Seq(Nat), NEW p \in 1..Len(pools), NEW n \in Nat,
           pools' = [pools EXCEPT ![p] = n]
    PROVE  /\ pools' \in Seq(Nat) /\ Len(pools') = Len(pools)
           /\ \A q \in 1..Len(pools) : pools'[q] = IF q = p THEN n ELSE pools[q]
BY ExceptSeq

LEMMA FundingFinite == IsFiniteSet(Funding) /\ Cardinality(Funding) \in Nat
BY BoundsAssumption, FS_Subset, FS_CardinalityType DEF Funding

LEMMA CountedFacts ==
    ASSUME TypeOK, Counted, NEW a \in Admins, At(a, "fund")
    PROVE  Len(pools) + 1 <= MaxFunds
<1>1. Cardinality(Funding) # 0
  BY FundingFinite, FS_EmptySet DEF Funding
<1>. QED  BY <1>1, FundingFinite, LenProperties, BoundsAssumption DEF TypeOK, Counted

LEMMA PoolsType == TypeOK => /\ pools \in Seq(Nat) /\ Len(pools) \in Nat
                             /\ Len(pools) <= MaxFunds /\ DOMAIN pools = 1..Len(pools)
                             /\ \A p \in 1..Len(pools) : pools[p] \in Nat
BY LenProperties, ElementOfSeq DEF TypeOK

LEMMA TypeStep == TypeOK /\ Counted /\ Linked /\ [Next]_vars => TypeOK'
<1> SUFFICES ASSUME TypeOK, Counted, Linked, [Next]_vars PROVE TypeOK'
  OBVIOUS
<1>0. /\ admin \in [Admins -> Call] /\ \A a \in Admins : admin[a] \in Call
      /\ pools \in Seq(Nat) /\ Len(pools) \in Nat /\ Len(pools) <= MaxFunds
      /\ DOMAIN pools = 1..Len(pools) /\ MaxFunds \in Nat
      /\ \A p \in 1..Len(pools) : pools[p] \in Nat
  BY PoolsType, BoundsAssumption DEF TypeOK
<1> USE DEF TypeOK, Others, ByNight
<1>1. CASE UNCHANGED vars
  BY <1>1 DEF vars
<1>2. ASSUME NEW a \in Admins, FindPool(a) PROVE TypeOK'
  <2>1. PICK n \in Amounts, read \in BOOLEAN :
             /\ Begin(a, "fund", IF read /\ Len(pools) = 1 THEN 1 ELSE 0, NoGrant, n)
             /\ missed' = (missed \/ (~read /\ Len(pools) = 1))
             /\ failures' = failures \/ Failure
    BY <1>2 DEF FindPool
  <2>2. n \in Nat /\ (IF read /\ Len(pools) = 1 THEN 1 ELSE 0) \in 0..Len(pools)
    BY <1>0, DataAssumption
  <2>3. admin' \in [Admins -> Call]
    BY <1>0, <2>1, <2>2, BeginFacts, "fund" \in Steps DEF Steps
  <2>4. missed' \in BOOLEAN /\ failures' \in 0..MaxFailures
    BY <2>1, FailureFacts
  <2>. QED  BY <1>0, <1>2, <2>3, <2>4 DEF FindPool
<1>3. ASSUME NEW a \in Admins, WritePool(a) PROVE TypeOK'
  <2>1. admin[a].pool \in 1..Len(pools) /\ admin[a].seen + admin[a].sum \in Nat
    BY <1>0, <1>3 DEF WritePool, Linked, Works, Call, At
  <2>2. pools' \in Seq(Nat) /\ Len(pools') = Len(pools)
    BY <1>0, <1>3, <2>1, WriteFacts DEF WritePool
  <2>3. crossed' \subseteq crossed \union {admin[a].pool}
    BY <1>3 DEF WritePool, Cross
  <2>4. crossed' \subseteq PoolIds
    BY <1>0, <2>1, <2>3 DEF PoolIds
  <2>. QED  BY <1>0, <1>3, <2>2, <2>4, RestFacts DEF WritePool
<1>4. ASSUME NEW a \in Admins, InsertPool(a) PROVE TypeOK'
  <2>1. Len(pools) + 1 <= MaxFunds
    BY <1>4, CountedFacts DEF InsertPool
  <2>2. pools' \in Seq(Nat) /\ Len(pools') = Len(pools) + 1
    BY <1>0, <1>4, AppendProperties DEF InsertPool, Call
  <2>. QED  BY <1>0, <1>4, <2>1, <2>2, RestFacts DEF InsertPool
<1>5. ASSUME NEW a \in Admins, CheckBalance(a) PROVE TypeOK'
  <2>1. PICK g \in Grants, p \in DOMAIN pools, c \in Costs : Begin(a, "deduct", p, g, c)
    BY <1>5 DEF CheckBalance
  <2>2. c \in Nat /\ p \in 0..Len(pools)
    BY <1>0, DataAssumption
  <2>3. admin' \in [Admins -> Call]
    BY <1>0, <2>1, <2>2, BeginFacts DEF Steps
  <2>. QED  BY <1>5, <2>3 DEF CheckBalance
<1>6. ASSUME NEW a \in Admins, Deduct(a) PROVE TypeOK'
  <2>1. admin[a].pool \in 1..Len(pools) /\ admin[a].seen - admin[a].sum \in Nat
    BY <1>0, <1>6 DEF Deduct, Linked, Works, Paying, Call, At
  <2>2. pools' \in Seq(Nat) /\ Len(pools') = Len(pools)
    BY <1>0, <1>6, <2>1, WriteFacts DEF Deduct
  <2>3. crossed' \subseteq crossed \union {admin[a].pool}
    BY <1>6 DEF Deduct, Cross
  <2>4. crossed' \subseteq PoolIds
    BY <1>0, <2>1, <2>3 DEF PoolIds
  <2>. QED  BY <1>0, <1>6, <2>2, <2>4, GotoFacts DEF Deduct, Steps
<1>7. ASSUME NEW a \in Admins, InsertGrant(a) PROVE TypeOK'
  <2>1. [state |-> "active", pool |-> admin[a].pool, cost |-> admin[a].sum, expired |-> FALSE]
           \in [state : {"none", "active", "inactive"}, pool : 0..MaxFunds, cost : Nat,
                expired : BOOLEAN]
    BY <1>0 DEF Call
  <2>. QED  BY <1>0, <1>7, <2>1, GotoFacts DEF InsertGrant, Steps
<1>8. ASSUME NEW a \in Admins, LogGranted(a) PROVE TypeOK'
  BY <1>0, <1>8, RestFacts DEF LogGranted, Log
<1>9. ASSUME NEW a \in Admins, ReadGrant(a) PROVE TypeOK'
  <2>1. PICK g \in Grants : Begin(a, "revoke", 0, g, 0)
    BY <1>9 DEF ReadGrant
  <2>2. admin' \in [Admins -> Call]
    BY <1>0, <2>1, BeginFacts DEF Steps
  <2>. QED  BY <1>9, <2>2 DEF ReadGrant
<1>10. ASSUME NEW a \in Admins, Deactivate(a) PROVE TypeOK'
  <2>1. admin[a].grant \in Grants /\ grant[admin[a].grant].pool \in 1..Len(pools)
    BY <1>10 DEF Deactivate, Linked, Works, PaidFrom, At
  <2>2. raced' \subseteq Grants /\ crossed' \subseteq PoolIds
    BY <1>0, <1>10, <2>1 DEF Deactivate, PoolIds
  <2>3. grant' \in [Grants -> [state : {"none", "active", "inactive"}, pool : 0..MaxFunds,
                               cost : Nat, expired : BOOLEAN]]
    BY <1>10 DEF Deactivate
  <2>. QED  BY <1>0, <1>10, <2>2, <2>3, GotoFacts DEF Deactivate, Steps
<1>11. ASSUME NEW a \in Admins, Restore(a) PROVE TypeOK'
  <2>1. admin[a].grant \in Grants /\ grant[admin[a].grant].pool \in 1..Len(pools)
    BY <1>11 DEF Restore, Linked, Works, PaidFrom, Ending, At
  <2>2. pools[grant[admin[a].grant].pool] + grant[admin[a].grant].cost \in Nat
    BY <1>0, <2>1
  <2>3. pools' \in Seq(Nat) /\ Len(pools') = Len(pools)
    BY <1>0, <1>11, <2>1, <2>2, WriteFacts DEF Restore
  <2>. QED  BY <1>0, <1>11, <2>3, GotoFacts DEF Restore, Steps
<1>12. ASSUME NEW a \in Admins, RestoreFails(a) PROVE TypeOK'
  BY <1>0, <1>12, GotoFacts, FailureFacts DEF RestoreFails, Steps
<1>13. ASSUME NEW a \in Admins, LogRevoked(a) PROVE TypeOK'
  BY <1>0, <1>13, RestFacts DEF LogRevoked, Log
<1>14. ASSUME NEW a \in Admins, CallFails(a) PROVE TypeOK'
  BY <1>0, <1>14, RestFacts, FailureFacts DEF CallFails
<1>15. ASSUME NEW g \in Grants, Expire(g) PROVE TypeOK'
  BY <1>15 DEF Expire
<1>16. ASSUME ReadExpired PROVE TypeOK'
  BY <1>16 DEF ReadExpired
<1>17. ASSUME EndExpired PROVE TypeOK'
  <2>1. grant' \in [Grants -> [state : {"none", "active", "inactive"}, pool : 0..MaxFunds,
                               cost : Nat, expired : BOOLEAN]]
    <3>1. \A g \in Grants : [grant[g] EXCEPT !.state = "inactive"]
                               \in [state : {"none", "active", "inactive"}, pool : 0..MaxFunds,
                                    cost : Nat, expired : BOOLEAN]
      OBVIOUS
    <3>. QED  BY <1>17, <3>1 DEF EndExpired
  <2>2. night' \in [step : {"idle", "end", "log"}, ids : SUBSET Grants]
    BY <1>17 DEF EndExpired
  <2>. QED  BY <1>17, <2>1, <2>2 DEF EndExpired
<1>18. ASSUME LogExpired PROVE TypeOK'
  BY <1>18 DEF LogExpired, NoJob
<1>19. ASSUME NightFails PROVE TypeOK'
  BY <1>19, FailureFacts DEF NightFails, NoJob
<1>. QED
  BY <1>1, <1>2, <1>3, <1>4, <1>5, <1>6, <1>7, <1>8, <1>9, <1>10, <1>11, <1>12, <1>13, <1>14,
     <1>15, <1>16, <1>17, <1>18, <1>19
  DEF Next, Fund, Give, Revoke, Night

-----------------------------------------------------------------------------
(* Steps that neither begin a calculation nor insert a row. *)
NoFunding ==
    /\ UNCHANGED <<funds, twice, missed>> /\ Len(pools') = Len(pools)
    /\ \A b \in Admins : admin'[b].step = "fund" => admin'[b] = admin[b]

LEMMA NoFundingStep ==
    ASSUME TypeOK, [Next]_vars
    PROVE  NoFunding \/ \E a \in Admins : FindPool(a) \/ InsertPool(a)
<1>0. admin \in [Admins -> Call] /\ pools \in Seq(Nat)
  BY DEF TypeOK
<1> USE DEF NoFunding, Others, Same
<1>1. ASSUME NEW a \in Admins, WritePool(a) PROVE NoFunding
  BY <1>0, <1>1, RestFacts, WriteLength DEF WritePool
<1>2. ASSUME NEW a \in Admins, CheckBalance(a) \/ ReadGrant(a) PROVE NoFunding
  BY <1>0, <1>2 DEF CheckBalance, ReadGrant, Begin
<1>3. ASSUME NEW a \in Admins, Deduct(a) \/ InsertGrant(a) \/ Deactivate(a) \/ Restore(a)
                                \/ RestoreFails(a)
      PROVE  NoFunding
  <2>1. UNCHANGED <<funds, twice, missed>> /\ Len(pools') = Len(pools)
    BY <1>0, <1>3, WriteLength DEF Deduct, InsertGrant, Deactivate, Restore, RestoreFails
  <2>2. PICK step \in {"insert", "granted", "restore", "revoked"} : Goto(a, step)
    BY <1>3 DEF Deduct, InsertGrant, Deactivate, Restore, RestoreFails
  <2>3. Same(a) /\ admin'[a].step = step
    BY <1>0, <2>2, GotoFacts DEF Steps
  <2>. QED  BY <2>1, <2>3
<1>4. ASSUME NEW a \in Admins, LogGranted(a) \/ LogRevoked(a) \/ CallFails(a) PROVE NoFunding
  BY <1>0, <1>4, RestFacts DEF LogGranted, LogRevoked, CallFails
<1>5. ASSUME (\E g \in Grants : Expire(g)) \/ Night \/ NightFails \/ UNCHANGED vars PROVE NoFunding
  BY <1>5 DEF Expire, Night, ReadExpired, EndExpired, LogExpired, NightFails, ByNight, vars
<1>. QED
  BY <1>1, <1>2, <1>3, <1>4, <1>5 DEF Next, Fund, Give, Revoke

LEMMA FindFacts ==
    ASSUME TypeOK, NEW a \in Admins, FindPool(a)
    PROVE  /\ Same(a) /\ admin[a].step = "idle" /\ admin'[a].step = "fund"
           /\ admin'[a].pool = 0 => Len(pools) # 1 \/ missed'
           /\ UNCHANGED pools /\ funds' = funds + 1
           /\ missed => missed'
<1>1. PICK n \in Amounts, read \in BOOLEAN :
           /\ Begin(a, "fund", IF read /\ Len(pools) = 1 THEN 1 ELSE 0, NoGrant, n)
           /\ missed' = (missed \/ (~read /\ Len(pools) = 1))
  BY DEF FindPool
<1>2. missed \in BOOLEAN
  BY DEF TypeOK
<1>3. /\ Same(a) /\ admin[a].step = "idle" /\ admin'[a].step = "fund"
      /\ admin'[a].pool = IF read /\ Len(pools) = 1 THEN 1 ELSE 0
  BY <1>1 DEF TypeOK, Begin, Idle, Same
<1>4. (missed => missed') /\ (~read /\ Len(pools) = 1 => missed')
  BY <1>1, <1>2
<1>5. admin'[a].pool = 0 => Len(pools) # 1 \/ missed'
  BY <1>3, <1>4
<1>. QED  BY <1>3, <1>4, <1>5 DEF FindPool

LEMMA InsertFacts ==
    ASSUME TypeOK, NEW a \in Admins, InsertPool(a)
    PROVE  /\ Same(a) /\ admin[a].step = "fund" /\ admin[a].pool = 0 /\ admin'[a].step = "idle"
           /\ Len(pools') = Len(pools) + 1 /\ UNCHANGED <<funds, twice, missed>>
BY RestFacts, AppendProperties DEF TypeOK, Call, InsertPool, At, Others

LEMMA CountedStep == TypeOK /\ Counted /\ [Next]_vars => Counted'
<1> SUFFICES ASSUME TypeOK, Counted, [Next]_vars PROVE Counted'
  OBVIOUS
<1>0. /\ Len(pools) \in Nat /\ funds \in Nat
      /\ IsFiniteSet(Funding) /\ Cardinality(Funding) \in Nat
  BY PoolsType, FundingFinite, BoundsAssumption DEF TypeOK
<1>1. CASE NoFunding
  <2>1. Funding' \in SUBSET Funding
    BY <1>1 DEF NoFunding, Funding, At
  <2>2. Cardinality(Funding') <= Cardinality(Funding) /\ Cardinality(Funding') \in Nat
    BY <1>0, <2>1, FS_Subset, FS_CardinalityType
  <2>. QED  BY <1>0, <1>1, <2>2 DEF Counted, NoFunding
<1>2. ASSUME NEW a \in Admins, FindPool(a) PROVE Counted'
  <2>1. Funding' = Funding \union {a} /\ a \notin Funding
    BY <1>2, FindFacts DEF Funding, At, Same
  <2>2. Cardinality(Funding') = Cardinality(Funding) + 1
    BY <1>0, <2>1, FS_AddElement
  <2>. QED  BY <1>0, <1>2, <2>2, FindFacts DEF Counted
<1>3. ASSUME NEW a \in Admins, InsertPool(a) PROVE Counted'
  <2>1. Funding' = Funding \ {a} /\ a \in Funding
    BY <1>3, InsertFacts DEF Funding, At, Same
  <2>2. Cardinality(Funding') = Cardinality(Funding) - 1
    BY <1>0, <2>1, FS_RemoveElement
  <2>. QED  BY <1>0, <1>3, <2>2, InsertFacts DEF Counted
<1>. QED  BY <1>1, <1>2, <1>3, NoFundingStep

LEMMA AloneStep == TypeOK /\ Alone /\ [Next]_vars => Alone'
<1> SUFFICES ASSUME TypeOK, Alone, [Next]_vars PROVE Alone'
  OBVIOUS
<1>0. Len(pools) \in Nat /\ admin \in [Admins -> Call]
  BY PoolsType DEF TypeOK
<1>1. CASE NoFunding
  BY <1>1 DEF NoFunding, Alone, At
<1>2. ASSUME NEW a \in Admins, FindPool(a) PROVE Alone'
  <2>. SUFFICES ASSUME ~twice', ~missed'
                PROVE  /\ Len(pools') <= 1
                       /\ \A b, c \in Admins : At(b, "fund")' /\ At(c, "fund")' => b = c
                       /\ \A b \in Admins : At(b, "fund")' /\ admin'[b].pool = 0 => Len(pools') = 0
    BY DEF Alone
  <2>1. ~twice /\ ~missed /\ \A b \in Admins : ~At(b, "fund")
    BY <1>2, FindFacts DEF FindPool
  <2>2. Len(pools) <= 1
    BY <2>1 DEF Alone
  <2>3. /\ Same(a) /\ (admin'[a].pool = 0 => Len(pools) # 1) /\ pools' = pools
    BY <1>2, FindFacts
  <2>4. \A b \in Admins : At(b, "fund")' => b = a
    BY <2>1, <2>3 DEF At, Same
  <2>5. \A n \in Nat : n <= 1 /\ n # 1 => n = 0
    OBVIOUS
  <2>6. admin'[a].pool = 0 => Len(pools) = 0
    BY <1>0, <2>2, <2>3, <2>5
  <2>. QED  BY <2>2, <2>3, <2>4, <2>6
<1>3. ASSUME NEW a \in Admins, InsertPool(a) PROVE Alone'
  BY <1>0, <1>3, InsertFacts DEF Alone, At, Same
<1>. QED  BY <1>1, <1>2, <1>3, NoFundingStep

(* Steps that only end calls, beside what they write of balances and logs. *)
Quiet ==
    /\ Len(pools') \in Nat /\ Len(pools') >= Len(pools)
    /\ \A g \in Grants : grant'[g].state = grant[g].state /\ grant'[g].pool = grant[g].pool
    /\ \A g \in night'.ids : g \in Grants /\ grant[g].state # "none"
    /\ \A b \in Admins : admin'[b] = admin[b] \/ admin'[b].step = "idle"
    /\ crossed \subseteq crossed'

LEMMA QuietStep ==
    ASSUME TypeOK, Linked,
           \/ \E a \in Admins : \/ WritePool(a) \/ InsertPool(a) \/ LogGranted(a)
                                 \/ LogRevoked(a) \/ CallFails(a)
           \/ \E g \in Grants : Expire(g)
           \/ ReadExpired \/ LogExpired \/ NightFails \/ UNCHANGED vars
    PROVE  Quiet
<1>0. /\ admin \in [Admins -> Call] /\ pools \in Seq(Nat) /\ Len(pools) \in Nat
      /\ \A a \in Admins : admin[a].sum \in Nat
      /\ \A g \in night.ids : g \in Grants /\ grant[g].state # "none"
      /\ grant \in [Grants -> [state : {"none", "active", "inactive"}, pool : 0..MaxFunds,
                               cost : Nat, expired : BOOLEAN]]
  BY PoolsType DEF TypeOK, Call, Linked, PaidFrom
<1> USE <1>0 DEF Quiet, Others, ByNight, Same
<1>1. ASSUME NEW a \in Admins, WritePool(a) PROVE Quiet
  BY <1>1, RestFacts, WriteLength DEF WritePool, Cross
<1>2. ASSUME NEW a \in Admins, InsertPool(a) PROVE Quiet
  BY <1>2, RestFacts, AppendProperties DEF InsertPool
<1>3. ASSUME NEW a \in Admins, LogGranted(a) \/ LogRevoked(a) \/ CallFails(a) PROVE Quiet
  BY <1>3, RestFacts DEF LogGranted, LogRevoked, CallFails
<1>4. ASSUME NEW g \in Grants, Expire(g) PROVE Quiet
  BY <1>4 DEF Expire
<1>5. ASSUME ReadExpired \/ LogExpired \/ NightFails PROVE Quiet
  BY <1>5 DEF ReadExpired, LogExpired, NightFails, NoJob
<1>6. ASSUME UNCHANGED vars PROVE Quiet
  BY <1>6 DEF vars
<1>. QED  BY <1>1, <1>2, <1>3, <1>4, <1>5, <1>6

LEMMA LinkedStep == TypeOK /\ Linked /\ OneRestore /\ [Next]_vars => Linked' /\ OneRestore'
<1> SUFFICES ASSUME TypeOK, Linked, OneRestore, [Next]_vars PROVE Linked' /\ OneRestore'
  OBVIOUS
<1>0. /\ admin \in [Admins -> Call] /\ pools \in Seq(Nat) /\ Len(pools) \in Nat
      /\ DOMAIN pools = 1..Len(pools) /\ Len(pools) <= MaxFunds
      /\ grant \in [Grants -> [state : {"none", "active", "inactive"}, pool : 0..MaxFunds,
                               cost : Nat, expired : BOOLEAN]]
      /\ night \in [step : {"idle", "end", "log"}, ids : SUBSET Grants]
      /\ \A a \in Admins : admin[a] \in Call
  BY PoolsType DEF TypeOK
<1> USE DEF Linked, Works, OwnGrant, PaidFrom, OneRestore, Paying, Ending, At, Same, Others
<1>1. ASSUME Quiet PROVE Linked' /\ OneRestore'
  <2>1. \A b \in Admins : Works(b)'
    BY <1>0, <1>1 DEF Quiet, Call
  <2>2. OwnGrant' /\ PaidFrom'
    BY <1>0, <1>1 DEF Quiet
  <2>3. \A b \in Admins : At(b, "restore")' =>
              /\ admin'[b] = admin[b] /\ At(b, "restore") /\ admin[b].grant \in Grants
              /\ grant'[admin[b].grant].pool = grant[admin[b].grant].pool
    BY <1>1 DEF Quiet
  <2>4. OneRestore'
    BY <1>1, <2>3 DEF Quiet
  <2>. QED  BY <2>1, <2>2, <2>4
<1>2. ASSUME NEW a \in Admins, FindPool(a) PROVE Linked' /\ OneRestore'
  <2>1. PICK n \in Amounts, read \in BOOLEAN :
             Begin(a, "fund", IF read /\ Len(pools) = 1 THEN 1 ELSE 0, NoGrant, n)
    BY <1>2 DEF FindPool
  <2>2. /\ Same(a) /\ admin'[a].step = "fund" /\ admin'[a].pool <= Len(pools)
        /\ admin'[a].sum \in Amounts /\ UNCHANGED <<pools, grant, night, crossed>>
    BY <1>0, <1>2, <2>1 DEF Begin, FindPool
  <2>. QED  BY <2>2
<1>3. ASSUME NEW a \in Admins, CheckBalance(a) PROVE Linked' /\ OneRestore'
  <2>1. PICK g \in Grants, p \in DOMAIN pools, c \in Costs :
             /\ grant[g] = Unborn /\ ~Pending(g) /\ c <= pools[p]
             /\ Begin(a, "deduct", p, g, c)
    BY <1>3 DEF CheckBalance
  <2>2. /\ Same(a) /\ admin'[a].step = "deduct" /\ admin'[a].pool \in 1..Len(pools)
        /\ admin'[a].grant = g /\ admin'[a].sum <= admin'[a].seen
        /\ admin'[a].sum \in Costs /\ UNCHANGED <<pools, grant, night, crossed>>
    BY <1>0, <1>3, <2>1 DEF Begin, CheckBalance
  <2>3. grant[g].state = "none" /\ \A b \in Admins : Paying(b) => admin[b].grant # g
    BY <2>1 DEF Unborn, Pending
  <2>. QED  BY <2>2, <2>3
<1>4. ASSUME NEW a \in Admins, ReadGrant(a) PROVE Linked' /\ OneRestore'
  <2>1. PICK g \in Grants : grant[g].state = "active" /\ Begin(a, "revoke", 0, g, 0)
    BY <1>4 DEF ReadGrant
  <2>2. /\ Same(a) /\ admin'[a].step = "revoke" /\ admin'[a].grant = g
        /\ UNCHANGED <<pools, grant, night, crossed>>
    BY <1>0, <1>4, <2>1 DEF Begin, ReadGrant
  <2>. QED  BY <2>1, <2>2
<1>5. ASSUME NEW a \in Admins, Deduct(a) PROVE Linked' /\ OneRestore'
  <2>1. /\ Same(a) /\ Keeps(a) /\ admin[a].step = "deduct" /\ admin'[a].step = "insert"
        /\ Len(pools') = Len(pools) /\ UNCHANGED <<grant, night>> /\ crossed \subseteq crossed'
    BY <1>0, <1>5, GotoFacts, WriteLength DEF Deduct, Steps, Cross
  <2>. QED  BY <2>1 DEF Keeps
<1>6. ASSUME NEW a \in Admins, InsertGrant(a) PROVE Linked' /\ OneRestore'
  <2>1. /\ Same(a) /\ Keeps(a) /\ admin[a].step = "insert" /\ admin'[a].step = "granted"
        /\ UNCHANGED <<pools, night, crossed>> /\ admin[a].grant \in Grants
        /\ admin[a].pool \in 1..Len(pools) /\ grant[admin[a].grant].state = "none"
    BY <1>0, <1>6, GotoFacts DEF InsertGrant, Steps
  <2>2. /\ grant'[admin[a].grant].state = "active"
        /\ grant'[admin[a].grant].pool = admin[a].pool
        /\ \A g \in Grants : g # admin[a].grant => grant'[g] = grant[g]
    BY <1>0, <1>6, <2>1 DEF InsertGrant
  <2>3. \A b \in Admins : Works(b)'
    BY <2>1, <2>2 DEF Keeps
  <2>4. OwnGrant' /\ OneRestore'
    BY <2>1, <2>2 DEF Keeps
  <2>5. PaidFrom'
    BY <1>0, <2>1, <2>2
  <2>. QED  BY <2>3, <2>4, <2>5
<1>7. ASSUME NEW a \in Admins, Deactivate(a) PROVE Linked' /\ OneRestore'
  <2>1. /\ Same(a) /\ Keeps(a) /\ admin[a].step = "revoke" /\ admin'[a].step = "restore"
        /\ UNCHANGED <<pools, night>> /\ admin[a].grant \in Grants
    BY <1>0, <1>7, GotoFacts DEF Deactivate, Steps
  <2>2. /\ grant'[admin[a].grant].state = "inactive"
        /\ \A g \in Grants : grant'[g].pool = grant[g].pool
        /\ \A g \in Grants : g # admin[a].grant => grant'[g] = grant[g]
    BY <1>0, <1>7, <2>1 DEF Deactivate
  <2>3. /\ crossed \subseteq crossed'
        /\ grant[admin[a].grant].state = "inactive" => grant[admin[a].grant].pool \in crossed'
    BY <1>7 DEF Deactivate
  <2>4. grant[admin[a].grant].state # "none"
    BY <2>1
  <2>5. \A b \in Admins : Works(b)'
    BY <2>1, <2>2, <2>4 DEF Keeps
  <2>6. OwnGrant'
    BY <2>1
  <2>7. PaidFrom'
    <3>1. \A g \in Grants : grant'[g].state # "none" => grant[g].state # "none"
      BY <2>2, <2>4
    <3>2. \A g \in Grants : grant[g].state # "none" => grant'[g].state # "none"
      BY <2>2, <2>4
    <3>. QED  BY <1>0, <2>1, <2>2, <3>1, <3>2
  <2>8. OneRestore'
    BY <2>1, <2>2, <2>3 DEF Keeps
  <2>. QED  BY <2>5, <2>6, <2>7, <2>8
<1>8. ASSUME NEW a \in Admins, Restore(a) \/ RestoreFails(a) PROVE Linked' /\ OneRestore'
  <2>1. /\ Same(a) /\ Keeps(a) /\ admin[a].step = "restore" /\ admin'[a].step = "revoked"
        /\ Len(pools') = Len(pools) /\ UNCHANGED <<grant, night, crossed>>
    BY <1>0, <1>8, GotoFacts, WriteLength DEF Restore, RestoreFails, Steps
  <2>. QED  BY <2>1 DEF Keeps
<1>9. ASSUME EndExpired PROVE Linked' /\ OneRestore'
  <2>1. UNCHANGED <<admin, pools, crossed>> /\ night'.ids = night.ids
    BY <1>0, <1>9 DEF EndExpired, ByNight
  <2>2. ASSUME NEW g \in Grants
        PROVE  /\ grant'[g].pool = grant[g].pool
               /\ \/ grant'[g].state = grant[g].state
                  \/ g \in night.ids /\ grant'[g].state = "inactive"
    <3>1. grant[g] \in [state : {"none", "active", "inactive"}, pool : 0..MaxFunds,
                        cost : Nat, expired : BOOLEAN]
      BY <1>0
    <3>2. grant'[g] = IF g \in night.ids THEN [grant[g] EXCEPT !.state = "inactive"] ELSE grant[g]
      BY <1>9 DEF EndExpired
    <3>. QED  BY <3>1, <3>2
  <2>3. \A b \in Admins : Works(b)'
    BY <2>1, <2>2
  <2>4. OwnGrant' /\ OneRestore'
    BY <2>1, <2>2
  <2>5. PaidFrom'
    BY <1>0, <2>1, <2>2
  <2>. QED  BY <2>3, <2>4, <2>5
<1>. QED
  BY <1>1, <1>2, <1>3, <1>4, <1>5, <1>6, <1>7, <1>8, <1>9, QuietStep
  DEF Next, Fund, Give, Revoke, Night

-----------------------------------------------------------------------------
(* Steps after which no grant is nearer to a second ending. *)
Idling ==
    /\ raced \subseteq raced'
    /\ \A g \in Grants : /\ Revoked(g)' => Revoked(g)
                         /\ Expired(g)' => Expired(g)
                         /\ Nearing(g)' => Nearing(g)
                         /\ grant[g].state = "inactive" => grant'[g].state = "inactive"

LEMMA EndedStep == TypeOK /\ Linked /\ Ended /\ [Next]_vars => Ended'
<1> SUFFICES ASSUME TypeOK, Linked, Ended, [Next]_vars PROVE Ended'
  OBVIOUS
<1>0. /\ admin \in [Admins -> Call]
      /\ grant \in [Grants -> [state : {"none", "active", "inactive"}, pool : 0..MaxFunds,
                               cost : Nat, expired : BOOLEAN]]
      /\ events \in [Grants -> SUBSET {"GRANTED", "MANUAL_REVOKE", "EXPIRED"}]
      /\ night \in [step : {"idle", "end", "log"}, ids : SUBSET Grants]
      /\ \A a \in Admins : Works(a)
  BY DEF TypeOK, Linked
<1> USE DEF Others, ByNight, At, Same, Ending
<1>1. ASSUME Idling PROVE Ended'
  <2>. SUFFICES ASSUME NEW g \in Grants
                PROVE  /\ Revoked(g)' \/ Expired(g)' => grant'[g].state = "inactive"
                       /\ Revoked(g)' /\ (Expired(g)' \/ Nearing(g)') => g \in raced'
    BY DEF Ended
  <2>1. /\ Revoked(g)' => Revoked(g)
        /\ Expired(g)' => Expired(g)
        /\ Nearing(g)' => Nearing(g)
        /\ grant[g].state = "inactive" => grant'[g].state = "inactive"
        /\ g \in raced => g \in raced'
    BY <1>1 DEF Idling
  <2>2. /\ Revoked(g) \/ Expired(g) => grant[g].state = "inactive"
        /\ Revoked(g) /\ (Expired(g) \/ Nearing(g)) => g \in raced
    BY DEF Ended
  <2>. QED  BY <2>1, <2>2
<1>2. ASSUME UNCHANGED <<events, night, raced>>,
             \A b \in Admins : Ending(b)' => Ending(b) /\ admin'[b].grant = admin[b].grant,
             \A g \in Grants : grant[g].state = "inactive" => grant'[g].state = "inactive"
      PROVE  Idling
  BY <1>2 DEF Idling, Revoked, Expired, Nearing
<1>3. ASSUME NEW a \in Admins, FindPool(a) \/ CheckBalance(a) \/ ReadGrant(a) PROVE Idling
  <2>1. PICK step \in {"fund", "deduct", "revoke"} : Same(a) /\ admin'[a].step = step
    BY <1>0, <1>3 DEF FindPool, CheckBalance, ReadGrant, Begin
  <2>2. UNCHANGED <<events, night, raced, grant>>
    BY <1>3 DEF FindPool, CheckBalance, ReadGrant
  <2>. QED  BY <1>2, <2>1, <2>2
<1>4. ASSUME NEW a \in Admins, WritePool(a) \/ InsertPool(a) \/ CallFails(a) PROVE Idling
  BY <1>0, <1>2, <1>4, RestFacts DEF WritePool, InsertPool, CallFails
<1>5. ASSUME NEW a \in Admins, Deduct(a) PROVE Idling
  BY <1>0, <1>2, <1>5, GotoFacts DEF Deduct, Steps
<1>6. ASSUME NEW a \in Admins, InsertGrant(a) PROVE Idling
  <2>1. Same(a) /\ admin'[a].step = "granted" /\ grant[admin[a].grant].state = "none"
    BY <1>0, <1>6, GotoFacts DEF InsertGrant, Steps, Works, Paying
  <2>2. \A g \in Grants : g # admin[a].grant => grant'[g] = grant[g]
    BY <1>0, <1>6 DEF InsertGrant
  <2>. QED  BY <1>2, <1>6, <2>1, <2>2 DEF InsertGrant
<1>7. ASSUME NEW a \in Admins, LogGranted(a) PROVE Idling
  <2>1. Same(a) /\ admin'[a].step = "idle" /\ UNCHANGED <<grant, night, raced>>
    BY <1>0, <1>7, RestFacts DEF LogGranted
  <2>2. \A g \in Grants : events'[g] \subseteq events[g] \union {"GRANTED"}
    BY <1>0, <1>7 DEF LogGranted, Log
  <2>. QED  BY <2>1, <2>2 DEF Idling, Revoked, Expired, Nearing
<1>8. ASSUME NEW a \in Admins, LogRevoked(a) PROVE Idling
  <2>1. /\ Same(a) /\ admin[a].step = "revoked" /\ admin'[a].step = "idle"
        /\ UNCHANGED <<grant, night, raced>>
    BY <1>0, <1>8, RestFacts DEF LogRevoked
  <2>2. \A g \in Grants : \/ events'[g] = events[g]
                          \/ /\ g = admin[a].grant
                             /\ events'[g] = events[g] \union {"MANUAL_REVOKE"}
    BY <1>0, <1>8 DEF LogRevoked, Log
  <2>. QED  BY <2>1, <2>2 DEF Idling, Revoked, Expired, Nearing
<1>9. ASSUME NEW a \in Admins, Restore(a) \/ RestoreFails(a) PROVE Idling
  <2>1. /\ Same(a) /\ Keeps(a) /\ admin[a].step = "restore"
    BY <1>0, <1>9, GotoFacts DEF Restore, RestoreFails, Steps
  <2>2. UNCHANGED <<events, night, raced, grant>>
    BY <1>9 DEF Restore, RestoreFails
  <2>. QED  BY <1>2, <2>1, <2>2 DEF Keeps
<1>10. ASSUME NEW a \in Admins, Deactivate(a) PROVE Ended'
  <2> DEFINE g == admin[a].grant
  <2>1. /\ Same(a) /\ Keeps(a) /\ admin[a].step = "revoke" /\ g \in Grants
        /\ UNCHANGED <<events, night>>
    BY <1>0, <1>10, GotoFacts DEF Deactivate, Steps, Works
  <2>2. /\ raced \subseteq raced'
        /\ grant[g].state = "inactive" \/ Nearing(g) => g \in raced'
    BY <1>10 DEF Deactivate, Nearing
  <2>3. \A x \in Grants : grant'[x].state = IF x = g THEN "inactive" ELSE grant[x].state
    BY <1>0, <1>10, <2>1 DEF Deactivate
  <2>4. \A x \in Grants : x # g /\ Revoked(x)' => Revoked(x)
    BY <2>1 DEF Revoked, Keeps
  <2>5. \A x \in Grants : (Expired(x)' <=> Expired(x)) /\ (Nearing(x)' <=> Nearing(x))
    BY <2>1 DEF Expired, Nearing
  <2>. QED  BY <2>1, <2>2, <2>3, <2>4, <2>5 DEF Ended, Nearing
<1>11. ASSUME NEW h \in Grants, Expire(h) PROVE Idling
  BY <1>0, <1>2, <1>11 DEF Expire
<1>12. ASSUME ReadExpired PROVE Ended'
  <2>1. /\ UNCHANGED <<grant, events, raced, admin>> /\ night'.step = "end"
        /\ \A g \in night'.ids : g \in Grants /\ grant[g].state = "active"
    BY <1>12 DEF ReadExpired
  <2>2. ASSUME NEW g \in Grants
        PROVE  /\ Revoked(g)' => Revoked(g)
               /\ Expired(g)' => Expired(g)
               /\ Nearing(g)' => grant[g].state = "active"
    BY <2>1 DEF Revoked, Expired, Nearing
  <2>3. ASSUME NEW g \in Grants
        PROVE  /\ Revoked(g)' \/ Expired(g)' => grant'[g].state = "inactive"
               /\ Revoked(g)' /\ (Expired(g)' \/ Nearing(g)') => g \in raced'
    <3>1. /\ Revoked(g) \/ Expired(g) => grant[g].state = "inactive"
          /\ Revoked(g) /\ Expired(g) => g \in raced
      BY DEF Ended
    <3>. QED  BY <2>1, <2>2, <3>1
  <2>. QED  BY <2>3 DEF Ended
<1>13. ASSUME EndExpired PROVE Ended'
  <2>1. /\ UNCHANGED <<events, raced, admin>> /\ night.step = "end" /\ night'.step = "log"
        /\ night'.ids = night.ids
    BY <1>0, <1>13 DEF EndExpired
  <2>2. ASSUME NEW g \in Grants
        PROVE  grant'[g].state = IF g \in night.ids THEN "inactive" ELSE grant[g].state
    <3>1. grant[g] \in [state : {"none", "active", "inactive"}, pool : 0..MaxFunds,
                        cost : Nat, expired : BOOLEAN]
      BY <1>0
    <3>2. grant'[g] = IF g \in night.ids THEN [grant[g] EXCEPT !.state = "inactive"] ELSE grant[g]
      BY <1>13 DEF EndExpired
    <3>. QED  BY <3>1, <3>2
  <2>3. ASSUME NEW g \in Grants
        PROVE  /\ Revoked(g)' => Revoked(g)
               /\ Expired(g)' => Expired(g) \/ Nearing(g)
               /\ ~Nearing(g)'
               /\ g \in night.ids <=> Nearing(g)
    BY <2>1 DEF Revoked, Expired, Nearing
  <2>4. ASSUME NEW g \in Grants
        PROVE  /\ Revoked(g)' \/ Expired(g)' => grant'[g].state = "inactive"
               /\ Revoked(g)' /\ (Expired(g)' \/ Nearing(g)') => g \in raced'
    <3>1. /\ Revoked(g) \/ Expired(g) => grant[g].state = "inactive"
          /\ Revoked(g) /\ (Expired(g) \/ Nearing(g)) => g \in raced
      BY DEF Ended
    <3>. QED  BY <2>1, <2>2, <2>3, <3>1
  <2>. QED  BY <2>4 DEF Ended
<1>14. ASSUME LogExpired PROVE Idling
  <2>1. /\ UNCHANGED <<grant, raced, admin>> /\ night.step = "log" /\ night'.step = "idle"
    BY <1>14 DEF LogExpired, NoJob
  <2>2. \A g \in Grants : \/ events'[g] = events[g]
                          \/ g \in night.ids /\ events'[g] = events[g] \union {"EXPIRED"}
    BY <1>14 DEF LogExpired
  <2>. QED  BY <2>1, <2>2 DEF Idling, Revoked, Expired, Nearing
<1>15. ASSUME NightFails PROVE Idling
  BY <1>15 DEF NightFails, NoJob, Idling, Revoked, Expired, Nearing
<1>16. ASSUME UNCHANGED vars PROVE Idling
  BY <1>16 DEF vars, Idling, Revoked, Expired, Nearing
<1>. QED
  BY <1>1, <1>3, <1>4, <1>5, <1>6, <1>7, <1>8, <1>9, <1>10, <1>11, <1>12, <1>13, <1>14, <1>15, <1>16
  DEF Next, Fund, Give, Revoke, Night

-----------------------------------------------------------------------------
LEMMA InitIInv == Init => IInv
<1> SUFFICES ASSUME Init PROVE IInv
  OBVIOUS
<1>1. /\ Len(pools) = 0 /\ Len(pools) <= MaxFunds /\ pools \in Seq(Nat)
      /\ \A a \in Admins : admin[a].step = "idle"
      /\ \A g \in Grants : grant[g].state = "none" /\ events[g] = {}
      /\ night.ids = {} /\ night.step = "idle"
  BY EmptySeq, BoundsAssumption DEF Init, Idle, Unborn, NoJob
<1>2. TypeOK
  <2>1. Idle \in Call
    BY BoundsAssumption DEF Idle, Call
  <2>2. 0 \in 0..MaxFunds /\ 0 \in 0..MaxFailures
    BY BoundsAssumption
  <2>. QED  BY <1>1, <2>1, <2>2 DEF Init, TypeOK, Unborn, NoJob
<1>3. Counted
  <2>1. Funding = {}
    BY <1>1 DEF Funding, At
  <2>. QED  BY <1>1, <2>1, FS_EmptySet DEF Counted, Init
<1>4. Linked /\ OneRestore /\ Alone
  BY <1>1 DEF Linked, Works, OwnGrant, PaidFrom, OneRestore, Alone, Paying, Ending, At
<1>5. Ended
  BY <1>1 DEF Ended, Revoked, Expired, Ending
<1>. QED  BY <1>2, <1>3, <1>4, <1>5 DEF IInv

LEMMA NextIInv == IInv /\ [Next]_vars => IInv'
BY TypeStep, CountedStep, LinkedStep, AloneStep, EndedStep DEF IInv

THEOREM SpecIInv == Spec => []IInv
BY InitIInv, NextIInv, PTL DEF Spec

(* Every value has its type, and a month has a second pool only if two      *)
(* calculations ran at the same time.                                       *)
THEOREM SpecLedgerInv == Spec => []LedgerInv
<1>1. IInv => LedgerInv
  BY PoolsType DEF IInv, LedgerInv, OnePool, Alone
<1>. QED  BY <1>1, SpecIInv, PTL

(* A grant is both revoked and expired only if the two calls crossed.       *)
THEOREM SpecEndsOnce == Spec => []EndsOnce
<1>1. IInv => EndsOnce
  BY DEF IInv, EndsOnce, Ended, Revoked, Expired
<1>. QED  BY <1>1, SpecIInv, PTL

-----------------------------------------------------------------------------
(* What a grant holds of a pool, by who is working on it. *)
Inserting(a, g, p) == At(a, "insert") /\ admin[a].grant = g /\ admin[a].pool = p
InForce(g) == grant[g].state = "active" \/ \E a \in Admins : At(a, "restore") /\ admin[a].grant = g
HeldRight ==
    \A g \in Grants, p \in PoolIds :
       /\ \A a \in Admins : Inserting(a, g, p) => Held(g, p) = admin[a].sum
       /\ (\A a \in Admins : ~Inserting(a, g, p)) =>
              Held(g, p) = IF InForce(g) /\ grant[g].pool = p THEN grant[g].cost ELSE 0

LEMMA HeldFacts == OwnGrant => HeldRight
<1> SUFFICES ASSUME OwnGrant, NEW g \in Grants, NEW p \in PoolIds
             PROVE  /\ \A a \in Admins : Inserting(a, g, p) => Held(g, p) = admin[a].sum
                    /\ (\A a \in Admins : ~Inserting(a, g, p)) =>
                          Held(g, p) = IF InForce(g) /\ grant[g].pool = p THEN grant[g].cost ELSE 0
  BY DEF HeldRight
<1> DEFINE paid == {admin[a].sum : a \in {b \in Admins : /\ At(b, "insert") /\ admin[b].grant = g
                                                         /\ admin[b].pool = p}}
<1>1. Held(g, p) = CASE paid # {} -> CHOOSE n \in paid : TRUE
                     [] paid = {} /\ InForce(g) /\ grant[g].pool = p -> grant[g].cost
                     [] OTHER -> 0
  BY DEF Held, InForce
<1>2. ASSUME NEW a \in Admins, Inserting(a, g, p) PROVE Held(g, p) = admin[a].sum
  <2>1. paid = {admin[a].sum}
    BY <1>2 DEF Inserting, OwnGrant, Paying, At
  <2>2. (CHOOSE n \in {admin[a].sum} : TRUE) = admin[a].sum
    OBVIOUS
  <2>. QED  BY <1>1, <2>1, <2>2
<1>3. (\A a \in Admins : ~Inserting(a, g, p)) => paid = {}
  BY DEF Inserting
<1>. QED  BY <1>1, <1>2, <1>3

LEMMA HeldFactsNext == OwnGrant' => HeldRight'
BY HeldFacts, PTL

(* What a step may do to a pool, in the terms of this module.               *)
HeldSame(p) == \A g \in Grants : Held(g, p)' = Held(g, p)
HeldLost(p) == \A g \in Grants : Held(g, p)' \in {0, Held(g, p)}
PoolMove(p) ==
    \/ Remaining(p)' - Remaining(p) \in Amounts /\ HeldSame(p)
    \/ Remaining(p)' = Remaining(p) /\ HeldLost(p)
    \/ \E g \in Grants, n \in 1..Remaining(p) :
          /\ Held(g, p) = 0 /\ Held(g, p)' = n /\ Remaining(p)' = Remaining(p) - n
          /\ \A h \in Grants : h # g => Held(h, p)' = Held(h, p)
    \/ \E g \in Grants :
          /\ Held(g, p)' = 0 /\ Remaining(p)' = Remaining(p) + Held(g, p)
          /\ \A h \in Grants : h # g => Held(h, p)' = Held(h, p)

LEMMA MoveIsPoolStep ==
    ASSUME crossed \subseteq crossed', \A p \in PoolIds : Remaining(p)' >= 0,
           \A p \in PoolIds : p \in crossed' \/ PoolMove(p)
    PROVE  Pool!PoolStep
<1>1. /\ \A p \in PoolIds : Balance[p] = Remaining(p) /\ Balance'[p] = Remaining(p)'
      /\ \A p \in PoolIds : /\ HeldFrom[p] = [g \in Grants |-> Held(g, p)]
                            /\ HeldFrom'[p] = [g \in Grants |-> Held(g, p)']
  BY DEF Balance, HeldFrom
<1>2. ASSUME NEW p \in PoolIds, PoolMove(p)
      PROVE  Pool!Fund(p) \/ Pool!Keep(p) \/ \E g \in Grants : Pool!Take(p, g) \/ Pool!Return(p, g)
  <2>1. CASE Remaining(p)' - Remaining(p) \in Amounts /\ HeldSame(p)
    BY <1>1, <2>1 DEF Pool!Fund, HeldSame
  <2>2. CASE Remaining(p)' = Remaining(p) /\ HeldLost(p)
    BY <1>1, <2>2 DEF Pool!Keep, HeldLost
  <2>3. ASSUME NEW g \in Grants, NEW n \in 1..Remaining(p),
               Held(g, p) = 0, Held(g, p)' = n, Remaining(p)' = Remaining(p) - n,
               \A h \in Grants : h # g => Held(h, p)' = Held(h, p)
        PROVE  Pool!Take(p, g)
    <3>1. [h \in Grants |-> Held(h, p)'] = [[h \in Grants |-> Held(h, p)] EXCEPT ![g] = n]
      BY <2>3
    <3>2. HeldFrom'[p] = [HeldFrom[p] EXCEPT ![g] = n]
      BY <1>1, <3>1
    <3>3. Balance[p] = Remaining(p) /\ Balance'[p] = Remaining(p)' /\ HeldFrom[p][g] = Held(g, p)
      BY <1>1
    <3>. QED  BY <2>3, <3>2, <3>3 DEF Pool!Take
  <2>4. ASSUME NEW g \in Grants,
               Held(g, p)' = 0, Remaining(p)' = Remaining(p) + Held(g, p),
               \A h \in Grants : h # g => Held(h, p)' = Held(h, p)
        PROVE  Pool!Return(p, g)
    <3>1. [h \in Grants |-> Held(h, p)'] = [[h \in Grants |-> Held(h, p)] EXCEPT ![g] = 0]
      BY <2>4
    <3>2. HeldFrom'[p] = [HeldFrom[p] EXCEPT ![g] = 0]
      BY <1>1, <3>1
    <3>3. Balance[p] = Remaining(p) /\ Balance'[p] = Remaining(p)' /\ HeldFrom[p][g] = Held(g, p)
      BY <1>1
    <3>. QED  BY <2>4, <3>2, <3>3 DEF Pool!Return
  <2>. QED  BY <1>2, <2>1, <2>2, <2>3, <2>4 DEF PoolMove
<1>. QED  BY <1>1, <1>2 DEF Pool!PoolStep

(* Steps that leave the balances alone. *)
LEMMA KeepsBalances == UNCHANGED pools => \A p : Remaining(p)' = Remaining(p)
BY DEF Remaining

(* A grant that nothing happens to holds what it did. *)
LEMMA HeldOther ==
    ASSUME HeldRight, HeldRight', NEW g \in Grants, NEW p \in PoolIds,
           \A b \in Admins : Inserting(b, g, p)' <=> Inserting(b, g, p),
           \A b \in Admins : Inserting(b, g, p) => admin'[b].sum = admin[b].sum,
           InForce(g)' <=> InForce(g),
           grant'[g].pool = grant[g].pool, grant'[g].cost = grant[g].cost
    PROVE  Held(g, p)' = Held(g, p)
<1>1. CASE \E a \in Admins : Inserting(a, g, p)
  <2>1. PICK a \in Admins : Inserting(a, g, p)
    BY <1>1
  <2>2. Inserting(a, g, p)' /\ admin'[a].sum = admin[a].sum
    BY <2>1
  <2>3. Held(g, p) = admin[a].sum
    BY <2>1 DEF HeldRight
  <2>4. Held(g, p)' = admin'[a].sum
    BY <2>2 DEF HeldRight
  <2>. QED  BY <2>2, <2>3, <2>4
<1>2. CASE \A a \in Admins : ~Inserting(a, g, p)
  <2>1. \A a \in Admins : ~Inserting(a, g, p)'
    BY <1>2
  <2>2. Held(g, p) = IF InForce(g) /\ grant[g].pool = p THEN grant[g].cost ELSE 0
    BY <1>2 DEF HeldRight
  <2>3. Held(g, p)' = IF InForce(g)' /\ grant'[g].pool = p THEN grant'[g].cost ELSE 0
    BY <2>1 DEF HeldRight
  <2>. QED  BY <2>2, <2>3
<1>. QED  BY <1>1, <1>2

(* Calls under way are the same, or none of those that make a grant hold. *)
LEMMA HeldIsSame ==
    ASSUME OwnGrant, OwnGrant',
           \A b \in Admins : \/ admin'[b] = admin[b]
                            \/ /\ admin[b].step \notin {"insert", "restore"}
                               /\ admin'[b].step \notin {"insert", "restore"},
           \A g \in Grants : /\ grant'[g].state = grant[g].state
                            /\ grant'[g].pool = grant[g].pool /\ grant'[g].cost = grant[g].cost,
           NEW p \in PoolIds
    PROVE  HeldSame(p)
<1> SUFFICES ASSUME NEW g \in Grants PROVE Held(g, p)' = Held(g, p)
  BY DEF HeldSame
<1>1. HeldRight /\ HeldRight'
  BY HeldFacts, HeldFactsNext
<1>2. \A a \in Admins : /\ Inserting(a, g, p)' <=> Inserting(a, g, p)
                        /\ Inserting(a, g, p) => admin'[a].sum = admin[a].sum
  BY DEF Inserting, At
<1>3. InForce(g)' <=> InForce(g)
  BY DEF InForce, At
<1>. QED  BY <1>1, <1>2, <1>3, HeldOther

(* Some calls that make a grant hold end, or some grants do. *)
LEMMA HeldIsLost ==
    ASSUME Linked, OwnGrant',
           \A b \in Admins : \/ admin'[b] = admin[b]
                            \/ admin'[b].step \notin {"insert", "restore"},
           \A g \in Grants : /\ grant'[g].state = "active" => grant[g].state = "active"
                            /\ grant'[g].pool = grant[g].pool /\ grant'[g].cost = grant[g].cost,
           NEW p \in PoolIds
    PROVE  HeldLost(p)
<1> SUFFICES ASSUME NEW g \in Grants PROVE Held(g, p)' \in {0, Held(g, p)}
  BY DEF HeldLost
<1>1. HeldRight /\ HeldRight' /\ \A a \in Admins : Works(a)
  BY HeldFacts, HeldFactsNext DEF Linked
<1>2. \A a \in Admins : Inserting(a, g, p)' => Inserting(a, g, p) /\ admin'[a].sum = admin[a].sum
  BY DEF Inserting, At
<1>3. InForce(g)' => InForce(g)
  BY DEF InForce, At
<1>4. InForce(g) => \A a \in Admins : ~Inserting(a, g, p)
  BY <1>1 DEF InForce, Inserting, Works, Paying, Ending, At
<1>5. CASE \E a \in Admins : Inserting(a, g, p)'
  BY <1>1, <1>2, <1>5 DEF HeldRight
<1>6. CASE \A a \in Admins : ~Inserting(a, g, p)'
  <2>1. Held(g, p)' = IF InForce(g)' /\ grant'[g].pool = p THEN grant'[g].cost ELSE 0
    BY <1>1, <1>6 DEF HeldRight
  <2>2. InForce(g) => Held(g, p) = IF grant[g].pool = p THEN grant[g].cost ELSE 0
    BY <1>1, <1>4 DEF HeldRight
  <2>. QED  BY <1>3, <2>1, <2>2
<1>. QED  BY <1>5, <1>6

Balanced == \A p \in PoolIds : Remaining(p) \in Nat

LEMMA RemainingType == TypeOK => Balanced
BY PoolsType DEF Remaining, Balanced

LEMMA RemainingTypeNext == TypeOK' => Balanced'
BY RemainingType, PTL

LEMMA CrossedStep == [Next]_vars => crossed \subseteq crossed'
<1>1. ASSUME NEW a \in Admins, WritePool(a) \/ Deduct(a) \/ Deactivate(a)
      PROVE  crossed \subseteq crossed'
  BY <1>1 DEF WritePool, Deduct, Deactivate, Cross
<1>2. ASSUME NEW a \in Admins, FindPool(a) \/ InsertPool(a) \/ CheckBalance(a) \/ InsertGrant(a)
                                \/ LogGranted(a)
      PROVE  crossed \subseteq crossed'
  BY <1>2 DEF FindPool, InsertPool, CheckBalance, InsertGrant, LogGranted
<1>3. ASSUME NEW a \in Admins, ReadGrant(a) \/ Restore(a) \/ RestoreFails(a) \/ LogRevoked(a)
                                \/ CallFails(a)
      PROVE  crossed \subseteq crossed'
  BY <1>3 DEF ReadGrant, Restore, RestoreFails, LogRevoked, CallFails
<1>4. ASSUME (\E g \in Grants : Expire(g)) \/ Night \/ NightFails \/ UNCHANGED vars
      PROVE  crossed \subseteq crossed'
  BY <1>4 DEF Expire, Night, ReadExpired, EndExpired, LogExpired, NightFails, ByNight, vars
<1>. QED  BY <1>1, <1>2, <1>3, <1>4 DEF Next, Fund, Give, Revoke

LEMMA RefineStep ==
    ASSUME IInv, IInv', [Next]_vars, NEW p \in PoolIds, p \notin crossed'
    PROVE  PoolMove(p)
<1>0. /\ TypeOK /\ Linked /\ OneRestore /\ OwnGrant /\ OwnGrant' /\ HeldRight /\ HeldRight'
      /\ admin \in [Admins -> Call] /\ pools \in Seq(Nat) /\ Len(pools) \in Nat
      /\ DOMAIN pools = 1..Len(pools) /\ \A q \in 1..Len(pools) : pools[q] \in Nat
      /\ grant \in [Grants -> [state : {"none", "active", "inactive"}, pool : 0..MaxFunds,
                               cost : Nat, expired : BOOLEAN]]
      /\ Remaining(p) \in Nat /\ \A a \in Admins : Works(a) /\ admin[a].sum \in Nat
  BY PoolsType, RemainingType, HeldFacts, HeldFactsNext DEF IInv, Linked, TypeOK, Call, Balanced
<1> USE DEF At, Same, Others, ByNight
(* The balance stays, and what is held of it, but for what is lost. *)
<1>1. ASSUME Remaining(p)' = Remaining(p), HeldSame(p) \/ HeldLost(p) PROVE PoolMove(p)
  BY <1>1 DEF PoolMove, HeldSame, HeldLost
<1>2. ASSUME UNCHANGED <<pools, grant>>,
             \A b \in Admins : \/ admin'[b] = admin[b]
                              \/ /\ admin[b].step \notin {"insert", "restore"}
                                 /\ admin'[b].step \notin {"insert", "restore"}
      PROVE  PoolMove(p)
  BY <1>0, <1>1, <1>2, KeepsBalances, HeldIsSame
<1>3. ASSUME UNCHANGED <<pools, grant>>,
             \A b \in Admins : \/ admin'[b] = admin[b]
                              \/ admin'[b].step \notin {"insert", "restore"}
      PROVE  PoolMove(p)
  BY <1>0, <1>1, <1>3, KeepsBalances, HeldIsLost
<1>4. ASSUME NEW a \in Admins, FindPool(a) \/ CheckBalance(a) \/ ReadGrant(a) PROVE PoolMove(p)
  <2>1. PICK step \in {"fund", "deduct", "revoke"} :
             Same(a) /\ admin[a].step = "idle" /\ admin'[a].step = step
    BY <1>0, <1>4 DEF FindPool, CheckBalance, ReadGrant, Begin, Idle
  <2>2. UNCHANGED <<pools, grant>>
    BY <1>4 DEF FindPool, CheckBalance, ReadGrant
  <2>. QED  BY <1>2, <2>1, <2>2
<1>5. ASSUME NEW a \in Admins, LogGranted(a) \/ LogRevoked(a) \/ CallFails(a) PROVE PoolMove(p)
  BY <1>0, <1>3, <1>5, RestFacts DEF LogGranted, LogRevoked, CallFails
<1>6. ASSUME NEW a \in Admins, RestoreFails(a) PROVE PoolMove(p)
  BY <1>0, <1>3, <1>6, GotoFacts DEF RestoreFails, Steps
<1>7. ASSUME ReadExpired \/ LogExpired \/ NightFails \/ UNCHANGED vars PROVE PoolMove(p)
  BY <1>2, <1>7 DEF ReadExpired, LogExpired, NightFails, vars
<1>8. ASSUME NEW g \in Grants, Expire(g) PROVE PoolMove(p)
  <2>1. \A h \in Grants : /\ grant'[h].state = grant[h].state /\ grant'[h].pool = grant[h].pool
                          /\ grant'[h].cost = grant[h].cost
    BY <1>0, <1>8 DEF Expire
  <2>2. UNCHANGED <<pools, admin>>
    BY <1>8 DEF Expire
  <2>. QED  BY <1>0, <1>1, <2>1, <2>2, KeepsBalances, HeldIsSame
<1>9. ASSUME EndExpired PROVE PoolMove(p)
  <2>1. ASSUME NEW g \in Grants
        PROVE  /\ grant'[g].pool = grant[g].pool /\ grant'[g].cost = grant[g].cost
               /\ grant'[g].state = "active" => grant[g].state = "active"
    <3>1. grant[g] \in [state : {"none", "active", "inactive"}, pool : 0..MaxFunds,
                        cost : Nat, expired : BOOLEAN]
      BY <1>0
    <3>2. grant'[g] = IF g \in night.ids THEN [grant[g] EXCEPT !.state = "inactive"] ELSE grant[g]
      BY <1>9 DEF EndExpired
    <3>. QED  BY <3>1, <3>2
  <2>2. UNCHANGED <<pools, admin>>
    BY <1>9 DEF EndExpired
  <2>. QED  BY <1>0, <1>1, <2>1, <2>2, KeepsBalances, HeldIsLost
(* A calculation adds its amount to the balance it has read, or a pool. *)
<1>10. ASSUME NEW a \in Admins, WritePool(a) PROVE PoolMove(p)
  <2>1. /\ Same(a) /\ admin[a].step = "fund" /\ admin'[a].step = "idle" /\ UNCHANGED grant
    BY <1>0, <1>10, RestFacts DEF WritePool
  <2>2. HeldSame(p)
    BY <1>0, <2>1, HeldIsSame
  <2>3. admin[a].pool \in 1..Len(pools) /\ admin[a].sum \in Amounts
    BY <1>0, <1>10, <2>1 DEF WritePool, Works, Call
  <2>4. Len(pools') = Len(pools) /\ DOMAIN pools' = 1..Len(pools)
        /\ \A q \in 1..Len(pools) :
              pools'[q] = IF q = admin[a].pool THEN admin[a].seen + admin[a].sum ELSE pools[q]
    BY <1>0, <1>10, WriteLength DEF WritePool
  <2>5. CASE p = admin[a].pool
    <3>1. pools[p] = admin[a].seen
      BY <1>0, <1>10, <2>5 DEF WritePool, Cross
    <3>2. Remaining(p)' = Remaining(p) + admin[a].sum
      BY <1>0, <2>3, <2>4, <2>5, <3>1 DEF Remaining
    <3>. QED  BY <1>0, <2>2, <2>3, <3>2 DEF PoolMove
  <2>6. CASE p # admin[a].pool
    BY <1>0, <1>1, <2>2, <2>4, <2>6 DEF Remaining
  <2>. QED  BY <2>5, <2>6
<1>11. ASSUME NEW a \in Admins, InsertPool(a) PROVE PoolMove(p)
  <2>1. /\ Same(a) /\ admin[a].step = "fund" /\ admin'[a].step = "idle" /\ UNCHANGED grant
    BY <1>0, <1>11, RestFacts DEF InsertPool
  <2>2. HeldSame(p)
    BY <1>0, <2>1, HeldIsSame
  <2>3. /\ DOMAIN pools' = 1..(Len(pools) + 1) /\ pools'[Len(pools) + 1] = admin[a].sum
        /\ \A q \in 1..Len(pools) : pools'[q] = pools[q]
    BY <1>0, <1>11, AppendProperties, LenProperties DEF InsertPool
  <2>4. CASE p = Len(pools) + 1
    <3>1. Remaining(p) = 0 /\ Remaining(p)' = admin[a].sum
      BY <1>0, <2>3, <2>4 DEF Remaining
    <3>2. admin[a].sum \in Amounts
      BY <1>0, <2>1 DEF Works
    <3>. QED  BY <1>0, <2>2, <3>1, <3>2 DEF PoolMove
  <2>5. CASE p # Len(pools) + 1
    <3>1. Remaining(p)' = Remaining(p)
      BY <1>0, <2>3, <2>5 DEF Remaining, PoolIds
    <3>. QED  BY <1>1, <2>2, <3>1
  <2>. QED  BY <2>4, <2>5
(* An award pays with what it has read, then holds the same as a row. *)
<1>12. ASSUME NEW a \in Admins, Deduct(a) PROVE PoolMove(p)
  <2>0. PICK g \in Grants : g = admin[a].grant
    BY <1>0, <1>12 DEF Deduct, Works
  <2>1. /\ Same(a) /\ Keeps(a) /\ admin[a].step = "deduct" /\ admin'[a].step = "insert"
        /\ UNCHANGED grant
    BY <1>0, <1>12, GotoFacts DEF Deduct, Steps
  <2>2. /\ g = admin[a].grant /\ grant[g].state = "none" /\ admin[a].pool \in 1..Len(pools)
        /\ admin[a].sum \in Costs /\ admin[a].sum <= admin[a].seen
    BY <1>0, <2>0, <2>1 DEF Works, Paying
  <2>3. /\ DOMAIN pools' = 1..Len(pools)
        /\ \A q \in 1..Len(pools) :
              pools'[q] = IF q = admin[a].pool THEN admin[a].seen - admin[a].sum ELSE pools[q]
    BY <1>0, <1>12 DEF Deduct
  <2>4. \A h \in Grants : InForce(h)' <=> InForce(h)
    BY <2>1 DEF InForce
  <2>5. /\ ~InForce(g) /\ \A b \in Admins : ~Inserting(b, g, p)
    BY <1>0, <2>1, <2>2 DEF InForce, Inserting, OwnGrant, Paying, Works, Ending
  <2>6. Held(g, p) = 0
    BY <1>0, <2>2, <2>5 DEF HeldRight
  <2>7. ASSUME NEW h \in Grants, h # g \/ p # admin[a].pool PROVE Held(h, p)' = Held(h, p)
    <3>1. \A b \in Admins : /\ Inserting(b, h, p)' <=> Inserting(b, h, p)
                            /\ Inserting(b, h, p) => admin'[b].sum = admin[b].sum
      BY <2>1, <2>2, <2>7 DEF Inserting, Keeps
    <3>. QED  BY <1>0, <2>1, <2>4, <3>1, HeldOther
  <2>8. CASE p = admin[a].pool
    <3>1. pools[p] = admin[a].seen
      BY <1>12, <2>8 DEF Deduct, Cross
    <3>2. Remaining(p) = pools[p] /\ Remaining(p)' = Remaining(p) - admin[a].sum
      BY <1>0, <2>2, <2>3, <2>8, <3>1 DEF Remaining
    <3>3. Inserting(a, g, p)'
      BY <2>1, <2>2, <2>8 DEF Inserting, Keeps
    <3>4. Held(g, p)' = admin[a].sum
      BY <1>0, <2>1, <2>2, <3>3 DEF HeldRight, Keeps
    <3>5. admin[a].sum \in 1..Remaining(p)
      BY <1>0, <2>2, <3>1, <3>2, DataAssumption
    <3>6. \A h \in Grants : h # g => Held(h, p)' = Held(h, p)
      BY <2>7
    <3>7. \E h \in Grants, n \in 1..Remaining(p) :
             /\ Held(h, p) = 0 /\ Held(h, p)' = n /\ Remaining(p)' = Remaining(p) - n
             /\ \A i \in Grants : i # h => Held(i, p)' = Held(i, p)
      BY <2>2, <2>6, <3>2, <3>4, <3>5, <3>6
    <3>. QED  BY <3>7 DEF PoolMove
  <2>9. CASE p # admin[a].pool
    <3>1. Remaining(p)' = Remaining(p)
      BY <1>0, <2>3, <2>9 DEF Remaining
    <3>. QED  BY <1>1, <2>7, <2>9, <3>1 DEF HeldSame
  <2>. QED  BY <2>8, <2>9
<1>13. ASSUME NEW a \in Admins, InsertGrant(a) PROVE PoolMove(p)
  <2>0. PICK g \in Grants : g = admin[a].grant
    BY <1>0, <1>13 DEF InsertGrant, Works
  <2>1. /\ Same(a) /\ Keeps(a) /\ admin[a].step = "insert" /\ admin'[a].step = "granted"
        /\ UNCHANGED pools
    BY <1>0, <1>13, GotoFacts DEF InsertGrant, Steps
  <2>2. /\ g = admin[a].grant /\ grant[g].state = "none"
        /\ \A b \in Admins : b # a /\ Paying(b) => admin[b].grant # g
    BY <1>0, <2>0, <2>1 DEF Works, Paying, OwnGrant
  <2>3. /\ grant'[g].state = "active" /\ grant'[g].pool = admin[a].pool
        /\ grant'[g].cost = admin[a].sum
        /\ \A h \in Grants : h # g => grant'[h] = grant[h]
    BY <1>0, <1>13, <2>2 DEF InsertGrant
  <2>4. \A h \in Grants : h # g => (InForce(h)' <=> InForce(h))
    BY <2>1, <2>3 DEF InForce
  <2>5. InForce(g)' /\ ~InForce(g)
    BY <1>0, <2>2, <2>3 DEF InForce, Works, Ending
  <2>6. ASSUME NEW h \in Grants, h # g PROVE Held(h, p)' = Held(h, p)
    <3>1. \A b \in Admins : /\ Inserting(b, h, p)' <=> Inserting(b, h, p)
                            /\ Inserting(b, h, p) => admin'[b].sum = admin[b].sum
      BY <2>1, <2>2, <2>6 DEF Inserting, Keeps
    <3>. QED  BY <1>0, <2>3, <2>4, <2>6, <3>1, HeldOther
  <2>7. Held(g, p)' = Held(g, p)
    <3>1. \A b \in Admins : ~Inserting(b, g, p)'
      BY <2>1, <2>2 DEF Inserting, Paying
    <3>2. Held(g, p)' = IF admin[a].pool = p THEN admin[a].sum ELSE 0
      BY <1>0, <2>3, <2>5, <3>1 DEF HeldRight
    <3>3. CASE admin[a].pool = p
      <4>1. Inserting(a, g, p)
        BY <2>1, <2>2, <3>3 DEF Inserting
      <4>. QED  BY <1>0, <3>2, <3>3, <4>1 DEF HeldRight
    <3>4. CASE admin[a].pool # p
      <4>1. \A b \in Admins : ~Inserting(b, g, p)
        BY <2>2, <3>4 DEF Inserting, Paying
      <4>. QED  BY <1>0, <2>5, <3>2, <3>4, <4>1 DEF HeldRight
    <3>. QED  BY <3>3, <3>4
  <2>. QED  BY <1>1, <2>1, <2>6, <2>7, KeepsBalances DEF HeldSame
(* A revocation ends the grant, then gives its money back. *)
<1>14. ASSUME NEW a \in Admins, Deactivate(a) PROVE PoolMove(p)
  <2>0. PICK g \in Grants : g = admin[a].grant
    BY <1>0, <1>14 DEF Deactivate, Works
  <2>1. /\ Same(a) /\ Keeps(a) /\ admin[a].step = "revoke" /\ admin'[a].step = "restore"
        /\ UNCHANGED pools
    BY <1>0, <1>14, GotoFacts DEF Deactivate, Steps
  <2>2. /\ g = admin[a].grant /\ grant[g].state # "none"
        /\ \A b \in Admins : ~Inserting(b, g, p) /\ ~Inserting(b, g, p)'
    <3>1. g = admin[a].grant /\ grant[g].state # "none"
      BY <1>0, <2>0, <2>1 DEF Works
    <3>2. \A b \in Admins : ~Inserting(b, g, p)
      BY <1>0, <3>1 DEF Works, Paying, Inserting
    <3>3. \A b \in Admins : ~Inserting(b, g, p)'
      BY <2>1, <3>2 DEF Inserting
    <3>. QED  BY <3>1, <3>2, <3>3
  <2>3. /\ grant'[g].state = "inactive"
        /\ \A h \in Grants : /\ grant'[h].pool = grant[h].pool /\ grant'[h].cost = grant[h].cost
                             /\ h # g => grant'[h] = grant[h]
    BY <1>0, <1>14, <2>2 DEF Deactivate
  <2>4. \A h \in Grants : h # g => (InForce(h)' <=> InForce(h))
    BY <2>1, <2>2, <2>3 DEF InForce, Keeps
  <2>5. grant[g].pool = p => InForce(g)' /\ InForce(g)
    <3>1. grant[g].pool = p => grant[g].state # "inactive"
      BY <1>14, <2>2 DEF Deactivate
    <3>2. grant[g].pool = p => grant[g].state = "active"
      BY <1>0, <2>2, <3>1
    <3>3. InForce(g)'
      BY <2>1, <2>2 DEF InForce, Keeps
    <3>. QED  BY <3>2, <3>3 DEF InForce
  <2>6. ASSUME NEW h \in Grants, h # g PROVE Held(h, p)' = Held(h, p)
    <3>1. \A b \in Admins : /\ Inserting(b, h, p)' <=> Inserting(b, h, p)
                            /\ Inserting(b, h, p) => admin'[b].sum = admin[b].sum
      BY <2>1 DEF Inserting
    <3>. QED  BY <1>0, <2>3, <2>4, <2>6, <3>1, HeldOther
  <2>7. Held(g, p)' = Held(g, p)
    <3>1. Held(g, p) = IF InForce(g) /\ grant[g].pool = p THEN grant[g].cost ELSE 0
      BY <1>0, <2>2 DEF HeldRight
    <3>2. Held(g, p)' = IF InForce(g)' /\ grant'[g].pool = p THEN grant'[g].cost ELSE 0
      BY <1>0, <2>2 DEF HeldRight
    <3>. QED  BY <2>3, <2>5, <3>1, <3>2
  <2>. QED  BY <1>1, <2>1, <2>6, <2>7, KeepsBalances DEF HeldSame
<1>15. ASSUME NEW a \in Admins, Restore(a) PROVE PoolMove(p)
  <2>0. PICK g \in Grants : g = admin[a].grant
    BY <1>0, <1>15 DEF Restore, Works
  <2>1. /\ Same(a) /\ Keeps(a) /\ admin[a].step = "restore" /\ admin'[a].step = "revoked"
        /\ UNCHANGED <<grant, crossed>>
    BY <1>0, <1>15, GotoFacts DEF Restore, Steps
  <2>2. /\ g = admin[a].grant /\ grant[g].state = "inactive" /\ grant[g].pool \in 1..Len(pools)
        /\ InForce(g) /\ \A b \in Admins : ~Inserting(b, g, p)
    BY <1>0, <2>0, <2>1 DEF Works, Ending, Paying, Inserting, InForce, Linked, PaidFrom
  <2>3. HeldLost(p)
    BY <1>0, <2>1, HeldIsLost
  <2>4. /\ DOMAIN pools' = 1..Len(pools)
        /\ \A q \in 1..Len(pools) :
              pools'[q] = IF q = grant[g].pool THEN pools[q] + grant[g].cost ELSE pools[q]
    BY <1>0, <1>15, <2>2 DEF Restore
  <2>5. CASE p # grant[g].pool
    <3>1. Remaining(p)' = Remaining(p)
      BY <1>0, <2>4, <2>5 DEF Remaining
    <3>. QED  BY <1>1, <2>3, <3>1
  <2>6. CASE p = grant[g].pool
    <3>1. Held(g, p) = grant[g].cost
      BY <1>0, <2>2, <2>6 DEF HeldRight
    <3>2. Remaining(p)' = Remaining(p) + Held(g, p)
      BY <1>0, <2>2, <2>4, <2>6, <3>1 DEF Remaining
    <3>3. ~InForce(g)' /\ \A b \in Admins : ~Inserting(b, g, p)'
      BY <1>0, <2>1, <2>2, <2>6 DEF InForce, OneRestore, Inserting
    <3>4. Held(g, p)' = 0
      BY <1>0, <3>3 DEF HeldRight
    <3>5. ASSUME NEW h \in Grants, h # g PROVE Held(h, p)' = Held(h, p)
      <4>1. \A b \in Admins : /\ Inserting(b, h, p)' <=> Inserting(b, h, p)
                              /\ Inserting(b, h, p) => admin'[b].sum = admin[b].sum
        BY <2>1 DEF Inserting
      <4>2. InForce(h)' <=> InForce(h)
        BY <2>1, <2>2, <3>5 DEF InForce
      <4>. QED  BY <1>0, <2>1, <4>1, <4>2, HeldOther
    <3>. QED  BY <3>2, <3>4, <3>5 DEF PoolMove
  <2>. QED  BY <2>5, <2>6
<1>. QED
  BY <1>4, <1>5, <1>6, <1>7, <1>8, <1>9, <1>10, <1>11, <1>12, <1>13, <1>14, <1>15
  DEF Next, Fund, Give, Revoke, Night

-----------------------------------------------------------------------------
(* Initially no pool has a balance and no grant holds anything. *)
LEMMA InitPool == Init => Pool!PoolInit
<1> SUFFICES ASSUME Init PROVE Pool!PoolInit
  OBVIOUS
<1>1. IInv /\ DOMAIN pools = {} /\ crossed = {}
  BY InitIInv DEF Init
<1>2. \A p \in PoolIds : Remaining(p) = 0
  BY <1>1 DEF Remaining
<1>3. ASSUME NEW g \in Grants, NEW p \in PoolIds PROVE Held(g, p) = 0
  <2>1. (\A a \in Admins : ~Inserting(a, g, p)) /\ ~InForce(g)
    BY DEF Init, Inserting, InForce, At, Idle, Unborn
  <2>. QED  BY <1>1, <2>1, HeldFacts DEF IInv, Linked, HeldRight
<1>. QED  BY <1>1, <1>2, <1>3 DEF Pool!PoolInit, Balance, HeldFrom

(* Every step is a step of GrantPool, or changes nothing that it shows. *)
LEMMA StepIsPoolStep == IInv /\ [Next]_vars => [Pool!PoolStep]_(Pool!poolVars)
<1> SUFFICES ASSUME IInv, [Next]_vars PROVE Pool!PoolStep
  OBVIOUS
<1>1. IInv'
  BY NextIInv
<1>2. \A p \in PoolIds : Remaining(p)' >= 0
  BY <1>1, RemainingTypeNext DEF IInv, Balanced
<1>3. \A p \in PoolIds : p \in crossed' \/ PoolMove(p)
  BY <1>1, RefineStep
<1>. QED  BY <1>2, <1>3, CrossedStep, MoveIsPoolStep

(* The calls of SponsorshipService, each a sequence of separate statements, *)
(* keep the promise of GrantPool on every pool until two of them cross.     *)
THEOREM SpecImplementsGrantPool == Spec => ImplementsGrantPool
<1>1. Spec => []IInv
  BY SpecIInv
<1>. QED  BY <1>1, InitPool, StepIsPoolStep, PTL DEF Spec, ImplementsGrantPool, Pool!PoolSpec
=============================================================================
