------------------------------ MODULE GrantPool ------------------------------
(***************************************************************************)
(* What the sponsorship pools promise their accountant.  A pool's balance  *)
(* grows when it is funded, pays for a grant that it can afford, and gets  *)
(* back what a revoked grant held; a grant that expires keeps its money.   *)
(* Every such step is indivisible.  Once two calls on a pool are not kept  *)
(* apart, it is only promised that its balance is never negative.          *)
(***************************************************************************)
EXTENDS Integers

CONSTANTS
    PoolIds,
    Grants,
    Amounts     \* what a pool is funded with at a time

VARIABLES
    balance,    \* what is left in each pool
    held,       \* what each grant in force has been paid from each pool
    mixed       \* pools on which two calls were not kept apart

poolVars == <<balance, held, mixed>>

PoolInit ==
    /\ balance = [p \in PoolIds |-> 0]
    /\ held = [p \in PoolIds |-> [g \in Grants |-> 0]]
    /\ mixed = {}

Fund(p) == balance'[p] - balance[p] \in Amounts /\ held'[p] = held[p]

Take(p, g) ==
    \E n \in 1..balance[p] :
        /\ held[p][g] = 0
        /\ held'[p] = [held[p] EXCEPT ![g] = n]
        /\ balance'[p] = balance[p] - n

Return(p, g) ==
    /\ balance'[p] = balance[p] + held[p][g]
    /\ held'[p] = [held[p] EXCEPT ![g] = 0]

(* Grants expire, or come to nothing after they were paid for. *)
Keep(p) ==
    /\ balance'[p] = balance[p]
    /\ \A g \in Grants : held'[p][g] \in {0, held[p][g]}

PoolStep ==
    /\ mixed \subseteq mixed'
    /\ \A p \in PoolIds :
          /\ balance'[p] >= 0
          /\ p \in mixed' \/ Fund(p) \/ Keep(p) \/ \E g \in Grants : Take(p, g) \/ Return(p, g)

PoolSpec == PoolInit /\ [][PoolStep]_poolVars
=============================================================================
