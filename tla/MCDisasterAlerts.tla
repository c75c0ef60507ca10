-------------------------- MODULE MCDisasterAlerts --------------------------
(* DisasterAlerts with two administrators, one parent and two callbacks at *)
(* a time.                                                                 *)
EXTENDS DisasterAlerts, TLC
CONSTANTS a, b, p, h, i

MCAdmins  == {a, b}
MCParents == {p}
MCHooks   == {h, i}
Symmetry  == Permutations(MCAdmins) \union Permutations(MCHooks)
=============================================================================
