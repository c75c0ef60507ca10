--------------------------- MODULE MCSponsorship ----------------------------
(* Sponsorship with two super admins and two grants. *)
EXTENDS Sponsorship
CONSTANTS a1, a2, g1, g2

MCAdmins == {a1, a2}
MCGrants == {g1, g2}
MCAmounts == {3}
MCCosts == {2}
=============================================================================
