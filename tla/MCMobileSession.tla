--------------------------- MODULE MCMobileSession ---------------------------
(* MobileSession for two accounts; the first records an entry the server   *)
(* refuses and one with attachments, the second records one.               *)
EXTENDS MobileSession, TLC
CONSTANTS a, b, e1, e2, e3

MCUsers    == {a, b}
MCEntries  == {e1, e2, e3}
MCOwner    == (e1 :> a) @@ (e2 :> a) @@ (e3 :> b)
MCRank     == (e1 :> 1) @@ (e2 :> 2) @@ (e3 :> 3)
=============================================================================
