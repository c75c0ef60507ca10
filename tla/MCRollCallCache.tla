-------------------------- MODULE MCRollCallCache --------------------------
(* RollCallCache with two recordings on the phone and two periods on the   *)
(* web.                                                                    *)
EXTENDS RollCallCache
CONSTANTS m1, m2, p1, p2

MCMarks   == {m1, m2}
MCPeriods == {p1, p2}
=============================================================================
