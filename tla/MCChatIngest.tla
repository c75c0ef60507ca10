---------------------------- MODULE MCChatIngest ----------------------------
(* ChatIngest for two queued messages and one other participant. *)
EXTENDS ChatIngest, TLC
CONSTANTS m1, m2, sender, other, w1, w2

MCMessages == {m1, m2}
MCRank     == (m1 :> 1) @@ (m2 :> 2)
MCOthers   == {other}
MCWorkers  == {w1, w2}
=============================================================================
