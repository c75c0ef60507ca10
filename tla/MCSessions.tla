----------------------------- MODULE MCSessions -----------------------------
(* Sessions with two tabs of one browser. *)
EXTENDS Sessions
CONSTANTS t, u
MCTabs == {t, u}
=============================================================================
