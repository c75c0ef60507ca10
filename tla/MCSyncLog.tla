----------------------------- MODULE MCSyncLog ------------------------------
(* SyncLog with four requests: two retries of one event, one reuse of its  *)
(* uuid for something else, and one unrelated event.                       *)
EXTENDS SyncLog, TLC
CONSTANTS r1, r2, r3, r4, u1, u2, b1, b2

MCRequests == {r1, r2, r3, r4}
MCUuids    == {u1, u2}
MCBodies   == {b1, b2}
MCContent  == (r1 :> [uuid |-> u1, body |-> b1]) @@ (r2 :> [uuid |-> u1, body |-> b1])
           @@ (r3 :> [uuid |-> u1, body |-> b2]) @@ (r4 :> [uuid |-> u2, body |-> b1])
MCPersonal == {u1}
=============================================================================
