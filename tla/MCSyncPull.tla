----------------------------- MODULE MCSyncPull -----------------------------
(* SyncPull for one device that may see two of the three events, pages of  *)
(* one event, and a clock long enough for each event to expire or not.     *)
EXTENDS SyncPull, TLC
CONSTANTS r1, r2, r3, u1, u2, u3, b1, d1

MCRequests == {r1, r2, r3}
MCUuids    == {u1, u2, u3}
MCBodies   == {b1}
MCContent  == (r1 :> [uuid |-> u1, body |-> b1]) @@ (r2 :> [uuid |-> u2, body |-> b1])
           @@ (r3 :> [uuid |-> u3, body |-> b1])
MCDevices  == {d1}
MCVisible  == (d1 :> {u1, u3})

(* A uuid the app generated and one the database generated. *)
MCHeaderId  == (d1 :> "app")
MCRowId     == (d1 :> "row")
=============================================================================
