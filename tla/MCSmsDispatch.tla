--------------------------- MODULE MCSmsDispatch ---------------------------
(* SmsDispatch with a batch of two recipients and one of a single, which   *)
(* bypasses the quota in one run and not in the other.                     *)
EXTENDS SmsDispatch, TLC
CONSTANTS a, b, j1, j2, j3

MCBatches == {a, b}
MCJobs    == {j1, j2, j3}
MCBatchOf == (j1 :> a) @@ (j2 :> a) @@ (j3 :> b)
=============================================================================
