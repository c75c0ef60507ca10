-------------------------- MODULE MCAttendanceSync --------------------------
(* AttendanceSync for two teachers' devices with an edit each, the second  *)
(* by a clock that runs far ahead, and one roll call on the web.           *)
EXTENDS AttendanceSync, TLC
CONSTANTS e1, e2, d1, d2, w1, w2, c1

MCEdits      == {e1, e2}
MCDevices    == {d1, d2}
MCDeviceOf   == (e1 :> d1) @@ (e2 :> d2)
MCRank       == (e1 :> 1) @@ (e2 :> 1)
MCEditTime   == (e1 :> 1) @@ (e2 :> 9)
MCEditStatus == (e1 :> "PRESENT") @@ (e2 :> "LATE")
MCStatuses   == {"PRESENT", "LATE"}
MCCalls      == {c1}
MCCallStatus == (c1 :> "PRESENT")
MCWorkers    == {w1, w2}
=============================================================================
