---------------------------- MODULE MCEventLoop ----------------------------
(* Small instances of EventLoop: two clock units to the millisecond, so that   *)
(* rounding shows, a sleep that wraps at two milliseconds, and one initial     *)
(* slot, so that the table grows under a scan.                                 *)
EXTENDS EventLoop
=============================================================================
