------------------------------- MODULE MCHost -------------------------------
(***************************************************************************)
(* The facade and iPerf2 with two callers: the shell and a monitor that    *)
(* recovers the host on its own.                                           *)
(***************************************************************************)
EXTENDS HostLifecycle
=============================================================================
