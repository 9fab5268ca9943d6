------------------------------ MODULE MCWlanRx ------------------------------
(***************************************************************************)
(* WlanRx with pools of a few blocks: enough for both interfaces to        *)
(* exhaust their pool, for the shared queue to hold jobs of both, and for  *)
(* a block to be reused while the other interface's frames are queued.     *)
(***************************************************************************)
EXTENDS WlanRx
=============================================================================
