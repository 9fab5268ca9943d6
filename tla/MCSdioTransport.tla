-------------------------- MODULE MCSdioTransport --------------------------
(***************************************************************************)
(* SdioTransport with queues, bursts and counters of one to three, so that *)
(* every limit is reached and the token counter wraps.  The frames have    *)
(* the shortest and the longest length accepted, and whole blocks.         *)
(***************************************************************************)
EXTENDS SdioTransport

MCFrameLength ==
  [j \in Jobs |-> CASE j = 1 -> HeaderSize [] j = 2 -> MaxFrame [] OTHER -> 2 * BlockSize]
=============================================================================
