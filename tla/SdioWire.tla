------------------------------ MODULE SdioWire ------------------------------
(***************************************************************************)
(* The arithmetic of transport/sdio/wlh_rtt_sdio_protocol.c: how much a    *)
(* frame takes on the bus, where its window begins, and how long a packet  *)
(* is, given two readings of the coprocessor's cumulative byte counter.    *)
(* Masks with a power of two minus one are written as remainders.          *)
(***************************************************************************)
EXTENDS Integers

CONSTANTS BlockSize, MaxFrame, StagingSize, EndAddress,   \* WLH_RTT_SDIO_...
          LengthModulus,   \* WLH_RTT_SDIO_LENGTH_MODULUS
          WordMax,         \* UINT32_MAX
          HeaderSize       \* WLH_FRAME_HEADER_SIZE

ASSUME WireAssumption ==
  /\ BlockSize \in Nat \ {0} /\ HeaderSize \in Nat \ {0}
  /\ MaxFrame \in HeaderSize .. StagingSize /\ StagingSize \in Nat
  /\ StagingSize % BlockSize = 0 /\ EndAddress \in Nat /\ StagingSize <= EndAddress
  /\ LengthModulus \in Nat /\ MaxFrame < LengthModulus
  /\ WordMax \in Nat /\ (WordMax + 1) % LengthModulus = 0

(* wlh_rtt_sdio_padded_size: whole blocks; 0 refuses the frame.             *)
padded_size(n) ==
  IF n = 0 \/ n > MaxFrame THEN 0 ELSE ((n + BlockSize - 1) \div BlockSize) * BlockSize

window_address(n) == IF padded_size(n) = 0 THEN 0 ELSE EndAddress - n

(* wlh_rtt_sdio_accumulated_length: the packet's length, or -1; all ones is *)
(* what the bus reads when nobody answers.                                  *)
accumulated_length_no_wrap(previous, current) ==
  LET delta == (current % LengthModulus) - (previous % LengthModulus)
  IN IF current # WordMax /\ delta \in HeaderSize .. MaxFrame THEN delta ELSE -1

accumulated_length(previous, current) ==
  LET delta == ((current % LengthModulus) + LengthModulus - (previous % LengthModulus))
                 % LengthModulus
  IN IF current # WordMax /\ delta \in HeaderSize .. MaxFrame THEN delta ELSE -1

-----------------------------------------------------------------------------
(* The reference.  A frame of n bytes is moved as whole blocks that fit the *)
(* staging buffer, padded by less than a block, and its window ends where   *)
(* the coprocessor's ends; a frame that does not fit is refused.            *)
TransferAgrees(n) ==
  IF n \in 1 .. MaxFrame
  THEN /\ padded_size(n) \in n .. n + BlockSize - 1
       /\ padded_size(n) % BlockSize = 0 /\ padded_size(n) <= StagingSize
       /\ window_address(n) + n = EndAddress
  ELSE padded_size(n) = 0 /\ window_address(n) = 0

AllTransfersAgree == \A n \in 0 .. 2 * StagingSize : TransferAgrees(n)

(* Whatever the total sent so far, across the wrap of the counter and with  *)
(* any value in the register's upper bits, the length is that of the        *)
(* packet, or an error if no packet has it.                                 *)
LengthsAgree ==
  \A total \in 0 .. LengthModulus - 1, n \in 0 .. LengthModulus - 1 :
    \A current \in {((total + n) % LengthModulus) + k * LengthModulus :
                      k \in 0 .. WordMax \div LengthModulus} \ {WordMax} :
      accumulated_length(total, current) = IF n \in HeaderSize .. MaxFrame THEN n ELSE -1
=============================================================================
