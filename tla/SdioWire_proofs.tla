--------------------------- MODULE SdioWire_proofs ---------------------------
(***************************************************************************)
(* The arithmetic of the SDIO protocol for every block size, frame limit,  *)
(* window and counter width: the transfer sizes and the packet lengths are *)
(* those of the reference.                                                 *)
(***************************************************************************)
EXTENDS SdioWire, TLAPS

(* Quotient and remainder.                                                   *)
LEMMA Division ==
  ASSUME NEW b \in Nat \ {0}, NEW x \in Nat
  PROVE  /\ x \div b \in Nat /\ x % b \in 0 .. b - 1
         /\ (x \div b) * b <= x /\ x < (x \div b) * b + b
<1>1. x \div b \in Nat /\ x % b \in 0 .. b - 1
  OBVIOUS
<1>2. (x \div b) * b <= x
  OBVIOUS
<1>3. x < (x \div b) * b + b
  OBVIOUS
<1> QED
  BY <1>1, <1>2, <1>3

LEMMA Multiple ==
  ASSUME NEW b \in Nat \ {0}, NEW q \in Nat, NEW r \in 0 .. b - 1
  PROVE  q * b \in Nat /\ (q * b + r) % b = r
  OBVIOUS

LEMMA MultipleOrder ==
  ASSUME NEW b \in Nat \ {0}, NEW q \in Nat, NEW k \in Nat, q * b < (k + 1) * b
  PROVE  q * b <= k * b
<1>1. q <= k
  OBVIOUS
<1> QED
  BY <1>1

(* A number with remainder 0 is a multiple.                                  *)
LEMMA Whole ==
  ASSUME NEW b \in Nat \ {0}, NEW x \in Nat, x % b = 0
  PROVE  x = (x \div b) * b
<1> DEFINE q == x \div b
<1>1. q \in Int
  OBVIOUS
<1>2. ASSUME NEW p \in Int, p = x \div b PROVE x = b * p + (x % b)
  BY <1>2
<1>3. x = b * q + 0
  BY <1>1, <1>2
<1> QED
  BY <1>1, <1>3

(* wlh_rtt_sdio_padded_size and _window_address, for a frame that fits.      *)
LEMMA Padded ==
  ASSUME NEW n \in 1 .. MaxFrame
  PROVE  /\ padded_size(n) \in n .. n + BlockSize - 1
         /\ padded_size(n) % BlockSize = 0 /\ padded_size(n) <= StagingSize
<1> DEFINE x == n + BlockSize - 1
           q == x \div BlockSize
           k == StagingSize \div BlockSize
<1>1. /\ BlockSize \in Nat \ {0} /\ StagingSize \in Nat /\ MaxFrame \in Nat
      /\ MaxFrame <= StagingSize /\ StagingSize % BlockSize = 0 /\ n \in Nat \ {0}
      /\ n <= MaxFrame
  BY WireAssumption
<1>2. x \in Nat
  BY <1>1
<1>3. q \in Nat /\ q * BlockSize <= x /\ x < q * BlockSize + BlockSize
  BY <1>1, <1>2, Division
<1>4. k \in Nat /\ StagingSize = k * BlockSize
  BY <1>1, Division, Whole
<1>5. padded_size(n) = q * BlockSize
  BY <1>1 DEF padded_size
<1> HIDE DEF q, k
<1>6. q * BlockSize \in Nat /\ (q * BlockSize) % BlockSize = 0
  <2>1. 0 \in 0 .. BlockSize - 1
    BY <1>1
  <2>2. (q * BlockSize + 0) % BlockSize = 0 /\ q * BlockSize \in Nat
    BY <1>1, <1>3, <2>1, Multiple
  <2> QED
    BY <2>2
<1>7. q * BlockSize <= StagingSize
  <2>1. (k + 1) * BlockSize = k * BlockSize + BlockSize
    BY <1>1, <1>4
  <2>2. q * BlockSize < (k + 1) * BlockSize
    BY <1>1, <1>3, <1>4, <1>6, <2>1
  <2> QED
    BY <1>1, <1>3, <1>4, <2>2, MultipleOrder
<1> QED
  BY <1>1, <1>3, <1>5, <1>6, <1>7

(* Every frame length, in range or not, is moved as the reference says.      *)
LEMMA TransferCorrect ==
  ASSUME NEW n \in Nat
  PROVE  TransferAgrees(n)
<1>1. CASE n \in 1 .. MaxFrame
  <2>1. padded_size(n) # 0
    BY <1>1, Padded, WireAssumption
  <2>2. window_address(n) + n = EndAddress
    BY <1>1, <2>1, WireAssumption DEF window_address
  <2> QED
    BY <1>1, <2>2, Padded DEF TransferAgrees
<1>2. CASE n \notin 1 .. MaxFrame
  <2>1. padded_size(n) = 0
    BY <1>2, WireAssumption DEF padded_size
  <2> QED
    BY <1>2, <2>1 DEF TransferAgrees, window_address
<1> QED
  BY <1>1, <1>2

(* The length read off two counter values is right across every wrap.        *)
LEMMA LengthCorrect == LengthsAgree
<1> DEFINE L == LengthModulus
<1>1. /\ L \in Nat \ {0} /\ MaxFrame \in Nat /\ HeaderSize \in Nat \ {0} /\ MaxFrame < L
      /\ WordMax \in Nat
  BY WireAssumption
<1>2. ASSUME NEW total \in 0 .. L - 1, NEW n \in 0 .. L - 1,
             NEW k \in 0 .. WordMax \div L,
             NEW current, current = ((total + n) % L) + k * L, current # WordMax
      PROVE  accumulated_length(total, current) =
               IF n \in HeaderSize .. MaxFrame THEN n ELSE -1
  <2> DEFINE c == (total + n) % L
             delta == ((current % L) + L - (total % L)) % L
  <2>1. k \in Nat /\ total + n \in Nat
    BY <1>1, Division
  <2>2. c \in 0 .. L - 1
    BY <1>1, <2>1, Division
  <2>3. current % L = c
    <3>1. (k * L + c) % L = c /\ k * L \in Nat
      <4> HIDE DEF c
      <4> QED
        BY <1>1, <2>1, <2>2, Multiple
    <3>2. current = k * L + c
      <4>1. current = c + k * L
        BY <1>2
      <4> HIDE DEF c
      <4> QED
        BY <2>2, <3>1, <4>1
    <3> QED
      BY <3>1, <3>2
  <2>4. \A r \in 0 .. L - 1 : r % L = r /\ (r + L) % L = r
    BY <1>1
  <2>5. delta = n
    <3>1. CASE total + n < L
      <4>1. c = total + n
        BY <1>1, <2>1, <2>4, <3>1
      <4>2. c + L - total = n + L
        BY <1>1, <4>1
      <4> QED
        BY <2>3, <2>4, <4>2
    <3>2. CASE ~(total + n < L)
      <4>1. total + n - L \in 0 .. L - 1 /\ total + n = (total + n - L) + L
        BY <1>1, <3>2
      <4>2. c = total + n - L
        BY <2>4, <4>1
      <4>3. c + L - total = n
        BY <1>1, <4>2
      <4> QED
        BY <2>3, <2>4, <4>3
    <3> QED
      BY <3>1, <3>2
  <2> QED
    BY <1>2, <2>5 DEF accumulated_length
<1> QED
  BY <1>2 DEF LengthsAgree

(* The whole reference, for every value of the constants: what               *)
(* wlh_rtt_sdio_protocol.c computes for a transfer and for a packet length.  *)
THEOREM WireCorrect == AllTransfersAgree /\ LengthsAgree
<1>1. AllTransfersAgree
  BY TransferCorrect, WireAssumption DEF AllTransfersAgree
<1> QED
  BY <1>1, LengthCorrect
=============================================================================
