---------------------------- MODULE MessageQueue ----------------------------
(***************************************************************************)
(* What the threads of the package see of rt_mq_recv.  The call takes the  *)
(* oldest message of a queue and then returns a result, and the five call  *)
(* sites of the package compare that result with RT_EOK.  The kernel of    *)
(* this tree (RT-Thread 5.3.0) returns the length of the message, which is *)
(* not RT_EOK; the kernels before 5.1, with which the package can also be  *)
(* built (SConstruct takes the kernel's place from RTT_ROOT), return       *)
(* RT_EOK.  RecvResults is the set of results a message may be received    *)
(* with: {RT_EOK}, a set of lengths, or, for a statement that has to hold  *)
(* of every kernel, both.                                                  *)
(***************************************************************************)
EXTENDS Integers

CONSTANT RecvResults

ASSUME RecvAssumption == RecvResults # {} /\ RecvResults \subseteq Nat

RT_EOK == 0

(* The kernel returns the length of what it has copied out.                 *)
ReturnsLength == RT_EOK \notin RecvResults
=============================================================================
