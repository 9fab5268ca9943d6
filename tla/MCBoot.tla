------------------------------- MODULE MCBoot -------------------------------
(* Instance of Boot for TLC: an image that ends inside its second sector,   *)
(* and a file that exceeds the partition, the mask and block_max.           *)
EXTENDS Boot

MCLength == [f \in Images |-> IF f = "new" THEN 3 ELSE 7]
=============================================================================
