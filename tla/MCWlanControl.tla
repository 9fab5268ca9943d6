--------------------------- MODULE MCWlanControl ---------------------------
(***************************************************************************)
(* WlanControl on one or two interfaces with fewer completion slots than   *)
(* the code's four, so that slots run out, and with generations that wrap  *)
(* within the behaviour (Init also starts just below the modulus).         *)
(***************************************************************************)
EXTENDS WlanControl
=============================================================================
