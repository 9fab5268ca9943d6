---------------------------- MODULE MCApClients ----------------------------
(***************************************************************************)
(* ApClients with one client more than the table holds.                    *)
(***************************************************************************)
EXTENDS ApClients
=============================================================================
