----------------------------- MODULE MCServer -----------------------------
(***************************************************************************)
(* Server for TLC.                                                         *)
(***************************************************************************)
EXTENDS Server, TLC

CONSTANTS c1, c2, c3

MCSymmetry == Permutations(Conn)
=============================================================================
