------------------------------ MODULE MCRCStatus ------------------------------
(***************************************************************************)
(* RCStatus with small constants for TLC.                                   *)
(***************************************************************************)
EXTENDS RCStatus, TLC

KindSymmetry == Permutations(Kinds)
=================================================================================
