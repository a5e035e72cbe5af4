----------------------------- MODULE MCComProperty -----------------------------
(***************************************************************************)
(* ComProperty with small constants for TLC.                                *)
(***************************************************************************)
EXTENDS ComProperty, TLC

ControllerSymmetry == Permutations(Controllers)
=================================================================================
