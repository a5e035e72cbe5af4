-------------------------- MODULE MCDDSCommunication --------------------------
(***************************************************************************)
(* DDSCommunication with small constants for TLC.                           *)
(***************************************************************************)
EXTENDS DDSCommunication, TLC

CmdSymmetry == Permutations(Cmds)
=================================================================================
