----------------------------- MODULE MCRTMCClient -----------------------------
(***************************************************************************)
(* RTMCClient with small constants for TLC: the calls of each run.          *)
(***************************************************************************)
EXTENDS RTMCClient, TLC

CONSTANTS M, W   \* two robot models

AllModels == {M, W}

(* The connection and the formats of Exec_RTMC. *)
FormatCalls == {RTMC_Connect(8), RTMC_DisConnect, Set_RTMCSendFormat(0), Set_RTMCSendFormat(1),
                Get_RTMCSendFormat, Exec_RTMC, Exec_RTMC_DO, RBCheck(M)}

(* Every kind of function, with arguments inside and outside their ranges.   *)
MixedCalls == {RTMC_Connect(8), RTMC_Connect(33), RTMC_DisConnect, Set_ComProperty,
               Get_CurrentJA, Get_RCStatus, Set_BufferSize(3), RBCheck(M), Set_Weight({M})}

(* The robot model and its limits. *)
ModelCalls == {RTMC_Connect(8), RTMC_DisConnect, RBCheck(M), Set_Weight({M})}

(* Only the connection. *)
ConnectionCalls == {RTMC_Connect(8), RTMC_DisConnect}

ThreadSymmetry == Permutations(Threads)
=================================================================================
