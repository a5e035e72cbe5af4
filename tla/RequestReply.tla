------------------------------ MODULE RequestReply ------------------------------
(***************************************************************************)
(* What the communication object promises to the client API: a connection   *)
(* that carries one request at a time.  A call either succeeds, with an     *)
(* answer that bears the request's own command ID, and leaves the           *)
(* connection usable, or it ends the connection: after a failed call the    *)
(* only thing left is a new connection.                                     *)
(*                                                                          *)
(* DDSCommunication implements this contract; RTMCClient is written on it.  *)
(***************************************************************************)
CONSTANTS Cmds, NoCmd

VARIABLES phase,     \* "closed" (no DDSCommunication object), "open" or "called"
          request,   \* the command ID of the outstanding call
          answered   \* the command ID of the last accepted answer

rrVars == <<phase, request, answered>>

Init == phase = "closed" /\ request = NoCmd /\ answered = NoCmd

Open == /\ phase = "closed"
        /\ phase' = "open"
        /\ UNCHANGED <<request, answered>>

Call(c) == /\ phase = "open"
           /\ phase' = "called"
           /\ request' = c
           /\ UNCHANGED answered

Succeed == /\ phase = "called"
           /\ phase' = "open"
           /\ request' = NoCmd
           /\ answered' = request

Hangup == /\ phase \in {"open", "called"}
          /\ phase' = "closed"
          /\ request' = NoCmd
          /\ answered' = NoCmd

Next == Open \/ Succeed \/ Hangup \/ \E c \in Cmds : Call(c)

Spec == Init /\ [][Next]_rrVars
=================================================================================
