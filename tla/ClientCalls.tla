------------------------------ MODULE ClientCalls ------------------------------
(***************************************************************************)
(* What RTMCClient promises to its application: the functions are called by *)
(* any number of threads and take effect one at a time, and the code that a *)
(* function returns tells what it did to the session, to the formats of     *)
(* Exec_RTMC and to the robot model.  Nothing is said here of requests,     *)
(* answers, the link or the lock; RTMCClient implements this specification. *)
(*                                                                          *)
(* A call is a record of RTMCApi.                                           *)
(***************************************************************************)
CONSTANTS Threads, Calls, NoCall, NoModel,
          Results   \* the codes that a function that runs may return

VARIABLES place,    \* per thread: "outside", "queued" or "inside" a function
          call,     \* per thread: the function it is in
          ret,      \* per thread: what its last call returned
          session,  \* "none", "established", or "half": RTMC_Connect failed and
                    \* yet left a connection
          formats,  \* the pair of formats that Exec_RTMC is to follow
          model,    \* the robot model whose limits loads are to keep
          stuck     \* no function runs any more

callVars == <<place, call, ret, session, formats, model, stuck>>

Formats == {0, 1} \X {0, 1}
Serious == {"CLIENT_COM_ERR", "CLIENT_UNDEF_ERR"}

Init ==
  /\ place = [t \in Threads |-> "outside"]
  /\ call = [t \in Threads |-> NoCall]
  /\ ret = [t \in Threads |-> "none"]
  /\ session = "none" /\ formats = <<0, 0>> /\ model = NoModel /\ stuck = FALSE
--------------------------------------------------------------------------------
(* What a function has done that returns code.  A refusal is any other code  *)
(* than CLIENT_SUCCESS and the serious errors.                               *)

Nothing == UNCHANGED <<session, formats, model, stuck>>
Loses   == session' = "none" /\ UNCHANGED <<formats, model, stuck>>

Refusal(code) == code # "CLIENT_SUCCESS" /\ code \notin Serious

(* Configuration is for a client without a connection.                       *)
Configures(code) ==
  /\ code = "CLIENT_SUCCESS" \/ code \in Serious => session = "none"
  /\ Nothing

(* RTMC_Connect finds no session, or one that it leaves as it is; it reads    *)
(* the formats from the controller, or none at all.                           *)
Connects(code) ==
  \/ /\ code = "CLIENT_SUCCESS" /\ session = "none"
     /\ session' = "established" /\ formats' \in Formats /\ model' = NoModel
     /\ UNCHANGED stuck
  \/ code = "CLIENT_COM_ERR" /\ session # "none" /\ Nothing
  \/ code # "CLIENT_SUCCESS" /\ session = "none" /\ Nothing
  \/ /\ Refusal(code) /\ code # "CLIENT_ARG_ERR" /\ session = "none"
     /\ session' = "half" /\ UNCHANGED <<formats, model, stuck>>

(* A failed RTMC_DisConnect is the last function that runs.                   *)
Disconnects(code) ==
  \/ code = "CLIENT_SUCCESS" /\ session # "none" /\ Loses
  \/ code = "CLIENT_COM_ERR" /\ session = "none" /\ Nothing
  \/ /\ code = "CLIENT_ERR" /\ session # "none"
     /\ session' = "none" /\ stuck' = TRUE /\ UNCHANGED <<formats, model>>

(* The formats after a successful request. *)
Changed(c) ==
  CASE c.cmd = "REQ_SET_RTPOS_IO_FORM"  -> <<c.arg, formats[2]>>
    [] c.cmd = "REQ_SET_CURPOS_IO_FORM" -> <<formats[1], c.arg>>
    [] OTHER -> formats

(* The arguments are in range, for the formats and the model of the client.   *)
Fits(c) == c.legal /\ formats \in c.formats /\ (c.loads => model # NoModel /\ model \in c.fits)

(* Any function that sends one request: CLIENT_ARG_ERR means that it did not. *)
Requests(c, code) ==
  \/ code \in Serious /\ Loses
  \/ Refusal(code) /\ (code = "CLIENT_ARG_ERR" => ~Fits(c)) /\ session # "none" /\ Nothing
  \/ /\ code = "CLIENT_SUCCESS" /\ Fits(c) /\ session # "none"
     /\ formats' = Changed(c) /\ UNCHANGED <<session, model, stuck>>

(* Get_RCStatus and Get_CurrentJA.                                            *)
Consults(code) ==
  \/ code \in Serious /\ Loses
  \/ Refusal(code) /\ session # "none" /\ (Nothing \/ Loses)
  \/ code = "CLIENT_SUCCESS" /\ session # "none" /\ Nothing

Does(c, code) ==
  \/ c.kind = "config" /\ Configures(code)
  \/ c.kind = "connect" /\ Connects(code)
  \/ c.kind = "disconnect" /\ Disconnects(code)
  \/ c.kind = "request" /\ Requests(c, code)
  \/ c.kind \in {"status", "position"} /\ Consults(code)
--------------------------------------------------------------------------------
Leaves(t, code) ==
  /\ place' = [place EXCEPT ![t] = "outside"]
  /\ call' = [call EXCEPT ![t] = NoCall]
  /\ ret' = [ret EXCEPT ![t] = code]

Start(t, c) ==
  /\ place[t] = "outside"
  /\ place' = [place EXCEPT ![t] = "queued"]
  /\ call' = [call EXCEPT ![t] = c]
  /\ ret' = [ret EXCEPT ![t] = "none"]
  /\ Nothing

Free == ~stuck /\ \A t \in Threads : place[t] # "inside"

Enter(t) ==
  /\ place[t] = "queued" /\ Free
  /\ place' = [place EXCEPT ![t] = "inside"]
  /\ UNCHANGED <<call, ret>> /\ Nothing

(* CLIENT_TIMEOUT_ERR: the function has not run.                              *)
GiveUp(t) ==
  /\ place[t] = "queued" /\ ~Free
  /\ Leaves(t, "CLIENT_TIMEOUT_ERR") /\ Nothing

(* RBCheck makes its model the client's before the controller has seen it, and *)
(* whatever it returns.                                                       *)
Adopt(t) ==
  /\ place[t] = "inside" /\ call[t].kind = "request" /\ call[t].model # NoModel
  /\ call[t].legal /\ session # "none"
  /\ model' = call[t].model
  /\ UNCHANGED <<place, call, ret, session, formats, stuck>>

(* RTMC_Connect removes a session whose link is gone before it makes another. *)
Clean(t) ==
  /\ place[t] = "inside" /\ call[t].kind = "connect" /\ session # "none"
  /\ UNCHANGED <<place, call, ret>> /\ Loses

Return(t, code) ==
  /\ place[t] = "inside"
  /\ Leaves(t, code) /\ Does(call[t], code)

(* Another client in the place of this one.                                   *)
NewClient ==
  /\ \A t \in Threads : place[t] = "outside"
  /\ session' = "none" /\ formats' = <<0, 0>> /\ model' = NoModel /\ stuck' = FALSE
  /\ UNCHANGED <<place, call, ret>>

Next == \/ \E t \in Threads : \/ \E c \in Calls : Start(t, c)
                              \/ Enter(t) \/ GiveUp(t) \/ Clean(t) \/ Adopt(t)
                              \/ \E code \in Results : Return(t, code)
        \/ NewClient

Spec == Init /\ [][Next]_callVars
================================================================================
