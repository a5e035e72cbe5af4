-------------------------------- MODULE RTMCApi --------------------------------
(***************************************************************************)
(* The public functions of RTMCClient.  They all have one shape (take the   *)
(* lock, check the connection and the arguments, send a request, judge the  *)
(* answer, release the lock), which RTMCClient models once; what differs    *)
(* between them is a record here, one definition per function:              *)
(*   kind     the branch of RTMCClient that runs it                         *)
(*   cmd,arg  the command ID and the parameter the controller acts on       *)
(*   legal    the arguments are in range                                    *)
(*   formats  the pairs <<sendformat, recvformat>> under which it may run   *)
(*   loads    it needs the robot model, to look up its limits               *)
(*   fits     the models whose limits the arguments keep                    *)
(*   model    the robot model it makes the client's, or NoModel             *)
(*   details  the details of an execution error it knows; {}: it asks none  *)
(*   values   the range of values it accepts in the answer                  *)
(*   cached   the cached format that the answer must equal, or "none"       *)
(*   verdict  a value of 0 means CLIENT_ERR                                 *)
(*   outcomes what a function that sends nothing can return                 *)
(***************************************************************************)
EXTENDS Integers

CONSTANTS Models,   \* rb_model_list
          NoModel   \* the empty rb_model

ASSUME ModelsAssumption == NoModel \notin Models

Formats  == {0, 1} \X {0, 1}

(* Ranges of the value in an answer; of REQ_GET_ROBOTMODEL it is the size.   *)
InRange(word, range) ==
  CASE range = "word"   -> TRUE
    [] range = "switch" -> word \in {0, 1}
    [] range = "byte"   -> word <= 255
    [] range = "buffer" -> word \in {2, 5, 10}
    [] range = "filled" -> word > 0
----------------------------------------------------------------------------------
Request(cmd, arg) ==
  [kind |-> "request", cmd |-> cmd, arg |-> arg, legal |-> TRUE, formats |-> Formats,
   loads |-> FALSE, fits |-> Models \union {NoModel}, model |-> NoModel, details |-> {},
   values |-> "word", cached |-> "none", verdict |-> FALSE, outcomes |-> {}]

Limited(request, legal)   == [request EXCEPT !.legal = legal]
Returning(request, values) == [request EXCEPT !.values = values]
Knowing(request, details) == [request EXCEPT !.details = details]
Configuration(outcomes)   == [Request("none", 0) EXCEPT !.kind = "config", !.outcomes = outcomes]

(* The commands whose answers have a size that Check_exDataSize knows. *)
SizedCommands == {"SYS_REQ_RC_STATUS", "SYS_REQ_CURPOS_INFO", "SYS_REQ_RTMC_FORMAT_INFO",
                  "REQ_EXEC_RTPOS", "REQ_GET_CURPOS_INFO", "REQ_GET_DO", "REQ_GET_DI",
                  "REQ_GET_WEIGHT", "REQ_GET_INERTIA"}
----------------------------------------------------------------------------------
(* Configuration: allowed only without a connection. *)

Set_ComProperty == Configuration({"CLIENT_SUCCESS", "CLIENT_ARG_ERR", "CLIENT_UNDEF_ERR"})
Get_ComProperty == Configuration({"CLIENT_SUCCESS"})
Set_SecProperty == Configuration({"CLIENT_SUCCESS"})
Get_SecProperty == Configuration({"CLIENT_SUCCESS"})

(* The connection. *)

RTMC_Connect(length) ==
  [Limited(Knowing(Request("REQ_CONNECT", 1), {1, 2}), length <= 32) EXCEPT !.kind = "connect"]
ConnectPosition == Request("SYS_REQ_CURPOS_INFO", 0)
ConnectStatus   == Request("SYS_REQ_RC_STATUS", 0)
ErrorMessage    == Request("SYS_REQ_RC_ERRMSG", 0)
ConnectFormat   == Request("SYS_REQ_RTMC_FORMAT_INFO", 0)
RTMC_DisConnect == [Request("REQ_CONNECT", 0) EXCEPT !.kind = "disconnect"]

(* The robot model. *)

RBCheck(model) ==
  [Limited(Request("REQ_CHECK_ROBOTMODEL", model), model \in Models)
     EXCEPT !.model = model, !.values = "switch", !.verdict = TRUE]
RBCheckResult ==
  [Returning(Request("REQ_GET_ROBOTMODEL_CHECKRESULT", 0), "switch") EXCEPT !.verdict = TRUE]
Get_RBModel == Returning(Request("REQ_GET_ROBOTMODEL", 0), "filled")

(* The formats of Exec_RTMC. *)

Set_RTMCSendFormat(format) ==
  Knowing(Limited(Request("REQ_SET_RTPOS_IO_FORM", format), format \in {0, 1}), {1})
Get_RTMCSendFormat ==
  [Returning(Request("REQ_GET_RTPOS_IO_FORM", 0), "switch") EXCEPT !.cached = "send"]
Set_RTMCRecvFormat(format) ==
  Limited(Request("REQ_SET_CURPOS_IO_FORM", format), format \in {0, 1})
Get_RTMCRecvFormat ==
  [Returning(Request("REQ_GET_CURPOS_IO_FORM", 0), "switch") EXCEPT !.cached = "recv"]

(* Motors, power and the control mode. *)

MotorOn             == Request("REQ_SET_MOTOR", 1)
MotorOff            == Request("REQ_SET_MOTOR", 0)
Get_MotorStatus     == Returning(Request("REQ_GET_MOTOR", 0), "switch")
PowerHigh           == Request("REQ_SET_POWER", 1)
PowerLow            == Request("REQ_SET_POWER", 0)
Get_PowerMode       == Returning(Request("REQ_GET_POWER", 0), "switch")
Set_RTMCModeEnable  == Knowing(Request("REQ_SET_ROBOT_CONTROL_MODE", 1), {1, 2})
Set_RTMCModeDisable == Request("REQ_SET_ROBOT_CONTROL_MODE", 0)
Get_RTMCMode        == Returning(Request("REQ_GET_ROBOT_CONTROL_MODE", 0), "switch")

(* Motion: one overload of Exec_RTMC per pair of formats, which the layout of *)
(* its request and of its answer follows.                                     *)

Layout(send, recv) == 2 * send + recv
Exec(send, recv) ==
  [Request("REQ_EXEC_RTPOS", Layout(send, recv)) EXCEPT !.formats = {<<send, recv>>}]
Exec_RTMC         == Exec(0, 0)
Exec_RTMC_DO      == Exec(1, 0)
Exec_RTMC_DI      == Exec(0, 1)
Exec_RTMC_DO_DI   == Exec(1, 1)
Get_CurrentJA     == [Request("REQ_GET_CURPOS_INFO", 0) EXCEPT !.kind = "position"]
Get_RCStatus      == [Request("SYS_REQ_RC_ERRMSG", 0) EXCEPT !.kind = "status"]
Reset             == Request("REQ_EXEC_RESET", 0)
Set_BufferSize(n) == Limited(Request("REQ_SET_BUF_SIZE", n), n \in {2, 5, 10})
Get_BufferSize    == Returning(Request("REQ_GET_BUF_SIZE", 0), "buffer")

(* Standard I/O. *)

Set_DigitalOutput_Bit(bit, data) ==
  Knowing(Limited(Request("REQ_SET_DO", bit), bit <= 15 /\ data \in {0, 1}), {1})
Set_DigitalOutput_Byte(byte) == Knowing(Limited(Request("REQ_SET_DO", byte), byte <= 1), {1})
Set_DigitalOutput_Word       == Knowing(Request("REQ_SET_DO", 0), {1})
Get_DigitalOutput_Bit(bit) ==
  Returning(Limited(Request("REQ_GET_DO", bit), bit <= 15), "switch")
Get_DigitalOutput_Byte(byte) ==
  Returning(Limited(Request("REQ_GET_DO", byte), byte <= 1), "byte")
Get_DigitalOutput_Word       == Request("REQ_GET_DO", 0)
Get_DigitalInput_Bit(bit) ==
  Returning(Limited(Request("REQ_GET_DI", bit), bit <= 23), "switch")
Get_DigitalInput_Byte(byte) ==
  Returning(Limited(Request("REQ_GET_DI", byte), byte <= 2), "byte")
Get_DigitalInput_Word(word)  == Limited(Request("REQ_GET_DI", word), word <= 1)

(* Weight and inertia; fits are the models whose limits the arguments keep. *)

Loading(cmd, fits) == [Request(cmd, 0) EXCEPT !.loads = TRUE, !.fits = fits]
Set_Weight(fits)      == Loading("REQ_SET_WEIGHT", fits)
Get_Weight            == Request("REQ_GET_WEIGHT", 0)
Set_Inertia(fits)     == Loading("REQ_SET_INERTIA", fits)
Set_Eccentricity(fits) == Loading("REQ_SET_INERTIA", fits)
Get_Inertia           == Request("REQ_GET_INERTIA", 0)
=================================================================================
