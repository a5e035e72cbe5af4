--------------------------------- MODULE Payload ---------------------------------
(***************************************************************************)
(* What a request and its answer say: the client puts the arguments of a    *)
(* call into the parameter and the extra data of a request with             *)
(* DataFormat, the controller answers, and the client accepts and reads the *)
(* answer.  With it goes the robot model whose limits the client looks up   *)
(* for Set_Weight and Set_Inertia.  The protocol of the controller is       *)
(* external: little-endian data at the places where the client puts and     *)
(* looks for them.  One call at a time runs (RTMCClient).                   *)
(*                                                                          *)
(*   host      the byte order of the PC                                      *)
(*   conn      the connection: "closed", "connecting" inside RTMC_Connect,   *)
(*             "open", or "half": RTMC_Connect failed and kept the object    *)
(*   rb_model  RBWeightInertiaParam::rb_model                                *)
(*   rcModel   the model that the controller was last asked to check         *)
(*   pc        "idle", "asked" or "answered"                                 *)
(*   call, request, told, answer, result   of the last call                  *)
(***************************************************************************)
EXTENDS DataFormat, RBWeightInertiaParam, FiniteSets

CONSTANTS Names,     \* the robot models that RBCheck is called with
          Numbers,   \* values of arguments and answers
          Loads,     \* weights and inertias
          NaN        \* a double that is not a number

ASSUME NaNAssumption    == NaN \notin Int /\ Loads \subseteq Int \union {NaN}
ASSUME NumbersAssumption == Numbers \subseteq 1 .. 65535

VARIABLES host, conn, rb_model, rcModel, pc, call, request, told, answer, result
vars == <<host, conn, rb_model, rcModel, pc, call, request, told, answer, result>>
client == <<host, rb_model>>

None == [cmd |-> "none"]
NameSize == 9     \* every string here has this size without its terminator
----------------------------------------------------------------------------------
(* The calls: a command and what the caller wants the controller to know. *)

Joined(base) == [i \in Joints |-> base + i]

ConnectCalls ==
  [REQ_CONNECT              |-> [cmd : {"REQ_CONNECT"}, text : Numbers],
   SYS_REQ_CURPOS_INFO      |-> [cmd : {"SYS_REQ_CURPOS_INFO"}],
   SYS_REQ_RC_STATUS        |-> [cmd : {"SYS_REQ_RC_STATUS"}],
   SYS_REQ_RC_ERRMSG        |-> [cmd : {"SYS_REQ_RC_ERRMSG"}, err_num : Numbers, wrn_num : Numbers],
   SYS_REQ_RTMC_FORMAT_INFO |-> [cmd : {"SYS_REQ_RTMC_FORMAT_INFO"}]]

(* RTMC_Connect; the message is asked for when a number is new (RCStatus). *)
ConnectFollows(cmd) ==
  CASE cmd = "REQ_CONNECT"         -> {"SYS_REQ_CURPOS_INFO"}
    [] cmd = "SYS_REQ_CURPOS_INFO" -> {"SYS_REQ_RC_STATUS"}
    [] cmd = "SYS_REQ_RC_STATUS"   -> {"SYS_REQ_RC_ERRMSG", "SYS_REQ_RTMC_FORMAT_INFO"}
    [] cmd = "SYS_REQ_RC_ERRMSG"   -> {"SYS_REQ_RTMC_FORMAT_INFO"}
    [] OTHER -> {}

BITRANGE == 0
BYTERANGE == 1
WORDRANGE == 2

Calls ==
  UNION {[cmd : {"REQ_EXEC_RTPOS"}, rtpos : {Joined(n) : n \in Numbers}, digitalOut : Numbers \union {0}],
         [cmd : {"REQ_GET_CURPOS_INFO", "REQ_GET_WEIGHT"}],
         ConnectCalls["SYS_REQ_RC_ERRMSG"],
         [cmd : {"REQ_SET_DO"}, range : {BITRANGE}, number : {0, 15}, data : {0, 1}],
         [cmd : {"REQ_SET_DO"}, range : {BYTERANGE}, number : {0, 1}, data : 0 .. 255 \intersect Numbers],
         [cmd : {"REQ_SET_DO"}, range : {WORDRANGE}, number : {0}, data : Numbers],
         [cmd : {"REQ_GET_DO"}, range : {BITRANGE}, number : {15}],
         [cmd : {"REQ_GET_DO", "REQ_GET_DI"}, range : {BYTERANGE, WORDRANGE}, number : {0}],
         [cmd : {"REQ_GET_DI"}, range : {BITRANGE}, number : {23}],
         [cmd : {"REQ_SET_WEIGHT"}, weight : Loads],
         [cmd : {"REQ_SET_INERTIA"}, inertia : Loads],
         [cmd : {"REQ_SET_INERTIA"}, inertia : Loads, eccentricity : {0, 150, 151, 301}],
         [cmd : {"REQ_GET_INERTIA"}, eccentric : BOOLEAN],
         [cmd : {"REQ_CHECK_ROBOTMODEL"}, text : Names],
         [cmd : {"REQ_GET_ROBOTMODEL"}]}
----------------------------------------------------------------------------------
(* The protocol (external): fields of the extra data, least significant byte first. *)

Field(at, size, value) == [at |-> at, size |-> size, value |-> value]
Wire(size, fields) ==
  [j \in Bytes(size) |->
     IF \E f \in fields : j - f.at \in Bytes(f.size)
     THEN LET f == CHOOSE f \in fields : j - f.at \in Bytes(f.size) IN <<f.value, j - f.at>>
     ELSE <<0, 0>>]
SixDoubles(base, joints) == {Field(base + 8 * i, Double, joints[i]) : i \in Joints}

Says(dword, size, fields) == [dword |-> dword, exData |-> Wire(size, fields)]
OneByte == {Field(0, Char, 0)}
DOSize(range) == IF range = WORDRANGE THEN Short ELSE Char

SaysByte(dword) == Says(dword, 1, OneByte)
SaysText(dword, c) == Says(dword, NameSize, {Field(0, NameSize, c.text)})
SaysPosition(c) == Says(0, 50, SixDoubles(0, c.rtpos) \union {Field(48, Short, c.digitalOut)})
SaysOutput(c) == Says(c.number + 256 * c.range, DOSize(c.range), {Field(0, DOSize(c.range), c.data)})
SaysPort(c) == SaysByte(c.number + 256 * c.range)
SaysWeight(c) == Says(0, 8, {Field(0, Double, c.weight)})
SaysInertia(c) ==
  IF "eccentricity" \in DOMAIN c
  THEN Says(1, 10, {Field(0, Double, c.inertia), Field(8, Short, c.eccentricity)})
  ELSE Says(0, 8, {Field(0, Double, c.inertia)})
SaysWanted(c) == SaysByte(IF c.eccentric THEN 1 ELSE 0)
SaysNumbers(c) == SaysByte(c.err_num + 65536 * c.wrn_num)

(* The request that says what this call wants. *)
Meant(c) ==
  CASE c.cmd = "REQ_CONNECT"          -> SaysText(1, c)
    [] c.cmd = "REQ_CHECK_ROBOTMODEL" -> SaysText(0, c)
    [] c.cmd = "REQ_EXEC_RTPOS"       -> SaysPosition(c)
    [] c.cmd = "REQ_SET_DO"           -> SaysOutput(c)
    [] c.cmd \in {"REQ_GET_DO", "REQ_GET_DI"} -> SaysPort(c)
    [] c.cmd = "REQ_SET_WEIGHT"       -> SaysWeight(c)
    [] c.cmd = "REQ_SET_INERTIA"      -> SaysInertia(c)
    [] c.cmd = "REQ_GET_INERTIA"      -> SaysWanted(c)
    [] c.cmd = "SYS_REQ_RC_ERRMSG"    -> SaysNumbers(c)
    [] c.cmd \in {"REQ_GET_WEIGHT", "REQ_GET_ROBOTMODEL", "REQ_GET_CURPOS_INFO"} -> SaysByte(0)
    [] OTHER -> Says(0, 0, {})
----------------------------------------------------------------------------------
(* The request that the client sends: the parameter and the extra data. *)

Command(low_word, hi_word, exData) == [dword |-> MAKEWORD(low_word, hi_word), exData |-> exData]

ConnectRequest(c)   == Command(1, 0, String2Uint8(c.text, NameSize, Zeros(NameSize), 0))
RBCheckRequest(c)   == Command(0, 0, String2Uint8(c.text, NameSize, Zeros(NameSize), 0))
ExecRequest(c)      == Command(0, 0, Rrdrtpos2Uint8(c.rtpos, Zeros(50), c.digitalOut, host))
DOAddress(c)        == MAKEUSHORT(c.number, c.range)
SetDORequest(c) ==
  Command(DOAddress(c), 0,
          IF c.range = WORDRANGE THEN Ushort2Uint8(c.data, Zeros(Short), 0, host)
          ELSE Memory(c.data, Char, host))
GetIORequest(c)     == Command(DOAddress(c), 0, Zeros(1))
WeightRequest(c)    == Command(0, 0, Double2Uint8(c.weight, Zeros(Double), 0, host))
InertiaRequest(c)   == Command(0, 0, Double2Uint8(c.inertia, Zeros(Double), 0, host))
EccentricityRequest(c) ==
  LET inertia == Double2Uint8(c.inertia, Zeros(Double + Short), 0, host)
  IN Command(1, 0, Ushort2Uint8(c.eccentricity, inertia, Double, host))
GetInertiaRequest(c) == Command(IF c.eccentric THEN 1 ELSE 0, 0, Zeros(1))
MessageRequest(c)   == Command(c.err_num, c.wrn_num, Zeros(1))

Request(c) ==
  CASE c.cmd = "REQ_CONNECT"          -> ConnectRequest(c)
    [] c.cmd = "REQ_CHECK_ROBOTMODEL" -> RBCheckRequest(c)
    [] c.cmd = "REQ_EXEC_RTPOS"       -> ExecRequest(c)
    [] c.cmd = "REQ_SET_DO"           -> SetDORequest(c)
    [] c.cmd \in {"REQ_GET_DO", "REQ_GET_DI"} -> GetIORequest(c)
    [] c.cmd = "REQ_SET_WEIGHT"       -> WeightRequest(c)
    [] c.cmd = "REQ_SET_INERTIA"      ->
         IF "eccentricity" \in DOMAIN c THEN EccentricityRequest(c) ELSE InertiaRequest(c)
    [] c.cmd = "REQ_GET_INERTIA"      -> GetInertiaRequest(c)
    [] c.cmd = "SYS_REQ_RC_ERRMSG"    -> MessageRequest(c)
    [] c.cmd \in {"REQ_GET_WEIGHT", "REQ_GET_ROBOTMODEL", "REQ_GET_CURPOS_INFO"} ->
         Command(0, 0, Zeros(1))
    [] OTHER -> Command(0, 0, Zeros(0))

(* Set_Weight and Set_Inertia: the argument is within the limits of rb_model. *)
(* A comparison with NaN is false.                                            *)
OutOfRange(load, max) == load # NaN /\ (load < 0 \/ load > max)

LoadInRange(c) ==
  /\ c.cmd = "REQ_SET_WEIGHT" =>
       CanExc_LoadParam(rb_model) /\ ~ OutOfRange(c.weight, Load_MaxWeight(rb_model))
  /\ c.cmd = "REQ_SET_INERTIA" =>
       /\ CanExc_LoadParam(rb_model) /\ ~ OutOfRange(c.inertia, Load_MaxInertia(rb_model))
       /\ "eccentricity" \in DOMAIN c => c.eccentricity <= Load_Eccentricity(rb_model)
----------------------------------------------------------------------------------
(* What the controller may tell, and how it writes it (external). *)

Positions == {Joined(n) : n \in Numbers}
Infos == {[i \in 0 .. 2 |-> 40 + i]}
Words == Numbers \union {0, 1, 256}

Tellings(c) ==
  CASE c.cmd = "REQ_EXEC_RTPOS" -> [bufstatus : {0, 1}, curpos : Positions, digitalIn : Words]
    [] c.cmd \in {"SYS_REQ_CURPOS_INFO", "REQ_GET_CURPOS_INFO"} -> Positions
    [] c.cmd = "SYS_REQ_RC_STATUS" ->
         [safeGuard : {0}, eStop : {1}, operation_mode : {2}, err_num : Numbers \union {0},
          wrn_num : Numbers \union {0}, err_info : Infos, wrn_info : {[i \in 0 .. 2 |-> 50 + i]}]
    [] c.cmd = "SYS_REQ_RC_ERRMSG" -> [wrn_msg : Numbers \union {NoText}, err_msg : Numbers \union {NoText}]
    [] c.cmd = "SYS_REQ_RTMC_FORMAT_INFO" -> [send : 0 .. 2, recv : 0 .. 2]
    [] c.cmd \in {"REQ_GET_DO", "REQ_GET_DI"} -> Words
    [] c.cmd = "REQ_GET_WEIGHT" -> Loads
    [] c.cmd = "REQ_GET_INERTIA" -> [inertia : Loads, eccentricity : Words]
    [] c.cmd = "REQ_GET_ROBOTMODEL" -> Names
    [] OTHER -> {0}

Message(at, text) ==
  {Field(at, Short, IF text = NoText THEN 0 ELSE NameSize + 1)} \union
  (IF text = NoText THEN {} ELSE {Field(at + 2, NameSize, text)})

Written(c, t) ==
  CASE c.cmd = "REQ_EXEC_RTPOS" ->
         Wire(64, SixDoubles(8, t.curpos) \union {Field(0, Char, t.bufstatus), Field(56, UInt, t.digitalIn)})
    [] c.cmd \in {"SYS_REQ_CURPOS_INFO", "REQ_GET_CURPOS_INFO"} -> Wire(48, SixDoubles(0, t))
    [] c.cmd = "SYS_REQ_RC_STATUS" ->
         Wire(32, {Field(0, Char, t.safeGuard), Field(1, Char, t.eStop),
                   Field(2, Short, t.operation_mode), Field(4, Short, t.err_num),
                   Field(6, Short, t.wrn_num)} \union
                  {Field(8 + 4 * i, UInt, t.err_info[i]) : i \in 0 .. 2} \union
                  {Field(20 + 4 * i, UInt, t.wrn_info[i]) : i \in 0 .. 2})
    [] c.cmd = "SYS_REQ_RC_ERRMSG" ->
         LET second == IF t.wrn_msg = NoText THEN 2 ELSE 2 + NameSize + 1
         IN Wire(second + 2 + NameSize + 1, Message(0, t.wrn_msg) \union Message(second, t.err_msg))
    [] c.cmd = "SYS_REQ_RTMC_FORMAT_INFO" -> Wire(2, {Field(0, Char, t.send), Field(1, Char, t.recv)})
    [] c.cmd \in {"REQ_GET_DO", "REQ_GET_DI"} -> Wire(2, {Field(0, Short, t)})
    [] c.cmd = "REQ_GET_WEIGHT" -> Wire(8, {Field(0, Double, t)})
    [] c.cmd = "REQ_GET_INERTIA" ->
         IF c.eccentric THEN Wire(16, {Field(0, Double, t.inertia), Field(8, Short, t.eccentricity)})
         ELSE Wire(8, {Field(0, Double, t.inertia)})
    [] c.cmd = "REQ_GET_ROBOTMODEL" -> Wire(NameSize + 1, {Field(0, NameSize, t)})
    [] OTHER -> Zeros(0)

(* An answer cut off or with bytes too many. *)
Truncated(exData, size) == [j \in Bytes(size) |-> IF j \in DOMAIN exData THEN exData[j] ELSE <<0, 0>>]

(* What the client may learn from it: no additional information of no error, *)
(* the inertia alone if the caller has no place for the eccentricity.        *)
Learnable(c, t) ==
  CASE c.cmd = "SYS_REQ_RC_STATUS" ->
         [t EXCEPT !.err_info = IF t.err_num = 0 THEN NoInfo ELSE @,
                   !.wrn_info = IF t.wrn_num = 0 THEN NoInfo ELSE @]
    [] c.cmd = "REQ_GET_INERTIA" /\ ~ c.eccentric -> t.inertia
    [] OTHER -> t
----------------------------------------------------------------------------------
(* The client reads an answer. *)

(* The size that the extra data must have; 0 for any (default).              *)
CorrectSize(c) ==
  CASE c.cmd = "SYS_REQ_RC_STATUS"        -> 32
    [] c.cmd = "SYS_REQ_CURPOS_INFO"      -> 48
    [] c.cmd = "SYS_REQ_RTMC_FORMAT_INFO" -> 2
    [] c.cmd = "REQ_EXEC_RTPOS"           -> 64
    [] c.cmd = "REQ_GET_CURPOS_INFO"      -> 48
    [] c.cmd \in {"REQ_GET_DO", "REQ_GET_DI"} -> 2
    [] c.cmd = "REQ_GET_WEIGHT"           -> 8
    [] c.cmd = "REQ_GET_INERTIA"          -> IF c.eccentric THEN 16 ELSE 8
    [] OTHER -> 0

Check_exDataSize(c, exData) ==
  LET correct_data_size == CorrectSize(c)
  IN correct_data_size # 0 => Cardinality(DOMAIN exData) = correct_data_size

(* A variant: the cached status is passed. *)
rc_status == [err_num |-> 7]

(* The structure that every caller of Uint82Rc_status passes, all zero. *)
temp_rc_status == [err_num |-> 0]

Read(c, exData) ==
  CASE c.cmd = "REQ_EXEC_RTPOS" -> Uint82Rrd_cur_pos(exData, host)
    [] c.cmd \in {"SYS_REQ_CURPOS_INFO", "REQ_GET_CURPOS_INFO"} -> CurrentJA(exData, host)
    [] c.cmd = "SYS_REQ_RC_STATUS" -> Uint82Rc_status(exData, temp_rc_status, host)
    [] c.cmd = "SYS_REQ_RC_ERRMSG" -> Uint82Rrd_ErrWrnMsg_Info(exData, host)
    [] c.cmd = "SYS_REQ_RTMC_FORMAT_INFO" -> [send |-> Uint8At(exData, 0), recv |-> Uint8At(exData, 1)]
    [] c.cmd \in {"REQ_GET_DO", "REQ_GET_DI"} -> Uint82Ushort(exData, 0, host)
    [] c.cmd = "REQ_GET_WEIGHT" -> Uint82Double(exData, 0, host)
    [] c.cmd = "REQ_GET_INERTIA" ->
         IF c.eccentric THEN [inertia |-> Uint82Double(exData, 0, host),
                              eccentricity |-> Uint82Ushort(exData, Double, host)]
         ELSE Uint82Double(exData, 0, host)
    [] c.cmd = "REQ_GET_ROBOTMODEL" ->
         Uint82String(exData, 0, Cardinality(DOMAIN exData) - 1)
    [] OTHER -> 0

(* The range checks of RTMC_Connect and of the getters of the standard I/O. *)
Defined(c, value) ==
  CASE c.cmd = "SYS_REQ_RTMC_FORMAT_INFO" -> value.send \in {0, 1} /\ value.recv \in {0, 1}
    [] c.cmd \in {"REQ_GET_DO", "REQ_GET_DI"} ->
         /\ c.range = BITRANGE  => value \in {0, 1}
         /\ c.range = BYTERANGE => value \in 0 .. 255
    [] OTHER -> TRUE
----------------------------------------------------------------------------------
Init ==
  /\ host \in Hosts /\ conn = "closed" /\ rb_model = NoModel /\ rcModel = NoModel
  /\ pc = "idle" /\ call = None /\ request = None /\ told = None /\ answer = None
  /\ result = None

Ask(c) ==
  /\ call' = c /\ request' = Request(c) /\ pc' = "asked"
  /\ told' = None /\ answer' = None /\ result' = None

(* The call returns an error: nothing is kept of it. *)
Fail ==
  /\ pc' = "idle" /\ call' = None /\ request' = None
  /\ told' = None /\ answer' = None /\ result' = None

(* A public function sends its request. *)
Call(c) ==
  /\ pc = "idle" /\ conn \in {"open", "half"} /\ LoadInRange(c)
  /\ c.cmd = "REQ_CHECK_ROBOTMODEL" => c.text \in rb_model_list
  /\ rb_model' = IF c.cmd = "REQ_CHECK_ROBOTMODEL" THEN Set_RBModel(rb_model, c.text) ELSE rb_model
  /\ Ask(c) /\ UNCHANGED <<host, conn, rcModel>>

(* RBCheck of a model that is not supported: CLIENT_ARG_ERR. *)
RBCheckRefused(name) ==
  /\ pc = "idle" /\ conn \in {"open", "half"} /\ name \notin rb_model_list
  /\ rb_model' = Set_RBModel(rb_model, name)
  /\ Fail /\ UNCHANGED <<host, conn, rcModel>>

RTMC_Connect(c) ==
  /\ pc = "idle" /\ conn = "closed" /\ conn' = "connecting"
  /\ Ask(c) /\ UNCHANGED <<client, rcModel>>

RTMC_DisConnect ==
  /\ pc = "idle" /\ conn \in {"open", "half"} /\ conn' = "closed"
  /\ Fail /\ UNCHANGED <<client, rcModel>>

(* The next request of RTMC_Connect, after one that has succeeded. *)
Continue(c) ==
  /\ pc = "idle" /\ conn = "connecting" /\ c.cmd \in ConnectFollows(call.cmd)
  /\ Ask(c) /\ UNCHANGED <<client, conn, rcModel>>

(* No answer (a lost request or answer, a lost connection): DisconnectRC. *)
Unanswered ==
  /\ pc = "asked" /\ conn' = "closed" /\ Fail
  /\ UNCHANGED <<client, rcModel>>

RCHears == rcModel' = IF call.cmd = "REQ_CHECK_ROBOTMODEL"
                      THEN Uint82String(request.exData, 0, NameSize) ELSE rcModel

(* The controller hears the request and the answer is lost. *)
AnswerLost ==
  /\ pc = "asked" /\ RCHears /\ conn' = "closed" /\ Fail
  /\ UNCHANGED client

(* The controller answers, as a rule with the size that belongs to the command. *)
RCAnswers(t, size) ==
  /\ pc = "asked" /\ RCHears /\ pc' = "answered" /\ told' = t
  /\ answer' = LET exData == Written(call, t)
               IN [dword |-> 65536,
                   exData |-> IF CorrectSize(call) = 0 THEN exData ELSE Truncated(exData, size)]
  /\ UNCHANGED <<client, conn, call, request, result>>

RCRefuses ==
  /\ pc = "asked" /\ RCHears /\ pc' = "answered"
  /\ answer' = [dword |-> 5, exData |-> Zeros(0)]
  /\ UNCHANGED <<client, conn, call, request, told, result>>

Succeeds == HIWORD(answer.dword) # 0 /\ Check_exDataSize(call, answer.exData)
            /\ Defined(call, Read(call, answer.exData))

(* A variant: RTMC_Connect keeps the robot model of the connection before. *)
EstablishedModel == UNCHANGED rb_model

(* RTMC_Connect ends with the answer about the formats: Reset_RBModel. *)
Established == rb_model' = NoModel

(* The answer is accepted and read. *)
Accept ==
  /\ pc = "answered" /\ Succeeds /\ pc' = "idle"
  /\ result' = [value |-> Read(call, answer.exData)]
  /\ IF call.cmd = "SYS_REQ_RTMC_FORMAT_INFO" THEN conn' = "open" /\ Established
     ELSE UNCHANGED <<conn, rb_model>>
  /\ UNCHANGED <<host, rcModel, call, request, told, answer>>

(* CLIENT_UNDEF_ERR for a wrong size or an undefined value: DisconnectRC. *)
Reject ==
  /\ pc = "answered" /\ HIWORD(answer.dword) # 0 /\ ~ Succeeds
  /\ conn' = "closed" /\ Fail /\ UNCHANGED <<client, rcModel>>

(* A refused request ends RTMC_Connect, but for the error message (line 376) *)
(* with the object kept; elsewhere some refusals end the connection.         *)
Refused ==
  /\ pc = "answered" /\ HIWORD(answer.dword) = 0 /\ Fail
  /\ conn' \in IF conn = "connecting"
                THEN {IF call.cmd = "SYS_REQ_RC_ERRMSG" THEN "half" ELSE "closed"}
                ELSE {conn, "closed"}
  /\ UNCHANGED <<client, rcModel>>

AnswerSizes == {0, 2, 7, 8, 9, 10, 16, 32, 47, 48, 63, 64}

Next ==
  \/ \E c \in Calls : Call(c)
  \/ \E name \in Names : RBCheckRefused(name)
  \/ \E c \in ConnectCalls.REQ_CONNECT : RTMC_Connect(c)
  \/ \E cmd \in DOMAIN ConnectCalls : \E c \in ConnectCalls[cmd] : Continue(c)
  \/ RTMC_DisConnect \/ Unanswered \/ AnswerLost
  \/ pc = "asked" /\ \E t \in Tellings(call), size \in AnswerSizes : RCAnswers(t, size)
  \/ RCRefuses \/ Accept \/ Reject \/ Refused

Spec == Init /\ [][Next]_vars
----------------------------------------------------------------------------------
(* Every variable keeps its type (Payload's use of RBWeightInertiaParam). *)
TypeOK ==
  /\ host \in Hosts /\ conn \in {"closed", "connecting", "open", "half"}
  /\ pc \in {"idle", "asked", "answered"}
  /\ rb_model \in rb_model_list \union {NoModel} /\ rcModel \in rb_model_list \union {NoModel}

(* The request says to the controller what the caller gave, whatever the     *)
(* byte order of the PC: the parameter, every number and every offset        *)
(* (Double2Uint8, Ushort2Uint8, Rrdrtpos2Uint8, String2Uint8, MAKEWORD,      *)
(* MAKEUSHORT).                                                              *)
Heard == pc = "asked" => request = Meant(call)

(* What a successful call returns is what the controller told, whatever the  *)
(* byte order of the PC and the size of the answer: a decoder never reads    *)
(* beyond an answer that Check_exDataSize lets pass, nor mistakes a field.   *)
Understood == pc = "idle" /\ result # None => result.value = Learnable(call, told)

(* On a connection that RTMC_Connect has reported, a load that reaches the   *)
(* controller is within the limits of the model that the controller was last *)
(* asked to check - across requests that were lost and connections made      *)
(* again - unless it is not a number, which the checks of Set_Weight and     *)
(* Set_Inertia let pass.                                                     *)
LoadWithinLimits ==
  pc = "asked" /\ conn = "open" =>
    LET Load  == Uint82Double(request.exData, 0, "little")
        Within(max) == Load = NaN \/ (Load >= 0 /\ Load <= max)
    IN /\ call.cmd = "REQ_SET_WEIGHT"  => Within(Load_MaxWeight(rcModel))
       /\ call.cmd = "REQ_SET_INERTIA" =>
            /\ Within(Load_MaxInertia(rcModel))
            /\ LOWORD(request.dword) = 1 =>
                 Uint82Ushort(request.exData, Double, "little") <= Load_Eccentricity(rcModel)
=================================================================================
