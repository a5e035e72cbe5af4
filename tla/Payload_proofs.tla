----------------------------- MODULE Payload_proofs -----------------------------
(***************************************************************************)
(* Theorems of DataFormat, RBWeightInertiaParam and Payload.                *)
(***************************************************************************)
EXTENDS Payload, TLAPS

(* The same bytes are written on every host.  The numbers of the converter   *)
(* have sizes of 2, 4 and 8 bytes; the lemma holds for every size.           *)
LEMMA Writing ==
  ASSUME NEW value, NEW size \in Nat \ {0}, NEW index \in Nat, NEW exdata, NEW host0 \in Hosts
  PROVE  Number2Uint8(value, size, exdata, index, host0)
           = Copied(Memory(value, size, "little"), size, exdata, index)
<1>1. CASE host0 = "little"
  BY <1>1 DEF Number2Uint8, LittleEndian, Memory, Bytes, Short
<1>2. CASE host0 = "big"
  <2>1. ~ LittleEndian(host0)
    BY <1>2 DEF LittleEndian, Memory, Bytes, Short
  <2>2. \A k \in Bytes(size) :
          Memory(value, size, "big")[size - 1 - k] = Memory(value, size, "little")[k]
    BY DEF Memory, Bytes
  <2>3. ASSUME NEW j \in DOMAIN exdata
        PROVE  (IF j - index \in Bytes(size)
                THEN Memory(value, size, "big")[size - 1 - (j - index)] ELSE exdata[j])
             = (IF j - index \in Bytes(size)
                THEN Memory(value, size, "little")[j - index] ELSE exdata[j])
    BY <2>2
  <2>4. ChangeEndian_B2L(Memory(value, size, "big"), exdata, size, index)
          = Copied(Memory(value, size, "little"), size, exdata, index)
    BY <2>3 DEF ChangeEndian_B2L, Copied
  <2> QED BY <1>2, <2>1, <2>4 DEF Number2Uint8
<1> QED BY <1>1, <1>2 DEF Hosts

(* The bytes of a value, wherever they are in a vector, are read as it.       *)
LEMMA Reading ==
  ASSUME NEW value, NEW size \in Nat \ {0}, NEW index \in Nat, NEW exdata, NEW host0 \in Hosts,
         Part(exdata, size, index) = Memory(value, size, "little")
  PROVE  Uint82Number(exdata, size, index, host0) = value
<1>1. CASE host0 = "little"
  <2>1. Uint82Number(exdata, size, index, host0) = Seen(Memory(value, size, "little"), size, "little")
    BY <1>1 DEF Uint82Number, LittleEndian, Memory, Bytes, Short
  <2>2. Memory(value, size, "little")[0][1] = value
    BY DEF Memory, Bytes
  <2> QED BY <2>1, <2>2 DEF Seen
<1>2. CASE host0 = "big"
  <2>1. ~ LittleEndian(host0)
    BY <1>2 DEF LittleEndian, Memory, Bytes, Short
  <2>2. \A k \in Bytes(size) :
          Memory(value, size, "little")[size - 1 - k] = Memory(value, size, "big")[k]
    BY DEF Memory, Bytes
  <2>3. ChangeEndian_L2B(exdata, Zeros(size), size, index)
          = [j \in Bytes(size) |-> Memory(value, size, "little")[size - 1 - j]]
    BY DEF ChangeEndian_L2B, Zeros
  <2>4. [j \in Bytes(size) |-> Memory(value, size, "little")[size - 1 - j]]
          = Memory(value, size, "big")
    BY <2>2 DEF Memory
  <2>5. Memory(value, size, "big")[0][1] = value
    BY DEF Memory, Bytes
  <2> QED BY <1>2, <2>1, <2>3, <2>4, <2>5 DEF Uint82Number, Seen
<1> QED BY <1>1, <1>2 DEF Hosts

(* What one host has written into a vector with room for it, any host reads.  *)
THEOREM RoundTrip ==
  ASSUME NEW value, NEW size \in Nat \ {0}, NEW index \in Nat, NEW exdata,
         NEW writer \in Hosts, NEW reader \in Hosts,
         \A i \in Bytes(size) : index + i \in DOMAIN exdata
  PROVE  Uint82Number(Number2Uint8(value, size, exdata, index, writer), size, index, reader) = value
<1> DEFINE wire == Copied(Memory(value, size, "little"), size, exdata, index)
<1>1. Number2Uint8(value, size, exdata, index, writer) = wire
  BY Writing
<1>2. ASSUME NEW i \in Bytes(size)
      PROVE  /\ index + i \in DOMAIN wire
             /\ wire[index + i] = Memory(value, size, "little")[i]
  <2>1. (index + i) - index = i
    BY DEF Bytes
  <2> QED BY <2>1 DEF Copied
<1>3. Part(wire, size, index) = [i \in Bytes(size) |-> Memory(value, size, "little")[i]]
  BY <1>2 DEF Part
<1>4. Part(wire, size, index) = Memory(value, size, "little")
  BY <1>3 DEF Memory
<1> QED BY <1>1, <1>4, Reading

(* Every supported model has an entry in the three tables of limits, so that  *)
(* operator[] never makes up a limit of 0 (rb_weight_inertia_param.h).         *)
THEOREM LimitsExist ==
  \A m \in rb_model_list :
    /\ Get_SpecificRBModelName(m) \in DOMAIN RB_Maxweight_List
    /\ Get_SpecificRBModelName(m) \in DOMAIN RB_Maxinertia_List
    /\ Get_SpecificRBModelName(m) \in DOMAIN RB_Eccentricity_List
<1> DEFINE Families == {"GX4", "GX8", "RS4", "RS6", "C8", "C12", "CX4", "CX7"}
<1>1. \A m \in rb_model_list : m[1] \in Families
  BY DEF rb_model_list, Named
<1>2. DOMAIN RB_Maxweight_List = Families
  BY DEF RB_Maxweight_List
<1>3. DOMAIN RB_Maxinertia_List = Families
  BY DEF RB_Maxinertia_List
<1>4. DOMAIN RB_Eccentricity_List = Families
  BY DEF RB_Eccentricity_List
<1> QED BY <1>1, <1>2, <1>3, <1>4 DEF Get_SpecificRBModelName
----------------------------------------------------------------------------------
(* A number keeps its bytes when another one is written behind it. *)
LEMMA Beside ==
  ASSUME NEW value, NEW size \in Nat \ {0}, NEW exdata, NEW host0 \in Hosts, NEW reader \in Hosts,
         NEW second, NEW room \in Nat \ {0},
         DOMAIN exdata = Bytes(size + room)
  PROVE  LET first == Number2Uint8(value, size, exdata, 0, host0)
             both  == Number2Uint8(second, room, first, size, host0)
         IN Uint82Number(both, size, 0, reader) = value /\ Uint82Number(both, room, size, reader) = second
<1> DEFINE first == Number2Uint8(value, size, exdata, 0, host0)
           both  == Number2Uint8(second, room, first, size, host0)
           wire  == Copied(Memory(value, size, "little"), size, exdata, 0)
<1>1. first = wire
  BY Writing
<1>2. DOMAIN first = Bytes(size + room)
  BY <1>1 DEF Copied
<1>3. Uint82Number(both, room, size, reader) = second
  <2>1. \A i \in Bytes(room) : size + i \in DOMAIN first
    BY <1>2 DEF Bytes
  <2> HIDE DEF first
  <2> QED BY <2>1, RoundTrip
<1>4. both = Copied(Memory(second, room, "little"), room, first, size)
  <2> HIDE DEF first
  <2> QED BY Writing
<1>5. ASSUME NEW i \in Bytes(size)
      PROVE  0 + i \in DOMAIN both /\ both[0 + i] = Memory(value, size, "little")[i]
  <2>1. /\ 0 + i \in Bytes(size + room)
        /\ (0 + i) - size \notin Bytes(room)
        /\ (0 + i) - 0 = i
    BY DEF Bytes
  <2>2. 0 + i \in DOMAIN both /\ both[0 + i] = first[0 + i]
    BY <1>2, <1>4, <2>1 DEF Copied
  <2>3. first[0 + i] = Memory(value, size, "little")[i]
    BY <1>1, <2>1 DEF Copied
  <2> QED BY <2>2, <2>3
<1>6. Part(both, size, 0) = [i \in Bytes(size) |-> Memory(value, size, "little")[i]]
  BY <1>5 DEF Part
<1>7. Part(both, size, 0) = Memory(value, size, "little")
  BY <1>6 DEF Memory
<1>8. Uint82Number(both, size, 0, reader) = value
  <2> HIDE DEF both
  <2> QED BY <1>7, Reading
<1> QED BY <1>3, <1>8

(* A string is read as it was written. *)
LEMMA Texts ==
  ASSUME NEW text, NEW size \in Nat \ {0}
  PROVE  Uint82String(String2Uint8(text, size, Zeros(size), 0), 0, size) = text
<1> DEFINE wire == String2Uint8(text, size, Zeros(size), 0)
<1>1. ASSUME NEW i \in Bytes(size)
      PROVE  0 + i \in DOMAIN wire /\ wire[0 + i] = Memory(text, size, "little")[i]
  <2>1. 0 + i \in Bytes(size) /\ (0 + i) - 0 = i
    BY DEF Bytes
  <2> QED BY <2>1 DEF String2Uint8, Copied, Zeros
<1>2. Part(wire, size, 0) = [i \in Bytes(size) |-> Memory(text, size, "little")[i]]
  BY <1>1 DEF Part
<1>3. Part(wire, size, 0) = Memory(text, size, "little")
  BY <1>2 DEF Memory
<1>4. Memory(text, size, "little")[0][1] = text
  BY DEF Memory, Bytes
<1>5. Seen(Part(wire, size, 0), size, "little") = text
  BY <1>3, <1>4 DEF Seen
<1>6. Uint82String(wire, 0, size) = text
  <2> HIDE DEF wire
  <2> QED BY <1>5 DEF Uint82String
<1> QED BY <1>6
----------------------------------------------------------------------------------
(* What the controller is told with the request under way: the argument has  *)
(* its type, keeps the limits of rb_model, and is in the request.             *)
Typed(c) ==
  /\ c.cmd = "REQ_SET_WEIGHT" => c.weight \in Loads
  /\ c.cmd = "REQ_SET_INERTIA" =>
       c.inertia \in Loads /\ ("eccentricity" \in DOMAIN c => c.eccentricity \in Nat)
  /\ c.cmd = "REQ_CHECK_ROBOTMODEL" => c.text \in rb_model_list

Underway ==
  pc = "asked" => request = Request(call) /\ Typed(call) /\ LoadInRange(call)

(* On an established connection rb_model is unset or the controller's last   *)
(* checked model, but while the request to check it is under way.             *)
Checks == pc = "asked" /\ call.cmd = "REQ_CHECK_ROBOTMODEL"
ModelKnown ==
  conn = "open" => IF Checks THEN rb_model = call.text ELSE rb_model \in {NoModel, rcModel}

LoadInv == TypeOK /\ Underway /\ ModelKnown

LEMMA NoModelUnlisted == NoModel \notin rb_model_list
  BY DEF NoModel, rb_model_list, Named

(* The requests that bear on the robot model and the loads. *)
LEMMA CheckRequest ==
  ASSUME NEW c, c.cmd = "REQ_CHECK_ROBOTMODEL"
  PROVE  Uint82String(Request(c).exData, 0, NameSize) = c.text
<1>1. Request(c) = RBCheckRequest(c)
  BY Zenon DEF Request
<1>2. NameSize \in Nat \ {0}
  BY DEF NameSize
<1>3. Uint82String(String2Uint8(c.text, NameSize, Zeros(NameSize), 0), 0, NameSize) = c.text
  BY <1>2, Texts
<1> QED BY <1>1, <1>3 DEF RBCheckRequest, Command

LEMMA WeightInRequest ==
  ASSUME NEW c, c.cmd = "REQ_SET_WEIGHT", host \in Hosts
  PROVE  Uint82Double(Request(c).exData, 0, "little") = c.weight
<1>1. Request(c) = WeightRequest(c)
  BY Zenon DEF Request
<1>2. \A i \in Bytes(Double) : 0 + i \in DOMAIN Zeros(Double)
  BY DEF Bytes, Zeros, Double
<1>3. Double \in Nat \ {0} /\ "little" \in Hosts /\ 0 \in Nat
  BY DEF Double, Hosts
<1>4. Uint82Number(Number2Uint8(c.weight, Double, Zeros(Double), 0, host), Double, 0, "little") = c.weight
  BY <1>2, <1>3, RoundTrip
<1> QED BY <1>1, <1>4 DEF WeightRequest, Command, Double2Uint8, Uint82Double

LEMMA InertiaInRequest ==
  ASSUME NEW c, c.cmd = "REQ_SET_INERTIA", host \in Hosts
  PROVE  /\ Uint82Double(Request(c).exData, 0, "little") = c.inertia
         /\ LOWORD(Request(c).dword) = 1 =>
              /\ "eccentricity" \in DOMAIN c
              /\ Uint82Ushort(Request(c).exData, Double, "little") = c.eccentricity
<1>1. Double \in Nat \ {0} /\ Short \in Nat \ {0} /\ "little" \in Hosts /\ 0 \in Nat
  BY DEF Double, Short, Hosts
<1>2. CASE "eccentricity" \in DOMAIN c
  <2>1. Request(c) = EccentricityRequest(c)
    BY <1>2, Zenon DEF Request
  <2>2. DOMAIN Zeros(Double + Short) = Bytes(Double + Short)
    BY DEF Zeros
  <2>3. Request(c).exData
          = Number2Uint8(c.eccentricity, Short,
                         Number2Uint8(c.inertia, Double, Zeros(Double + Short), 0, host), Double, host)
    BY <2>1 DEF EccentricityRequest, Command, Double2Uint8, Ushort2Uint8
  <2>4. /\ Uint82Number(Request(c).exData, Double, 0, "little") = c.inertia
        /\ Uint82Number(Request(c).exData, Short, Double, "little") = c.eccentricity
    BY <1>1, <2>2, <2>3, Beside
  <2> QED BY <1>2, <2>4 DEF Uint82Double, Uint82Ushort
<1>3. CASE "eccentricity" \notin DOMAIN c
  <2>1. Request(c) = InertiaRequest(c)
    BY <1>3, Zenon DEF Request
  <2>2. LOWORD(Request(c).dword) # 1
    BY <2>1 DEF InertiaRequest, Command, MAKEWORD, LOWORD
  <2>3. \A i \in Bytes(Double) : 0 + i \in DOMAIN Zeros(Double)
    BY DEF Bytes, Zeros, Double
  <2>4. Uint82Number(Number2Uint8(c.inertia, Double, Zeros(Double), 0, host), Double, 0, "little") = c.inertia
    BY <1>1, <2>3, RoundTrip
  <2> QED BY <2>1, <2>2, <2>4 DEF InertiaRequest, Command, Double2Uint8, Uint82Double
<1> QED BY <1>2, <1>3

(* The limits, when they exist, are numbers. *)
LEMMA LimitsAreNumbers ==
  \A m \in rb_model_list : /\ Load_MaxWeight(m) \in Nat /\ Load_MaxInertia(m) \in Nat
                           /\ Load_Eccentricity(m) \in Nat
  BY LimitsExist DEF Load_MaxWeight, Load_MaxInertia, Load_Eccentricity, Loaded,
     RB_Maxweight_List, RB_Maxinertia_List, RB_Eccentricity_List, Get_SpecificRBModelName

LEMMA LoadFollows == LoadInv => LoadWithinLimits
<1> SUFFICES ASSUME LoadInv, pc = "asked", conn = "open",
                    call.cmd \in {"REQ_SET_WEIGHT", "REQ_SET_INERTIA"}
             PROVE  LoadWithinLimits
  BY DEF LoadWithinLimits
<1>1. /\ request = Request(call) /\ host \in Hosts
      /\ Typed(call) /\ LoadInRange(call)
  BY DEF LoadInv, Underway, TypeOK
<1>2. rb_model \in rb_model_list
  BY <1>1 DEF LoadInRange, CanExc_LoadParam
<1>3. rcModel = rb_model
  BY <1>2, NoModelUnlisted DEF LoadInv, ModelKnown, Checks
<1>4. /\ Load_MaxWeight(rcModel) \in Nat /\ Load_MaxInertia(rcModel) \in Nat
      /\ Load_Eccentricity(rcModel) \in Nat
  BY <1>2, <1>3, LimitsAreNumbers
<1>5. CASE call.cmd = "REQ_SET_WEIGHT"
  <2>1. Uint82Double(request.exData, 0, "little") = call.weight
    BY <1>1, <1>5, WeightInRequest
  <2>2. call.weight \in Int \union {NaN} /\ ~ OutOfRange(call.weight, Load_MaxWeight(rcModel))
    BY <1>1, <1>3, <1>5, NaNAssumption DEF Typed, LoadInRange
  <2>3. call.weight = NaN \/ (call.weight >= 0 /\ call.weight <= Load_MaxWeight(rcModel))
    BY <1>4, <2>2 DEF OutOfRange
  <2> QED BY <1>5, <2>1, <2>3 DEF LoadWithinLimits
<1>6. CASE call.cmd = "REQ_SET_INERTIA"
  <2>1. /\ Uint82Double(request.exData, 0, "little") = call.inertia
        /\ LOWORD(request.dword) = 1 =>
             /\ "eccentricity" \in DOMAIN call
             /\ Uint82Ushort(request.exData, Double, "little") = call.eccentricity
    BY <1>1, <1>6, InertiaInRequest
  <2>2. /\ call.inertia \in Int \union {NaN} /\ ~ OutOfRange(call.inertia, Load_MaxInertia(rcModel))
        /\ "eccentricity" \in DOMAIN call => call.eccentricity <= Load_Eccentricity(rcModel)
    BY <1>1, <1>3, <1>6, NaNAssumption DEF Typed, LoadInRange
  <2>3. call.inertia = NaN \/ (call.inertia >= 0 /\ call.inertia <= Load_MaxInertia(rcModel))
    BY <1>4, <2>2 DEF OutOfRange
  <2> QED BY <1>6, <2>1, <2>2, <2>3 DEF LoadWithinLimits
<1> QED BY <1>5, <1>6
----------------------------------------------------------------------------------
LEMMA CallTypes ==
  ASSUME NEW c \in Calls
  PROVE  /\ c.cmd = "REQ_SET_WEIGHT" => c.weight \in Loads
         /\ c.cmd = "REQ_SET_INERTIA" =>
              c.inertia \in Loads /\ ("eccentricity" \in DOMAIN c => c.eccentricity \in Nat)
<1>1. CASE c \in [cmd : {"REQ_SET_WEIGHT"}, weight : Loads]
  BY <1>1
<1>2. CASE c \in [cmd : {"REQ_SET_INERTIA"}, inertia : Loads]
  BY <1>2
<1>3. CASE c \in [cmd : {"REQ_SET_INERTIA"}, inertia : Loads, eccentricity : {0, 150, 151, 301}]
  BY <1>3
<1>4. CASE /\ c \notin [cmd : {"REQ_SET_WEIGHT"}, weight : Loads]
           /\ c \notin [cmd : {"REQ_SET_INERTIA"}, inertia : Loads]
           /\ c \notin [cmd : {"REQ_SET_INERTIA"}, inertia : Loads, eccentricity : {0, 150, 151, 301}]
  <2>1. c.cmd \notin {"REQ_SET_WEIGHT", "REQ_SET_INERTIA"}
    BY <1>4 DEF Calls, ConnectCalls
  <2> QED BY <2>1
<1> QED BY <1>1, <1>2, <1>3, <1>4

LEMMA ConnectCommands ==
  ASSUME NEW cmd \in DOMAIN ConnectCalls, NEW c \in ConnectCalls[cmd]
  PROVE  /\ c.cmd = cmd
         /\ cmd \in {"REQ_CONNECT", "SYS_REQ_CURPOS_INFO", "SYS_REQ_RC_STATUS", "SYS_REQ_RC_ERRMSG",
                     "SYS_REQ_RTMC_FORMAT_INFO"}
<1>1. CASE cmd = "REQ_CONNECT"              BY <1>1 DEF ConnectCalls
<1>2. CASE cmd = "SYS_REQ_CURPOS_INFO"      BY <1>2 DEF ConnectCalls
<1>3. CASE cmd = "SYS_REQ_RC_STATUS"        BY <1>3 DEF ConnectCalls
<1>4. CASE cmd = "SYS_REQ_RC_ERRMSG"        BY <1>4 DEF ConnectCalls
<1>5. CASE cmd = "SYS_REQ_RTMC_FORMAT_INFO" BY <1>5 DEF ConnectCalls
<1> QED BY <1>1, <1>2, <1>3, <1>4, <1>5 DEF ConnectCalls

LEMMA ConnectTypes ==
  ASSUME NEW cmd \in DOMAIN ConnectCalls, NEW c \in ConnectCalls[cmd]
  PROVE  c.cmd \notin {"REQ_SET_WEIGHT", "REQ_SET_INERTIA", "REQ_CHECK_ROBOTMODEL"}
  BY ConnectCommands

LEMMA CallCommands ==
  \A c \in Calls :
    c.cmd \in {"REQ_EXEC_RTPOS", "REQ_GET_CURPOS_INFO", "REQ_GET_WEIGHT", "SYS_REQ_RC_ERRMSG",
               "REQ_SET_DO", "REQ_GET_DO", "REQ_GET_DI", "REQ_SET_WEIGHT", "REQ_SET_INERTIA",
               "REQ_GET_INERTIA", "REQ_CHECK_ROBOTMODEL", "REQ_GET_ROBOTMODEL"}
  BY DEF Calls, ConnectCalls

LEMMA LoadInit == Init => LoadInv
  BY DEF Init, LoadInv, TypeOK, Underway, ModelKnown, Checks

(* The request depends on the call and the byte order alone. *)
LEMMA RequestOf ==
  ASSUME NEW c, call' = c, host' = host
  PROVE  Request(call)' = Request(c)
  BY Zenon DEF Request, ConnectRequest, RBCheckRequest, ExecRequest, SetDORequest, DOAddress,
     GetIORequest, WeightRequest, InertiaRequest, EccentricityRequest, GetInertiaRequest,
     MessageRequest

LEMMA AskOther ==
  ASSUME LoadInv, NEW c, Ask(c), UNCHANGED <<host, rb_model, rcModel>>, conn' \in {"closed", "connecting", "half"},
         c.cmd \notin {"REQ_SET_WEIGHT", "REQ_SET_INERTIA", "REQ_CHECK_ROBOTMODEL"}
  PROVE  LoadInv'
<1>1. request' = Request(call)'
  BY RequestOf DEF Ask
<1>2. Typed(call)' /\ LoadInRange(call)'
  BY DEF Ask, Typed, LoadInRange
<1> QED BY <1>1, <1>2 DEF LoadInv, TypeOK, Underway, ModelKnown, Ask

LEMMA LoadStep == LoadInv /\ [Next]_vars => LoadInv'
<1> SUFFICES ASSUME LoadInv, [Next]_vars PROVE LoadInv'
  OBVIOUS
<1>1. ASSUME NEW c \in Calls, Call(c) PROVE LoadInv'
  <2>1. /\ call' = c /\ request' = Request(c) /\ pc' = "asked" /\ pc = "idle"
        /\ UNCHANGED <<host, conn, rcModel>> /\ LoadInRange(c)
        /\ c.cmd = "REQ_CHECK_ROBOTMODEL" => c.text \in rb_model_list
        /\ rb_model' = IF c.cmd = "REQ_CHECK_ROBOTMODEL" THEN Set_RBModel(rb_model, c.text) ELSE rb_model
    BY <1>1 DEF Call, Ask
  <2>2. request' = Request(call)'
    BY <2>1, RequestOf
  <2>3. Typed(call)'
    BY <2>1, CallTypes DEF Typed
  <2>4. LoadInRange(call)'
    BY <2>1 DEF LoadInRange
  <2>5. TypeOK'
    BY <2>1 DEF LoadInv, TypeOK, Set_RBModel
  <2>6. ModelKnown'
    BY <2>1 DEF LoadInv, ModelKnown, Checks, Set_RBModel
  <2> QED BY <2>1, <2>2, <2>3, <2>4, <2>5, <2>6 DEF LoadInv, Underway
<1>2. ASSUME NEW name \in Names, RBCheckRefused(name) PROVE LoadInv'
  BY <1>2 DEF RBCheckRefused, Fail, Set_RBModel, LoadInv, TypeOK, Underway, ModelKnown, Checks
<1>3. ASSUME NEW c \in ConnectCalls.REQ_CONNECT, RTMC_Connect(c) PROVE LoadInv'
  <2>1. c \in ConnectCalls["REQ_CONNECT"] /\ "REQ_CONNECT" \in DOMAIN ConnectCalls
    BY DEF ConnectCalls
  <2>2. c.cmd \notin {"REQ_SET_WEIGHT", "REQ_SET_INERTIA", "REQ_CHECK_ROBOTMODEL"}
    BY <2>1, ConnectTypes
  <2> QED BY <1>3, <2>2, AskOther DEF RTMC_Connect, client
<1>4. ASSUME NEW cmd \in DOMAIN ConnectCalls, NEW c \in ConnectCalls[cmd], Continue(c) PROVE LoadInv'
  <2>1. c.cmd \notin {"REQ_SET_WEIGHT", "REQ_SET_INERTIA", "REQ_CHECK_ROBOTMODEL"}
    BY ConnectTypes
  <2> QED BY <1>4, <2>1, AskOther DEF Continue, client
<1>5. CASE RTMC_DisConnect
  BY <1>5 DEF RTMC_DisConnect, Fail, client, LoadInv, TypeOK, Underway, ModelKnown
<1>6. CASE Unanswered
  BY <1>6 DEF Unanswered, Fail, client, LoadInv, TypeOK, Underway, ModelKnown
<1>7. ASSUME pc = "asked", RCHears
      PROVE  /\ rcModel' = IF call.cmd = "REQ_CHECK_ROBOTMODEL" THEN call.text ELSE rcModel
             /\ rcModel' \in rb_model_list \union {NoModel}
  BY <1>7, CheckRequest DEF RCHears, LoadInv, TypeOK, Underway, Typed
<1>8. CASE AnswerLost
  BY <1>7, <1>8 DEF AnswerLost, Fail, client, LoadInv, TypeOK, Underway, ModelKnown
<1>9. ASSUME pc = "asked", RCHears, pc' = "answered", UNCHANGED <<client, conn, call>> PROVE LoadInv'
  BY <1>7, <1>9 DEF client, LoadInv, TypeOK, Underway, ModelKnown, Checks
<1>10. ASSUME NEW t, NEW size, RCAnswers(t, size) PROVE LoadInv'
  BY <1>9, <1>10 DEF RCAnswers
<1>11. CASE RCRefuses
  BY <1>9, <1>11 DEF RCRefuses
<1>12. CASE Accept
  BY <1>12 DEF Accept, Established, LoadInv, TypeOK, Underway, ModelKnown, Checks
<1>13. CASE Reject
  BY <1>13 DEF Reject, Fail, client, LoadInv, TypeOK, Underway, ModelKnown
<1>14. CASE Refused
  BY <1>14 DEF Refused, Fail, client, LoadInv, TypeOK, Underway, ModelKnown, Checks
<1>15. CASE UNCHANGED vars
  <2>1. Request(call)' = Request(call)
    BY <1>15, RequestOf DEF vars
  <2>2. TypeOK' /\ ModelKnown'
    BY <1>15 DEF vars, LoadInv, TypeOK, ModelKnown, Checks
  <2>3. Underway'
    BY <1>15, <2>1 DEF vars, LoadInv, Underway, Typed, LoadInRange
  <2> QED BY <2>2, <2>3 DEF LoadInv
<1> QED BY <1>1, <1>2, <1>3, <1>4, <1>5, <1>6, <1>8, <1>10, <1>11, <1>12, <1>13, <1>14, <1>15 DEF Next

(* The variables keep their types. *)
THEOREM TypeCorrect == Spec => []TypeOK
<1>1. LoadInv => TypeOK
  BY DEF LoadInv
<1> QED BY <1>1, LoadInit, LoadStep, PTL DEF Spec

(* A load on the wire of an established connection keeps the limits of the   *)
(* model that the controller was last asked to check, for any models, loads  *)
(* and byte order: LoadWithinLimits.                                          *)
THEOREM LoadTheorem == Spec => []LoadWithinLimits
  BY LoadInit, LoadStep, LoadFollows, PTL DEF Spec
----------------------------------------------------------------------------------
(* The extra data of a request, field by field. *)

LEMMA FieldParts ==
  ASSUME NEW at, NEW size, NEW value
  PROVE  /\ Field(at, size, value).at = at /\ Field(at, size, value).size = size
         /\ Field(at, size, value).value = value
  BY DEF Field

(* A byte that one field alone covers is a byte of that field. *)
LEMMA Covered ==
  ASSUME NEW n \in Nat, NEW fields, NEW j \in Bytes(n), NEW f \in fields,
         j - f.at \in Bytes(f.size),
         \A g \in fields : j - g.at \in Bytes(g.size) => g = f
  PROVE  Wire(n, fields)[j] = <<f.value, j - f.at>>
<1>1. (CHOOSE g \in fields : j - g.at \in Bytes(g.size)) = f
  OBVIOUS
<1> QED BY <1>1 DEF Wire

LEMMA OneField ==
  ASSUME NEW value, NEW n \in Nat
  PROVE  Wire(n, {Field(0, n, value)}) = Memory(value, n, "little")
<1> DEFINE f == Field(0, n, value)
<1>1. f.at = 0 /\ f.size = n /\ f.value = value
  BY FieldParts
<1> HIDE DEF f
<1>2. ASSUME NEW j \in Bytes(n) PROVE Wire(n, {f})[j] = <<value, j>>
  <2>1. j \in Int /\ j - 0 = j
    BY DEF Bytes
  <2>2. Wire(n, {f})[j] = <<f.value, j - f.at>>
    BY <1>1, <2>1, Covered
  <2> QED BY <1>1, <2>1, <2>2
<1>3. Wire(n, {f}) = [j \in Bytes(n) |-> Wire(n, {f})[j]]
  BY DEF Wire
<1>4. Wire(n, {f}) = [j \in Bytes(n) |-> <<value, j>>]
  BY <1>2, <1>3
<1> QED BY <1>4 DEF f, Memory

LEMMA ZeroByte == Wire(1, {Field(0, Char, 0)}) = Zeros(1)
<1>1. Wire(1, {Field(0, 1, 0)}) = Memory(0, 1, "little")
  BY OneField
<1>2. Memory(0, 1, "little") = Zeros(1)
  BY DEF Memory, Zeros, Bytes
<1> QED BY <1>1, <1>2 DEF Char

LEMMA NoField == Wire(0, {}) = Zeros(0)
  BY DEF Wire, Zeros, Bytes

LEMMA Filled ==
  ASSUME NEW value, NEW n \in Nat \ {0}
  PROVE  /\ Copied(Memory(value, n, "little"), n, Zeros(n), 0) = Memory(value, n, "little")
         /\ \A h \in Hosts : Number2Uint8(value, n, Zeros(n), 0, h) = Memory(value, n, "little")
<1>1. ASSUME NEW j \in Bytes(n)
      PROVE  (IF j - 0 \in Bytes(n) THEN Memory(value, n, "little")[j - 0] ELSE Zeros(n)[j])
               = <<value, j>>
  BY DEF Bytes, Memory
<1>2. DOMAIN Zeros(n) = Bytes(n)
  BY DEF Zeros
<1>3. Copied(Memory(value, n, "little"), n, Zeros(n), 0) = [j \in Bytes(n) |-> <<value, j>>]
  BY <1>1, <1>2 DEF Copied
<1>4. Copied(Memory(value, n, "little"), n, Zeros(n), 0) = Memory(value, n, "little")
  BY <1>3 DEF Memory
<1> QED BY <1>4, Writing

(* Two fields, one behind the other (Set_Inertia with an eccentricity). *)
LEMMA TwoFields ==
  ASSUME NEW value, NEW second, NEW h \in Hosts
  PROVE  Number2Uint8(second, Short, Number2Uint8(value, Double, Zeros(Double + Short), 0, h), Double, h)
           = Wire(10, {Field(0, Double, value), Field(8, Short, second)})
<1> DEFINE f == Field(0, 8, value)
           g == Field(8, 2, second)
           low  == Memory(value, 8, "little")
           high == Memory(second, 2, "little")
<1>1. /\ Number2Uint8(value, 8, Zeros(10), 0, h) = Copied(low, 8, Zeros(10), 0)
      /\ Number2Uint8(second, 2, Copied(low, 8, Zeros(10), 0), 8, h)
           = Copied(high, 2, Copied(low, 8, Zeros(10), 0), 8)
  BY Writing
<1>2. ASSUME NEW j \in Bytes(10)
      PROVE  Copied(high, 2, Copied(low, 8, Zeros(10), 0), 8)[j]
               = IF j < 8 THEN <<value, j>> ELSE <<second, j - 8>>
  <2>1. Copied(low, 8, Zeros(10), 0)[j] = IF j < 8 THEN <<value, j>> ELSE Zeros(10)[j]
    BY DEF Copied, Zeros, Bytes, Memory
  <2>2. DOMAIN Copied(low, 8, Zeros(10), 0) = Bytes(10)
    BY DEF Copied, Zeros
  <2>3. Copied(high, 2, Copied(low, 8, Zeros(10), 0), 8)[j]
          = IF j - 8 \in Bytes(2) THEN high[j - 8] ELSE Copied(low, 8, Zeros(10), 0)[j]
    BY <2>2 DEF Copied
  <2>4. CASE j < 8
    <3>1. j - 8 \notin Bytes(2)
      BY <2>4 DEF Bytes
    <3> QED BY <2>1, <2>3, <2>4, <3>1
  <2>5. CASE ~ (j < 8)
    <3>1. j - 8 \in Bytes(2)
      BY <2>5 DEF Bytes
    <3>2. high[j - 8] = <<second, j - 8>>
      BY <3>1 DEF Memory
    <3> QED BY <2>3, <2>5, <3>1, <3>2
  <2> QED BY <2>4, <2>5
<1>3. ASSUME NEW j \in Bytes(10)
      PROVE  Wire(10, {f, g})[j] = IF j < 8 THEN <<value, j>> ELSE <<second, j - 8>>
  <2>1. /\ f.at = 0 /\ f.size = 8 /\ f.value = value
        /\ g.at = 8 /\ g.size = 2 /\ g.value = second
    BY FieldParts
  <2> HIDE DEF f, g
  <2>2. j \in Int /\ j - 0 = j
    BY DEF Bytes
  <2>3. CASE j < 8
    <3>1. j - f.at \in Bytes(f.size) /\ j - g.at \notin Bytes(g.size)
      BY <2>1, <2>3 DEF Bytes
    <3>2. Wire(10, {f, g})[j] = <<f.value, j - f.at>>
      BY <3>1, Covered
    <3> QED BY <2>1, <2>2, <2>3, <3>2
  <2>4. CASE ~ (j < 8)
    <3>1. j - g.at \in Bytes(g.size) /\ j - f.at \notin Bytes(f.size)
      BY <2>1, <2>4 DEF Bytes
    <3>2. Wire(10, {f, g})[j] = <<g.value, j - g.at>>
      BY <3>1, Covered
    <3> QED BY <2>1, <2>4, <3>2
  <2> QED BY <2>3, <2>4
<1>4. Wire(10, {f, g}) = [j \in Bytes(10) |-> Wire(10, {f, g})[j]]
  BY DEF Wire
<1>5. Copied(high, 2, Copied(low, 8, Zeros(10), 0), 8)
        = [j \in Bytes(10) |-> Copied(high, 2, Copied(low, 8, Zeros(10), 0), 8)[j]]
  BY DEF Copied, Zeros
<1>6. Copied(high, 2, Copied(low, 8, Zeros(10), 0), 8) = Wire(10, {f, g})
  BY <1>2, <1>3, <1>4, <1>5
<1>7. Double = 8 /\ Short = 2 /\ Double + Short = 10
  BY DEF Double, Short
<1> QED BY <1>1, <1>6, <1>7

(* Exec_RTMC: six joints and the standard output. *)
LEMMA ExecFields ==
  ASSUME NEW rtpos, NEW digitalOut, NEW h \in Hosts
  PROVE  Rrdrtpos2Uint8(rtpos, Zeros(50), digitalOut, h)
           = Wire(50, SixDoubles(0, rtpos) \union {Field(48, Short, digitalOut)})
<1> DEFINE Joint(i) == Double2Uint8(rtpos[i], Zeros(50), i * 8, h)
           joints == [j \in DOMAIN Zeros(50) |-> IF j < 48 THEN Joint(j \div 8)[j] ELSE Zeros(50)[j]]
           out == Memory(digitalOut, 2, "little")
           fields == SixDoubles(0, rtpos) \union {Field(48, Short, digitalOut)}
           Value(j) == IF j < 48 THEN <<rtpos[j \div 8], j - 8 * (j \div 8)>> ELSE <<digitalOut, j - 48>>
<1>1. DOMAIN Zeros(50) = Bytes(50)
  BY DEF Zeros
<1>2. ASSUME NEW j \in Bytes(50), j < 48
      PROVE  j \div 8 \in Joints /\ j - 8 * (j \div 8) \in Bytes(8)
  BY <1>2 DEF Bytes, Joints
<1>3. ASSUME NEW j \in Bytes(50), j < 48 PROVE joints[j] = Value(j)
  <2> DEFINE i == j \div 8
             m == Memory(rtpos[i], 8, "little")
  <2>1. i \in Nat /\ i * 8 \in Nat /\ j - i * 8 \in Bytes(8) /\ j - i * 8 = j - 8 * i
    BY <1>2, <1>3 DEF Joints, Bytes
  <2>2. Joint(i) = Copied(m, 8, Zeros(50), i * 8)
    <3> HIDE DEF i
    <3> QED BY <2>1, Writing DEF Double2Uint8, Double
  <2>3. Joint(i)[j] = m[j - i * 8]
    <3> HIDE DEF i, m
    <3> QED BY <1>1, <2>1, <2>2 DEF Copied
  <2>4. m[j - i * 8] = <<rtpos[i], j - i * 8>>
    <3> HIDE DEF i
    <3> QED BY <2>1 DEF Memory
  <2>5. joints[j] = Joint(i)[j]
    BY <1>1, <1>3
  <2> HIDE DEF joints
  <2> QED BY <1>3, <2>1, <2>3, <2>4, <2>5
<1>4. Rrdrtpos2Uint8(rtpos, Zeros(50), digitalOut, h) = Copied(out, 2, joints, 48)
  <2>1. Rrdrtpos2Uint8(rtpos, Zeros(50), digitalOut, h) = Number2Uint8(digitalOut, 2, joints, 48, h)
    BY DEF Rrdrtpos2Uint8, Ushort2Uint8, Short, OFFSET_RRD_RT_POS_IO
  <2> HIDE DEF joints
  <2> QED BY <2>1, Writing
<1>5. DOMAIN joints = Bytes(50)
  BY <1>1
<1>6. ASSUME NEW j \in Bytes(50) PROVE Copied(out, 2, joints, 48)[j] = Value(j)
  <2> HIDE DEF joints
  <2>1. CASE j < 48
    <3>1. j - 48 \notin Bytes(2)
      BY <2>1 DEF Bytes
    <3>2. Copied(out, 2, joints, 48)[j] = joints[j]
      BY <1>5, <3>1 DEF Copied
    <3> QED BY <1>3, <2>1, <3>2
  <2>2. CASE ~ (j < 48)
    <3>1. j - 48 \in Bytes(2)
      BY <2>2 DEF Bytes
    <3>2. Copied(out, 2, joints, 48)[j] = out[j - 48]
      BY <1>5, <3>1 DEF Copied
    <3>3. out[j - 48] = <<digitalOut, j - 48>>
      BY <3>1 DEF Memory
    <3> QED BY <2>2, <3>2, <3>3
  <2> QED BY <2>1, <2>2
<1>7. ASSUME NEW j \in Bytes(50) PROVE Wire(50, fields)[j] = Value(j)
  <2>1. ASSUME NEW g \in fields
        PROVE  \/ g.at = 48 /\ g.size = 2 /\ g.value = digitalOut /\ g = Field(48, Short, digitalOut)
               \/ \E k \in Joints : /\ g.at = 8 * k /\ g.size = 8 /\ g.value = rtpos[k]
                                    /\ g = Field(0 + 8 * k, Double, rtpos[k])
    BY FieldParts DEF SixDoubles, Short, Double, Joints
  <2>2. CASE j < 48
    <3> DEFINE i == j \div 8
               f == Field(0 + 8 * i, Double, rtpos[i])
    <3>1. i \in Joints /\ j - 8 * i \in Bytes(8) /\ 0 + 8 * i = 8 * i
      BY <1>2, <2>2 DEF Joints
    <3>2. f \in fields
      <4> HIDE DEF i
      <4> QED BY <3>1 DEF SixDoubles
    <3>3. f.at = 8 * i /\ f.size = 8 /\ f.value = rtpos[i]
      BY <3>1, FieldParts DEF Double
    <3>4. ASSUME NEW g \in fields, j - g.at \in Bytes(g.size) PROVE g = f
      <4>1. g.at # 48
        BY <2>1, <2>2, <3>4 DEF Bytes, Joints
      <4>2. PICK k \in Joints : /\ g.at = 8 * k /\ g.size = 8 /\ g = Field(0 + 8 * k, Double, rtpos[k])
        BY <2>1, <4>1
      <4>3. k = i
        <5> HIDE DEF i
        <5> QED BY <3>1, <3>4, <4>2 DEF Bytes, Joints
      <4> QED BY <4>2, <4>3
    <3>5. Wire(50, fields)[j] = <<f.value, j - f.at>>
      <4> HIDE DEF f, fields
      <4> QED BY <3>1, <3>2, <3>3, <3>4, Covered
    <3> HIDE DEF f
    <3> QED BY <2>2, <3>3, <3>5
  <2>3. CASE ~ (j < 48)
    <3> DEFINE f == Field(48, Short, digitalOut)
    <3>1. f \in fields /\ f.at = 48 /\ f.size = 2 /\ f.value = digitalOut
      BY FieldParts DEF Short
    <3>2. j - f.at \in Bytes(f.size)
      BY <2>3, <3>1 DEF Bytes
    <3>3. ASSUME NEW g \in fields, j - g.at \in Bytes(g.size) PROVE g = f
      BY <2>1, <2>3, <3>3 DEF Bytes, Joints
    <3>4. Wire(50, fields)[j] = <<f.value, j - f.at>>
      <4> HIDE DEF f, fields
      <4> QED BY <3>1, <3>2, <3>3, Covered
    <3> HIDE DEF f
    <3> QED BY <2>3, <3>1, <3>4
  <2> QED BY <2>2, <2>3
<1>8. Wire(50, fields) = [j \in Bytes(50) |-> Value(j)]
  <2>1. Wire(50, fields) = [j \in Bytes(50) |-> Wire(50, fields)[j]]
    BY DEF Wire
  <2> HIDE DEF fields, Value
  <2> QED BY <1>7, <2>1
<1>9. Copied(out, 2, joints, 48) = [j \in Bytes(50) |-> Value(j)]
  <2>1. Copied(out, 2, joints, 48) = [j \in Bytes(50) |-> Copied(out, 2, joints, 48)[j]]
    <3> HIDE DEF joints
    <3> QED BY <1>5 DEF Copied
  <2> HIDE DEF joints, out, Value
  <2> QED BY <1>6, <2>1
<1> QED BY <1>4, <1>8, <1>9

LEMMA Small ==
  ASSUME NEW x \in Int, x >= 0, x < 65536
  PROVE  x % 65536 = x
  OBVIOUS

LEMMA OneByteOnly == \A i \in Bytes(1) : i = 0
  BY DEF Bytes

LEMMA Addresses ==
  ASSUME NEW n \in 0 .. 23, NEW r \in 0 .. 2
  PROVE  MAKEUSHORT(n, r) = n + 256 * r /\ n + 256 * r \in Int
<1> DEFINE sum == n + 256 * r
<1>1. sum \in Int /\ sum >= 0 /\ sum < 65536
  OBVIOUS
<1>2. sum % 65536 = sum
  <2> HIDE DEF sum
  <2> QED BY <1>1, Small
<1>3. MAKEUSHORT(n, r) = sum % 65536
  BY DEF MAKEUSHORT
<1> QED BY <1>1, <1>2, <1>3

LEMMA Words16 ==
  \A l \in Int : MAKEWORD(l, 0) = l
  BY DEF MAKEWORD

LEMMA DOTypes ==
  ASSUME NEW c \in Calls, c.cmd \in {"REQ_SET_DO", "REQ_GET_DO", "REQ_GET_DI"}
  PROVE  DOAddress(c) = c.number + 256 * c.range /\ DOAddress(c) \in Int
<1>1. c.number \in 0 .. 23 /\ c.range \in 0 .. 2
  BY DEF Calls, ConnectCalls, BITRANGE, BYTERANGE, WORDRANGE
<1>2. PICK n \in 0 .. 23, r \in 0 .. 2 : c.number = n /\ c.range = r
  BY <1>1
<1>3. DOAddress(c) = MAKEUSHORT(n, r)
  BY <1>2 DEF DOAddress
<1>4. MAKEUSHORT(n, r) = n + 256 * r /\ n + 256 * r \in Int
  BY Addresses
<1>5. n + 256 * r = c.number + 256 * c.range
  BY <1>2, Zenon
<1> QED BY <1>3, <1>4, <1>5, Zenon

(* The request of a call, command by command. *)
LEMMA TextMeans ==
  ASSUME NEW c, host \in Hosts
  PROVE  ConnectRequest(c) = SaysText(1, c) /\ RBCheckRequest(c) = SaysText(0, c)
<1>1. NameSize \in Nat \ {0} /\ MAKEWORD(0, 0) = 0 /\ MAKEWORD(1, 0) = 1
  BY Words16 DEF NameSize
<1>2. String2Uint8(c.text, NameSize, Zeros(NameSize), 0) = Memory(c.text, NameSize, "little")
  BY <1>1, Filled DEF String2Uint8
<1>3. Wire(NameSize, {Field(0, NameSize, c.text)}) = Memory(c.text, NameSize, "little")
  BY <1>1, OneField
<1> QED BY <1>1, <1>2, <1>3 DEF ConnectRequest, RBCheckRequest, SaysText, Says, Command

LEMMA ByteMeans == Command(0, 0, Zeros(1)) = SaysByte(0)
<1>1. MAKEWORD(0, 0) = 0
  BY Words16
<1> QED BY <1>1, ZeroByte DEF Command, SaysByte, Says, OneByte

LEMMA ExecMeans ==
  ASSUME NEW c, host \in Hosts
  PROVE  ExecRequest(c) = SaysPosition(c)
<1>1. MAKEWORD(0, 0) = 0
  BY Words16
<1> QED BY <1>1, ExecFields DEF ExecRequest, SaysPosition, Says, Command

LEMMA PortMeans ==
  ASSUME NEW c \in Calls, c.cmd \in {"REQ_GET_DO", "REQ_GET_DI"}
  PROVE  GetIORequest(c) = SaysPort(c)
<1>1. MAKEWORD(DOAddress(c), 0) = c.number + 256 * c.range
  BY DOTypes, Words16
<1> QED BY <1>1, ZeroByte DEF GetIORequest, Command, SaysPort, SaysByte, Says, OneByte

LEMMA OutputMeans ==
  ASSUME NEW c \in Calls, c.cmd = "REQ_SET_DO", host \in Hosts
  PROVE  SetDORequest(c) = SaysOutput(c)
<1> DEFINE size == DOSize(c.range)
           data == IF c.range = WORDRANGE THEN Ushort2Uint8(c.data, Zeros(Short), 0, host)
                   ELSE Memory(c.data, Char, host)
<1>1. MAKEWORD(DOAddress(c), 0) = c.number + 256 * c.range
  BY DOTypes, Words16
<1>2. data = Memory(c.data, size, "little")
  <2>1. Memory(c.data, Char, host) = Memory(c.data, Char, "little")
    <3>1. 1 - 1 - 0 = 0
      OBVIOUS
    <3> QED BY <3>1, OneByteOnly DEF Memory, Char
  <2>2. Ushort2Uint8(c.data, Zeros(Short), 0, host) = Memory(c.data, Short, "little")
    BY Filled DEF Ushort2Uint8, Short
  <2> QED BY <2>1, <2>2 DEF DOSize
<1>3. Wire(size, {Field(0, size, c.data)}) = Memory(c.data, size, "little")
  <2>1. size \in Nat \ {0}
    BY DEF DOSize, Short, Char
  <2> HIDE DEF size
  <2> QED BY <2>1, OneField
<1>4. SetDORequest(c) = [dword |-> MAKEWORD(DOAddress(c), 0), exData |-> data]
  BY DEF SetDORequest, Command
<1>5. SaysOutput(c) = [dword |-> c.number + 256 * c.range, exData |-> Wire(size, {Field(0, size, c.data)})]
  BY DEF SaysOutput, Says
<1> HIDE DEF size, data
<1> QED BY <1>1, <1>2, <1>3, <1>4, <1>5

LEMMA LoadMeans ==
  ASSUME NEW c, host \in Hosts
  PROVE  /\ WeightRequest(c) = SaysWeight(c)
         /\ "eccentricity" \notin DOMAIN c => InertiaRequest(c) = SaysInertia(c)
         /\ "eccentricity" \in DOMAIN c => EccentricityRequest(c) = SaysInertia(c)
<1>1. MAKEWORD(0, 0) = 0 /\ MAKEWORD(1, 0) = 1
  BY Words16
<1>2. \A x : Double2Uint8(x, Zeros(Double), 0, host) = Wire(8, {Field(0, Double, x)})
  BY Filled, OneField DEF Double2Uint8, Double
<1>3. EccentricityRequest(c)
        = Command(1, 0, Wire(10, {Field(0, Double, c.inertia), Field(8, Short, c.eccentricity)}))
  BY TwoFields DEF EccentricityRequest, Double2Uint8, Ushort2Uint8
<1> QED BY <1>1, <1>2, <1>3 DEF WeightRequest, InertiaRequest, SaysWeight, SaysInertia, Says, Command

LEMMA WantedMeans ==
  ASSUME NEW c
  PROVE  GetInertiaRequest(c) = SaysWanted(c) /\ MessageRequest(c) = SaysNumbers(c)
<1>1. MAKEWORD(0, 0) = 0 /\ MAKEWORD(1, 0) = 1
  BY Words16
<1> QED BY <1>1, ZeroByte DEF GetInertiaRequest, MessageRequest, SaysWanted, SaysNumbers, SaysByte,
        Says, OneByte, Command, MAKEWORD

LEMMA NothingMeans == Command(0, 0, Zeros(0)) = Says(0, 0, {})
<1>1. MAKEWORD(0, 0) = 0
  BY Words16
<1> QED BY <1>1, NoField DEF Command, Says

LEMMA RequestMeans ==
  ASSUME NEW c, c \in Calls \/ \E cmd \in DOMAIN ConnectCalls : c \in ConnectCalls[cmd],
         host \in Hosts
  PROVE  Request(c) = Meant(c)
<1>1. CASE c.cmd = "REQ_CONNECT"
  BY <1>1, TextMeans, Zenon DEF Request, Meant
<1>2. CASE c.cmd = "REQ_CHECK_ROBOTMODEL"
  BY <1>2, TextMeans, Zenon DEF Request, Meant
<1>3. CASE c.cmd = "REQ_EXEC_RTPOS"
  BY <1>3, ExecMeans, Zenon DEF Request, Meant
<1>4. CASE c.cmd \in {"REQ_SET_DO", "REQ_GET_DO", "REQ_GET_DI"}
  <2>1. c \in Calls
    <3>1. ASSUME NEW cmd \in DOMAIN ConnectCalls, c \in ConnectCalls[cmd] PROVE FALSE
      BY <1>4, <3>1, ConnectCommands
    <3> QED BY <3>1
  <2>2. CASE c.cmd = "REQ_SET_DO"
    BY <2>1, <2>2, OutputMeans, Zenon DEF Request, Meant
  <2>3. CASE c.cmd \in {"REQ_GET_DO", "REQ_GET_DI"}
    BY <2>1, <2>3, PortMeans, Zenon DEF Request, Meant
  <2> QED BY <1>4, <2>2, <2>3
<1>5. CASE c.cmd = "REQ_SET_WEIGHT"
  BY <1>5, LoadMeans, Zenon DEF Request, Meant
<1>6. CASE c.cmd = "REQ_SET_INERTIA"
  BY <1>6, LoadMeans, Zenon DEF Request, Meant
<1>7. CASE c.cmd = "REQ_GET_INERTIA"
  BY <1>7, WantedMeans, Zenon DEF Request, Meant
<1>8. CASE c.cmd = "SYS_REQ_RC_ERRMSG"
  BY <1>8, WantedMeans, Zenon DEF Request, Meant
<1>9. CASE c.cmd \in {"REQ_GET_WEIGHT", "REQ_GET_ROBOTMODEL", "REQ_GET_CURPOS_INFO"}
  BY <1>9, ByteMeans, Zenon DEF Request, Meant
<1>10. CASE c.cmd \in {"SYS_REQ_CURPOS_INFO", "SYS_REQ_RC_STATUS", "SYS_REQ_RTMC_FORMAT_INFO"}
  BY <1>10, NothingMeans, Zenon DEF Request, Meant
<1>11. CASE c \in Calls
  BY <1>1, <1>3, <1>2, <1>4, <1>5, <1>6, <1>7, <1>8, <1>9, <1>11, CallCommands
<1>12. ASSUME NEW cmd \in DOMAIN ConnectCalls, c \in ConnectCalls[cmd] PROVE Request(c) = Meant(c)
  BY <1>1, <1>8, <1>10, <1>12, ConnectCommands
<1> QED BY <1>11, <1>12

(* The client asks nothing but a call, and its request is of that call. *)
Asking ==
  /\ host \in Hosts
  /\ pc = "asked" => request = Meant(call)

(* The meaning of a request depends on the call alone. *)
LEMMA MeantOf ==
  ASSUME NEW c, call' = c
  PROVE  Meant(call)' = Meant(c)
  BY Zenon DEF Meant

LEMMA AskMeans ==
  ASSUME Asking, NEW c, c \in Calls \/ \E cmd \in DOMAIN ConnectCalls : c \in ConnectCalls[cmd],
         Ask(c), host' = host
  PROVE  Asking'
<1>1. request' = Meant(c)
  BY RequestMeans DEF Ask, Asking
<1>2. Meant(call)' = Meant(c)
  BY MeantOf DEF Ask
<1> QED BY <1>1, <1>2 DEF Asking

LEMMA AskingStep == Asking /\ [Next]_vars => Asking'
<1> SUFFICES ASSUME Asking, [Next]_vars PROVE Asking'
  OBVIOUS
<1>1. ASSUME NEW c \in Calls, Call(c) PROVE Asking'
  BY <1>1, AskMeans DEF Call
<1>2. ASSUME NEW name \in Names, RBCheckRefused(name) PROVE Asking'
  BY <1>2 DEF RBCheckRefused, Fail, Asking
<1>3. ASSUME NEW c \in ConnectCalls.REQ_CONNECT, RTMC_Connect(c) PROVE Asking'
  <2>1. \E cmd \in DOMAIN ConnectCalls : c \in ConnectCalls[cmd]
    BY DEF ConnectCalls
  <2> QED BY <1>3, <2>1, AskMeans DEF RTMC_Connect, client
<1>4. ASSUME NEW cmd \in DOMAIN ConnectCalls, NEW c \in ConnectCalls[cmd], Continue(c) PROVE Asking'
  BY <1>4, AskMeans DEF Continue, client
<1>5. CASE RTMC_DisConnect
  BY <1>5 DEF RTMC_DisConnect, Fail, client, Asking
<1>6. CASE Unanswered
  BY <1>6 DEF Unanswered, Fail, client, Asking
<1>7. CASE AnswerLost
  BY <1>7 DEF AnswerLost, Fail, client, Asking
<1>8. ASSUME NEW t, NEW size, RCAnswers(t, size) PROVE Asking'
  BY <1>8 DEF RCAnswers, client, Asking
<1>9. CASE RCRefuses
  BY <1>9 DEF RCRefuses, client, Asking
<1>10. CASE Accept
  BY <1>10 DEF Accept, Asking
<1>11. CASE Reject
  BY <1>11 DEF Reject, Fail, client, Asking
<1>12. CASE Refused
  BY <1>12 DEF Refused, Fail, client, Asking
<1>13. CASE UNCHANGED vars
  <2>1. Meant(call)' = Meant(call)
    BY <1>13, MeantOf DEF vars
  <2> QED BY <1>13, <2>1 DEF vars, Asking
<1> QED BY <1>1, <1>2, <1>3, <1>4, <1>5, <1>6, <1>7, <1>8, <1>9, <1>10, <1>11, <1>12, <1>13 DEF Next

(* The request of every call says to the controller what the caller gave     *)
(* (Double2Uint8, Ushort2Uint8, Rrdrtpos2Uint8, String2Uint8, MAKEWORD,      *)
(* MAKEUSHORT), for all numbers, loads and names and for both byte orders.   *)
THEOREM HeardTheorem == Spec => []Heard
<1>1. Init => Asking
  BY DEF Init, Asking
<1>2. Asking => Heard
  BY DEF Asking, Heard
<1> QED BY <1>1, <1>2, AskingStep, PTL DEF Spec
=================================================================================
