-------------------------------- MODULE RCStatus --------------------------------
(***************************************************************************)
(* What the client knows of the controller's status and of the robot's      *)
(* position: rc_status and current_ja, filled from answers (RTMC_Connect,    *)
(* Get_CurrentJA, Exec_RTMC) and from notices that the listener thread       *)
(* stores at any time.  They outlive a connection.                           *)
(*                                                                          *)
(* The calls run one at a time (RTMCClient shows why) over the connection    *)
(* of RequestReply.  Answers and notices come through one reader that keeps  *)
(* the last sample only.  A status is known by its place in log, a position  *)
(* by its number; mode stands for the members of the status that are always  *)
(* copied (operation_mode, safeGuard, eStop), and the message of a number is *)
(* that number, the empty message 0.                                         *)
(***************************************************************************)
EXTENDS Integers, Sequences

CONSTANTS Kinds,    \* errors and warnings
          Numbers,  \* their numbers; 0: none
          Infos,    \* the additional information of an occurrence
          MaxLog,   \* bound: statuses of the controller
          MaxPos    \* bound: positions of the robot

ASSUME NumbersAssumption == Numbers \subseteq Nat /\ 0 \in Numbers /\ 0 \in Infos

VARIABLES
  pc, call, stage, \* where the caller is, in which call, with which request
  ret,             \* what the last call returned: nothing, or where it took it from
  cache, ja,       \* rc_status and current_ja
  open, link,      \* DDSCommunication_Ptr # nullptr, and DDSConnection()
  reader,          \* the sample in the reader
  slot,            \* the answer the listener has stored
  notice,          \* the notices it has stored, with their new... flags
  pending,         \* the controller has the request
  log, pos,        \* history: the statuses of the controller; the robot's position
  base, begun,     \* history: log and pos when the object was created, pos at the call
  known, learned,  \* history: the status and whether a position was copied since then
  missed           \* history: the messages of the last new numbers did not come

client     == <<pc, call, stage, ret>>
copies     == <<cache, ja, known, learned, missed>>
connection == <<open, link, base>>
delivery   == <<reader, slot, notice>>
robot      == <<log, pos>>
vars == <<client, copies, connection, delivery, pending, robot, begun>>
----------------------------------------------------------------------------------
Modes    == {"auto", "other"}
Status   == {s \in [mode : Modes, num : [Kinds -> Numbers], info : [Kinds -> Infos]] :
               \A k \in Kinds : s.num[k] = 0 => s.info[k] = 0}
None     == [k \in Kinds |-> 0]
Topics   == {"status", "position"}
NoSample == [topic |-> "none", ok |-> FALSE, at |-> 0, why |-> "none"]
NoNotice == [at |-> 0, new |-> FALSE]
NoBase   == [log |-> 1, pos |-> 0]

Calls    == {"connect", "status", "position", "exec"}

Init ==
  /\ pc = "idle" /\ call = "none" /\ stage = "none"
  /\ ret = "none"
  /\ cache = [mode |-> "other", num |-> None, info |-> None, msg |-> None] /\ ja = 0
  /\ open = FALSE /\ link = FALSE /\ pending = FALSE
  /\ reader = NoSample /\ slot = NoSample /\ notice = [t \in Topics |-> NoNotice]
  /\ \E m \in Modes : log = <<[mode |-> m, num |-> None, info |-> None]>>
  /\ pos = 0 /\ base = NoBase /\ begun = 0
  /\ known = 0 /\ learned = FALSE /\ missed = FALSE
----------------------------------------------------------------------------------
(* Parts of the actions. *)

Return(what) ==
  /\ pc' = "idle" /\ call' = "none" /\ stage' = "none"
  /\ ret' = what

Ask(cmd) == /\ pc' = "sending" /\ stage' = cmd
            /\ UNCHANGED <<call, ret>>

Goto(place) == /\ pc' = place
               /\ UNCHANGED <<call, stage, ret>>

(* The object is deleted, with its reader, its slot and its notices.  The     *)
(* variant keeps the notices for the next one.                               *)
KeptNotices == notice

NoNotices == [t \in Topics |-> NoNotice]

DisconnectRC ==
  /\ open' = FALSE /\ link' = FALSE /\ pending' = FALSE /\ base' = NoBase
  /\ reader' = NoSample /\ slot' = NoSample /\ notice' = NoNotices
  /\ known' = 0 /\ learned' = FALSE

Keep == UNCHANGED <<connection, delivery, pending, known, learned>>

(* The answer in the slot is used; the connection stays.                      *)
Use == slot' = NoSample /\ UNCHANGED <<connection, reader, notice, pending>>

Fetching == stage = "SYS_REQ_RC_ERRMSG"

(* The call ends in an error and the connection with it.                     *)
Drop ==
  /\ Return("none") /\ DisconnectRC
  /\ missed' = (missed \/ Fetching)
  /\ UNCHANGED <<cache, ja>>
----------------------------------------------------------------------------------
(* Calls.  Any other function only matters if the connection ends in it. *)

Start(c) ==
  /\ pc = "idle"
  /\ pc' = "entered" /\ call' = c /\ begun' = pos
  /\ ret' = "none"
  /\ UNCHANGED <<stage, cache, ja, known, learned, missed, connection, delivery, pending, robot>>

OtherCallDisconnects ==
  /\ pc = "idle" /\ open
  /\ DisconnectRC
  /\ ret' = "none"
  /\ UNCHANGED <<pc, call, stage, cache, ja, missed, robot, begun>>

NotConnected ==
  /\ pc = "entered" /\ call # "connect" /\ ~open
  /\ Return("none")
  /\ Keep /\ UNCHANGED <<cache, ja, missed, robot, begun>>

Disconnected ==
  /\ pc = "entered" /\ call \in {"status", "position"} /\ open /\ ~link
  /\ Drop
  /\ UNCHANGED <<robot, begun>>

AlreadyConnected ==
  /\ pc = "entered" /\ call = "connect" /\ open /\ link
  /\ Return("none")
  /\ Keep /\ UNCHANGED <<cache, ja, missed, robot, begun>>

ConnectCleans ==
  /\ pc = "entered" /\ call = "connect" /\ open /\ ~link
  /\ DisconnectRC
  /\ UNCHANGED <<client, cache, ja, missed, robot, begun>>

ConnectFails ==
  /\ pc = "entered" /\ call = "connect" /\ ~open
  /\ Return("none")
  /\ Keep /\ UNCHANGED <<cache, ja, missed, robot, begun>>

Connected ==
  /\ pc = "entered" /\ call = "connect" /\ ~open
  /\ open' = TRUE /\ link' = TRUE
  /\ base' = [log |-> Len(log), pos |-> pos]
  /\ Ask("REQ_CONNECT")
  /\ UNCHANGED <<copies, delivery, pending, robot, begun>>

Exec_RTMC ==
  /\ pc = "entered" /\ call = "exec" /\ open
  /\ Ask("REQ_EXEC_RTPOS")
  /\ Keep /\ UNCHANGED <<cache, ja, missed, robot, begun>>
----------------------------------------------------------------------------------
(* Update_RCSts_Core: the mode is copied; a number that has changed is        *)
(* copied with its additional information, and then the messages are fetched. *)

(* A variant that copies it only for an error or a warning that is there.      *)
AbsorbOfSome(s) ==
  [cache EXCEPT !.mode = s.mode, !.num = s.num,
     !.info = [k \in Kinds |->
                 IF s.num[k] # 0 /\ cache.num[k] # s.num[k] THEN s.info[k] ELSE @[k]]]

Absorb(s) ==
  [cache EXCEPT !.mode = s.mode, !.num = s.num,
     !.info = [k \in Kinds |-> IF cache.num[k] # s.num[k] THEN s.info[k] ELSE @[k]]]

(* A variant that fetches them only for an error or a warning that is there.  *)
ChangedToSome(s) == \E k \in Kinds : s.num[k] # cache.num[k] /\ s.num[k] # 0

Changed(s) == s.num # cache.num

Update_RCSts_Core(v, next) ==
  /\ cache' = Absorb(log[v]) /\ known' = v
  /\ IF Changed(log[v]) THEN Ask("SYS_REQ_RC_ERRMSG") ELSE next

(* Update_RCSts and Update_OperationMode take the status notice if it is new. *)
Update_RCSts ==
  /\ pc = "entered" /\ call \in {"status", "position"} /\ open /\ link
  /\ notice' = [notice EXCEPT !["status"] = NoNotice]
  /\ IF notice["status"].new
       THEN Update_RCSts_Core(notice["status"].at, Goto("updated"))
       ELSE Goto("updated") /\ UNCHANGED <<cache, known>>
  /\ UNCHANGED <<ja, learned, missed, connection, reader, slot, pending, robot, begun>>

(* Get_NewStatus fails once a sample could not be taken from the reader.      *)
UpdateFails ==
  /\ \/ pc = "entered" /\ call \in {"status", "position"} /\ open /\ link
     \/ pc = "reading"
  /\ Drop
  /\ UNCHANGED <<robot, begun>>

Get_RCStatus ==
  /\ pc = "updated" /\ call = "status"
  /\ Return("status")
  /\ Keep /\ UNCHANGED <<cache, ja, missed, robot, begun>>

(* The position comes from the controller in auto mode, else from a notice.   *)
Get_CurrentJA ==
  /\ pc = "updated" /\ call = "position"
  /\ IF cache.mode = "auto" THEN Ask("REQ_GET_CURPOS_INFO") ELSE Goto("reading")
  /\ Keep /\ UNCHANGED <<cache, ja, missed, robot, begun>>

Update_CurJA ==
  /\ pc = "reading"
  /\ notice' = [notice EXCEPT !["position"] = NoNotice]
  /\ ja' = IF notice["position"].new THEN notice["position"].at ELSE ja
  /\ Return("notice")
  /\ UNCHANGED <<cache, known, learned, missed, connection, reader, slot, pending, robot, begun>>
----------------------------------------------------------------------------------
(* SendProc_Common. *)

Send ==
  /\ pc = "sending" /\ link
  /\ pending' = TRUE
  /\ Goto("waiting")
  /\ UNCHANGED <<copies, connection, delivery, robot, begun>>

SendNotConnected ==
  /\ pc = "sending" /\ ~link
  /\ Drop
  /\ UNCHANGED <<robot, begun>>

SendFails ==
  /\ pc = "waiting"
  /\ Drop
  /\ UNCHANGED <<robot, begun>>
----------------------------------------------------------------------------------
(* What becomes of an answer. *)

Answered == pc = "waiting" /\ slot # NoSample

FallsBack == stage = "REQ_GET_CURPOS_INFO" /\ slot.why = "mode"

(* Whether a refusal ends the connection: RTMC_Connect keeps it if only the   *)
(* messages are refused, Get_RCStatus and Get_CurrentJA do not.               *)
Drops == \/ slot.why = "unknown"
         \/ call = "connect" /\ ~Fetching
         \/ call \in {"status", "position"} /\ Fetching

Refused ==
  /\ Answered /\ ~slot.ok /\ ~FallsBack
  /\ IF Drops THEN Drop
     ELSE /\ Return("none") /\ Use /\ UNCHANGED <<known, learned>>
          /\ missed' = (missed \/ Fetching)
          /\ UNCHANGED <<cache, ja>>
  /\ UNCHANGED <<robot, begun>>

FallBack ==
  /\ Answered /\ ~slot.ok /\ FallsBack
  /\ Goto("reading")
  /\ Use /\ UNCHANGED <<known, learned, cache, ja, missed, robot, begun>>

(* Both messages are replaced.                                                *)
Messages == cache.num

MessagesCome ==
  /\ Answered /\ slot.ok /\ Fetching
  /\ cache' = [cache EXCEPT !.msg = Messages] /\ missed' = FALSE
  /\ IF call = "connect" THEN Ask("SYS_REQ_RTMC_FORMAT_INFO")
     ELSE pc' = "updated" /\ stage' = "none" /\ UNCHANGED <<call, ret>>
  /\ Use /\ UNCHANGED <<known, learned, ja, robot, begun>>

(* A variant that prefers a notice it has not read yet.                       *)
NoticedPosition == IF notice["position"].new THEN notice["position"].at ELSE slot.at

AnsweredPosition == slot.at

PositionComes ==
  /\ Answered /\ slot.ok /\ stage \in {"REQ_GET_CURPOS_INFO", "REQ_EXEC_RTPOS"}
  /\ ja' = AnsweredPosition /\ Return("answer")
  /\ Use /\ UNCHANGED <<known, learned, cache, missed, robot, begun>>

(* The requests of RTMC_Connect. *)
ConnectionAccepted ==
  /\ Answered /\ slot.ok /\ stage = "REQ_CONNECT"
  /\ Ask("SYS_REQ_CURPOS_INFO")
  /\ Use /\ UNCHANGED <<known, learned, cache, ja, missed, robot, begun>>

ConnectPosition ==
  /\ Answered /\ slot.ok /\ stage = "SYS_REQ_CURPOS_INFO"
  /\ ja' = slot.at /\ learned' = TRUE
  /\ Ask("SYS_REQ_RC_STATUS")
  /\ Use /\ UNCHANGED <<cache, known, missed, robot, begun>>

ConnectStatus ==
  /\ Answered /\ slot.ok /\ stage = "SYS_REQ_RC_STATUS"
  /\ Update_RCSts_Core(slot.at, Ask("SYS_REQ_RTMC_FORMAT_INFO"))
  /\ Use /\ UNCHANGED <<ja, learned, missed, robot, begun>>

ConnectSucceeds ==
  /\ Answered /\ slot.ok /\ stage = "SYS_REQ_RTMC_FORMAT_INFO"
  /\ Return("connect")
  /\ Use /\ UNCHANGED <<known, learned, cache, ja, missed, robot, begun>>
----------------------------------------------------------------------------------
(* The listener thread: on_data_available. *)

StoreAnswer ==
  /\ reader.topic = "answer"
  /\ slot' = reader /\ reader' = NoSample
  /\ UNCHANGED <<client, copies, connection, notice, pending, robot, begun>>

StoreNotice ==
  /\ reader.topic \in Topics
  /\ notice' = [notice EXCEPT ![reader.topic] = [at |-> reader.at, new |-> TRUE]]
  /\ reader' = NoSample
  /\ UNCHANGED <<client, copies, connection, slot, pending, robot, begun>>
----------------------------------------------------------------------------------
(* The controller and the network (external).  A sample replaces one that has *)
(* not been taken.                                                            *)

Others == UNCHANGED <<client, copies, connection, slot, notice, begun>>

Current(topic) == IF topic = "status" THEN Len(log) ELSE pos

RCNotifies(topic) ==
  /\ link
  /\ reader' = [topic |-> topic, ok |-> TRUE, at |-> Current(topic), why |-> "none"]
  /\ UNCHANGED <<pending, robot>> /\ Others

Asked == IF stage = "SYS_REQ_RC_STATUS" THEN Len(log) ELSE pos

RCAnswers ==
  /\ pending
  /\ stage \in {"REQ_GET_CURPOS_INFO", "REQ_EXEC_RTPOS"} => log[Len(log)].mode = "auto"
  /\ reader' = [topic |-> "answer", ok |-> TRUE, at |-> Asked, why |-> "none"]
  /\ pending' = FALSE
  /\ UNCHANGED robot /\ Others

RCRefuses ==
  /\ pending
  /\ \E why \in {"mode", "error", "unknown"} :
       reader' = [topic |-> "answer", ok |-> FALSE, at |-> 0, why |-> why]
  /\ pending' = FALSE
  /\ UNCHANGED robot /\ Others

SampleLost ==
  /\ reader # NoSample /\ reader' = NoSample
  /\ UNCHANGED <<pending, robot>> /\ Others

LinkLost ==
  /\ link /\ link' = FALSE
  /\ UNCHANGED <<client, copies, open, base, delivery, pending, robot, begun>>

(* The mode changes, or an error or a warning comes, goes or comes again.     *)
StatusChange(s) ==
  LET now == log[Len(log)] IN
    \/ s.num = now.num /\ s.info = now.info /\ s.mode # now.mode
    \/ /\ s.mode = now.mode
       /\ \E k \in Kinds :
            /\ <<s.num[k], s.info[k]>> # <<now.num[k], now.info[k]>>
            /\ \A other \in Kinds \ {k} :
                 s.num[other] = now.num[other] /\ s.info[other] = now.info[other]

RCChanges ==
  /\ Len(log) < MaxLog
  /\ \E s \in Status : StatusChange(s) /\ log' = Append(log, s)
  /\ UNCHANGED <<client, copies, connection, delivery, pending, pos, begun>>

RobotMoves ==
  /\ pos < MaxPos /\ pos' = pos + 1
  /\ UNCHANGED <<client, copies, connection, delivery, pending, log, begun>>
----------------------------------------------------------------------------------
Connecting == \/ AlreadyConnected \/ ConnectCleans \/ ConnectFails \/ Connected
              \/ ConnectionAccepted \/ ConnectPosition \/ ConnectStatus \/ ConnectSucceeds

Reading == \/ NotConnected \/ Disconnected \/ Update_RCSts \/ UpdateFails \/ Get_RCStatus
           \/ Get_CurrentJA \/ Update_CurJA \/ Exec_RTMC

Asking == \/ Send \/ SendNotConnected \/ SendFails \/ Refused \/ FallBack
          \/ MessagesCome \/ PositionComes

Listener == StoreAnswer \/ StoreNotice

Controller == \/ \E t \in Topics : RCNotifies(t)
              \/ RCAnswers \/ RCRefuses \/ SampleLost \/ LinkLost
              \/ RCChanges \/ RobotMoves

Next == \/ \E c \in Calls : Start(c)
        \/ OtherCallDisconnects
        \/ Connecting \/ Reading \/ Asking \/ Listener \/ Controller

Spec == Init /\ [][Next]_vars
----------------------------------------------------------------------------------
(* Properties. *)

Stages    == {"none", "REQ_CONNECT", "SYS_REQ_CURPOS_INFO", "SYS_REQ_RC_STATUS", "SYS_REQ_RC_ERRMSG",
              "SYS_REQ_RTMC_FORMAT_INFO", "REQ_GET_CURPOS_INFO", "REQ_EXEC_RTPOS"}
SampleSet == [topic : Topics \cup {"none", "answer"}, ok : BOOLEAN, at : Nat,
              why : {"none", "mode", "error", "unknown"}]

(* Types; and without an object there is no link, no request and no sample.   *)
TypeOK ==
  /\ pc \in {"idle", "entered", "updated", "reading", "sending", "waiting"}
  /\ call \in Calls \cup {"none"} /\ stage \in Stages
  /\ ret \in {"none", "connect", "status", "answer", "notice"}
  /\ cache \in [mode : Modes, num : [Kinds -> Numbers], info : [Kinds -> Infos],
                 msg : [Kinds -> Numbers]]
  /\ ja \in 0 .. pos /\ open \in BOOLEAN /\ link \in BOOLEAN /\ pending \in BOOLEAN
  /\ reader \in SampleSet /\ slot \in SampleSet
  /\ notice \in [Topics -> [at : Nat, new : BOOLEAN]]
  /\ log \in Seq(Status) /\ pos \in Nat /\ base \in [log : Nat, pos : Nat] /\ begun \in 0 .. pos
  /\ known \in Nat /\ learned \in BOOLEAN /\ missed \in BOOLEAN
  /\ ~open => ~link /\ ~pending /\ reader = NoSample /\ slot = NoSample
             /\ \A t \in Topics : notice[t] = NoNotice

(* The status the client holds in a connection is, in its mode and its        *)
(* numbers, one that the controller had since the connection was made: never   *)
(* a mixture of two, never one of an earlier connection.                       *)
Snapshot ==
  open /\ known # 0 =>
    /\ base.log <= known /\ known <= Len(log)
    /\ cache.mode = log[known].mode /\ cache.num = log[known].num

(* The additional information belongs to the number beside it: the controller *)
(* once reported the two together, and no number comes with none.             *)
InfoOfNumber ==
  \A k \in Kinds :
    IF cache.num[k] = 0 THEN cache.info[k] = 0
    ELSE \E v \in 1 .. Len(log) : log[v].num[k] = cache.num[k] /\ log[v].info[k] = cache.info[k]

(* The messages are those of the numbers, unless the request for the messages *)
(* of the last change failed.                                                 *)
MessageOfNumber == Fetching \/ missed \/ cache.msg = cache.num

(* Between two calls a client that has the object has a status and a position *)
(* of this connection: Get_RCStatus and Get_CurrentJA never return one that is *)
(* older than the connection.                                                 *)
NoStaleSession ==
  open /\ pc = "idle" => known # 0 /\ learned /\ base.pos <= ja

(* A position taken from an answer is not older than the call that took it,   *)
(* whatever notices arrived before or after it.                               *)
CurrentFromAnswer == ret = "answer" => begun <= ja

(* readme.md, RCSTATUS: with no error or warning the message is empty.        *)
NoErrorNoMessage ==
  ret = "status" =>
    \A k \in Kinds : cache.num[k] = 0 => cache.msg[k] = 0
=================================================================================
