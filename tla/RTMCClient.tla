------------------------------- MODULE RTMCClient -------------------------------
(***************************************************************************)
(* The client (class RTMCClient): application threads call the functions of *)
(* RTMCApi, one at a time under timed_mtx_common_, over the connection that *)
(* RequestReply promises (DDSCommunication implements it), to a controller  *)
(* that keeps the formats of Exec_RTMC and the result of RBCheck beyond a   *)
(* connection, beyond a client, and until it restarts.                       *)
(*                                                                          *)
(* DDSCommunication_Ptr is null exactly when the channel is closed.  The     *)
(* controller executes requests in the order they reach it, also those      *)
(* whose caller has given up; the answers to these are dropped (the case     *)
(* FreshUnlessLate of DDSCommunication proves).                             *)
(***************************************************************************)
EXTENDS RTMCApi, Sequences

CONSTANTS Threads, NoThread,
          Calls,     \* calls the threads make, out of RTMCApi
          RCModel,   \* the controller's robot model
          Values,    \* values the controller may put into an answer
          Codes, Details,  \* error codes and details of its refusals
          MaxInbox   \* bound: requests waiting in the controller, the next one is lost

ASSUME ThreadsAssumption == NoThread \notin Threads
ASSUME RCModelAssumption == RCModel \in Models
ASSUME MaxInboxAssumption == MaxInbox \in Nat

(* The calls are those of RTMCApi, as far as the proofs depend on it. *)
ASSUME CallsAssumption ==
  \A c \in Calls :
    /\ c.kind = "config" => c.outcomes \subseteq {"CLIENT_SUCCESS", "CLIENT_ARG_ERR", "CLIENT_UNDEF_ERR"}
    /\ c.kind = "disconnect" => c = RTMC_DisConnect
    /\ c.legal => c.model \in Models \union {NoModel}
    /\ c.loads => c.model = NoModel
    /\ c.kind = "connect" => c.cmd = "REQ_CONNECT"
    /\ c.cmd = "REQ_SET_RTPOS_IO_FORM" => c = Set_RTMCSendFormat(c.arg)
    /\ c.cmd = "REQ_SET_CURPOS_IO_FORM" => c = Set_RTMCRecvFormat(c.arg)
    /\ c.cmd = "REQ_EXEC_RTPOS" => \E f \in Formats : c = Exec(f[1], f[2])

VARIABLES
  owner,        \* the thread that holds timed_mtx_common_
  pc, call,     \* per thread: where it is, and in which call
  ret,          \* per thread: what its last call returned
  stage,        \* the request the owner sends or has sent
  reply,        \* its answer
  cache,        \* sendformat, recvformat and rb_model
  phase, request, answered,  \* the channel, see RequestReply
  link,         \* DDSConnection() of the current object
  rc,           \* the controller's formats and its result of RBCheck
  inbox,        \* requests the controller has not executed yet, in order
  established,  \* history: RTMC_Connect succeeded for the current object
  leaked        \* history: a call returned and kept the lock

channel == <<phase, request, answered>>
threads == <<owner, pc, call, ret, leaked>>
vars == <<threads, stage, reply, cache, channel, link, rc, inbox, established>>
----------------------------------------------------------------------------------
NoCall  == Configuration({})
NoReply == [ok |-> FALSE, word |-> 0, formats |-> <<0, 0>>, sized |-> FALSE,
            code |-> -1, detail |-> 0]

Commands == {c.cmd : c \in Calls} \union
            {"REQ_CONNECT", "SYS_REQ_CURPOS_INFO", "SYS_REQ_RC_STATUS", "SYS_REQ_RC_ERRMSG",
             "SYS_REQ_RTMC_FORMAT_INFO", "REQ_GET_CURPOS_INFO"}

Channel == INSTANCE RequestReply WITH Cmds <- Commands, NoCmd <- "none"

NoCache == [send |-> 0, recv |-> 0, model |-> NoModel]

Init ==
  /\ owner = NoThread /\ leaked = FALSE
  /\ pc = [t \in Threads |-> "idle"]
  /\ call = [t \in Threads |-> NoCall]
  /\ ret = [t \in Threads |-> "none"]
  /\ stage = NoCall /\ reply = NoReply
  /\ cache = NoCache
  /\ Channel!Init /\ link = FALSE
  /\ rc = [send |-> 0, recv |-> 0, checked |-> FALSE]
  /\ inbox = <<>> /\ established = FALSE
----------------------------------------------------------------------------------
(* Judging an answer. *)

StatusErrors ==
  <<"CLIENT_OPERATION_MODE_ERR", "CLIENT_RBCHK_ERR", "CLIENT_RTMC_MODE_ERR",
    "CLIENT_RCERR_STATUS_ERR", "CLIENT_RCERR_STATUS_ERR", "CLIENT_RCESTOP_STATUS_ERR",
    "CLIENT_RCSG_STATUS_ERR">>

(* The meaning of a refusal, for a function that knows the given details.    *)
Convert_RTMCRCErrInfo(code, detail, details) ==
  IF code \in 1 .. 7 THEN StatusErrors[code]
  ELSE IF code # 0 THEN "CLIENT_UNDEF_ERR"
  ELSE IF details = {} \/ detail = 0 THEN "CLIENT_RCERR_STATUS_ERR"
  ELSE IF detail \in details THEN "CLIENT_ERR" ELSE "CLIENT_UNDEF_ERR"

(* A variant that does not look at the formats it is told.                   *)
AcceptableUnread(req, a) ==
  /\ req.cmd \in SizedCommands => a.sized
  /\ InRange(a.word, req.values)

Acceptable(req, a) ==
  /\ req.cmd \in SizedCommands => a.sized
  /\ InRange(a.word, req.values)
  /\ req.cached = "send" => a.word = cache.send
  /\ req.cached = "recv" => a.word = cache.recv
  /\ req.cmd = "SYS_REQ_RTMC_FORMAT_INFO" => a.formats \in Formats

Outcome(req, a) ==
  IF ~a.ok THEN Convert_RTMCRCErrInfo(a.code, a.detail, req.details)
  ELSE IF ~Acceptable(req, a) THEN "CLIENT_UNDEF_ERR"
  ELSE IF req.verdict /\ a.word = 0 THEN "CLIENT_ERR"
  ELSE "CLIENT_SUCCESS"
----------------------------------------------------------------------------------
(* Entering and leaving a call. *)

Start(t, c) ==
  /\ pc[t] = "idle"
  /\ pc' = [pc EXCEPT ![t] = "locking"]
  /\ call' = [call EXCEPT ![t] = c]
  /\ ret' = [ret EXCEPT ![t] = "none"]
  /\ UNCHANGED <<owner, leaked, stage, reply, cache, channel, link, rc, inbox, established>>

(* A variant in which a thread whose wait for the lock has ended goes on.    *)
AcquireAnyway(t) ==
  /\ pc[t] = "locking"
  /\ owner' = t /\ pc' = [pc EXCEPT ![t] = "entered"]
  /\ UNCHANGED <<call, ret, leaked, stage, reply, cache, channel, link, rc, inbox, established>>

Acquire(t) ==
  /\ pc[t] = "locking" /\ owner = NoThread
  /\ owner' = t /\ pc' = [pc EXCEPT ![t] = "entered"]
  /\ UNCHANGED <<call, ret, leaked, stage, reply, cache, channel, link, rc, inbox, established>>

(* try_lock_for gives up after 3 s.                                          *)
LockTimeout(t) ==
  /\ pc[t] = "locking" /\ owner # NoThread
  /\ pc' = [pc EXCEPT ![t] = "idle"]
  /\ call' = [call EXCEPT ![t] = NoCall]
  /\ ret' = [ret EXCEPT ![t] = "CLIENT_TIMEOUT_ERR"]
  /\ UNCHANGED <<owner, leaked, stage, reply, cache, channel, link, rc, inbox, established>>

Leave(t, code) ==
  /\ pc' = [pc EXCEPT ![t] = "idle"]
  /\ call' = [call EXCEPT ![t] = NoCall]
  /\ ret' = [ret EXCEPT ![t] = code]
  /\ stage' = NoCall /\ reply' = NoReply

(* A variant that returns from a long password without unlocking.            *)
ReturnLocked(t, code) ==
  /\ Leave(t, code)
  /\ owner' = IF code = "CLIENT_ARG_ERR" THEN owner ELSE NoThread
  /\ UNCHANGED leaked

Return(t, code) ==
  /\ Leave(t, code)
  /\ owner' = NoThread /\ UNCHANGED leaked

(* RTMC_DisConnect returns from a failed request without unlocking.          *)
ReturnDisConnect(t, code) ==
  IF code = "CLIENT_SUCCESS"
    THEN Return(t, code)
    ELSE Leave(t, "CLIENT_ERR") /\ leaked' = TRUE /\ UNCHANGED owner

Finish(t, code) ==
  IF call[t].kind = "disconnect" THEN ReturnDisConnect(t, code) ELSE Return(t, code)

(* The next request of the call. *)
Proceed(t, req) ==
  /\ pc' = [pc EXCEPT ![t] = "sending"]
  /\ stage' = req /\ reply' = NoReply
  /\ UNCHANGED <<owner, call, ret, leaked>>

(* DisconnectRC: what the controller still holds is nobody's any more.       *)
DisconnectRC ==
  /\ Channel!Hangup
  /\ link' = FALSE /\ established' = FALSE
  /\ inbox' = [i \in DOMAIN inbox |-> [inbox[i] EXCEPT !.live = FALSE]]

Same == UNCHANGED <<cache, rc>>
KeepConnection == UNCHANGED <<channel, link, inbox, established>>

(* The call ends with code; the connection ends with it if drop.             *)
End(t, code, drop) ==
  /\ Finish(t, code)
  /\ IF drop THEN DisconnectRC ELSE KeepConnection
----------------------------------------------------------------------------------
(* The first part of a call: what it does before it sends anything. *)

Configure(t) ==
  /\ pc[t] = "entered" /\ call[t].kind = "config"
  /\ \E code \in IF phase = "closed" THEN call[t].outcomes
                 ELSE {"CLIENT_ERR"} \union (call[t].outcomes \intersect {"CLIENT_ARG_ERR"}) :
       End(t, code, FALSE)
  /\ Same

(* RTMC_Connect refuses while the current object is connected ...            *)
ConnectRefused(t) ==
  /\ pc[t] = "entered" /\ call[t].kind = "connect" /\ phase = "open" /\ link
  /\ End(t, "CLIENT_COM_ERR", FALSE)
  /\ Same

(* ... and deletes one that is not.                                          *)
ConnectCleans(t) ==
  /\ pc[t] = "entered" /\ call[t].kind = "connect" /\ phase = "open" /\ ~link
  /\ DisconnectRC
  /\ UNCHANGED <<threads, stage, reply>> /\ Same

(* The password is too long, or init() or wait_for_connect fails.            *)
ConnectFails(t) ==
  /\ pc[t] = "entered" /\ call[t].kind = "connect" /\ phase = "closed"
  /\ \E code \in IF call[t].legal THEN {"CLIENT_COM_ERR", "CLIENT_UNDEF_ERR"}
                                  ELSE {"CLIENT_ARG_ERR"} : End(t, code, FALSE)
  /\ Same

Connected(t) ==
  /\ pc[t] = "entered" /\ call[t].kind = "connect" /\ phase = "closed" /\ call[t].legal
  /\ Channel!Open /\ link' = TRUE
  /\ Proceed(t, call[t])
  /\ UNCHANGED <<inbox, established>> /\ Same

(* What a function that sends a request checks itself, in this order.        *)
Refusal(c) ==
  IF phase = "closed" THEN "CLIENT_COM_ERR"
  ELSE IF ~c.legal \/ <<cache.send, cache.recv>> \notin c.formats THEN "CLIENT_ARG_ERR"
  ELSE IF c.loads /\ cache.model = NoModel THEN "CLIENT_RBCHK_ERR"
  ELSE IF c.loads /\ cache.model \notin c.fits THEN "CLIENT_ARG_ERR"
  ELSE "none"

Refuse(t) ==
  /\ pc[t] = "entered" /\ call[t].kind \in {"request", "disconnect"}
  /\ Refusal(call[t]) # "none"
  /\ IF call[t].kind = "disconnect" THEN Return(t, "CLIENT_COM_ERR") /\ KeepConnection
                                    ELSE End(t, Refusal(call[t]), FALSE)
  /\ Same

(* RBCheck makes the model the client's before the controller has seen it.   *)
Prepare(t) ==
  /\ pc[t] = "entered" /\ call[t].kind \in {"request", "disconnect"}
  /\ Refusal(call[t]) = "none"
  /\ Proceed(t, call[t])
  /\ cache' = IF call[t].model # NoModel THEN [cache EXCEPT !.model = call[t].model] ELSE cache
  /\ KeepConnection /\ UNCHANGED rc

(* Get_RCStatus and Get_CurrentJA look at the connection and read a notice.  *)
ReadRefused(t) ==
  /\ pc[t] = "entered" /\ call[t].kind \in {"status", "position"}
  /\ \/ phase = "closed" /\ End(t, "CLIENT_COM_ERR", FALSE)
     \/ phase = "open" /\ ~link /\ End(t, "CLIENT_COM_ERR", TRUE)
     \/ phase = "open" /\ link /\ End(t, "CLIENT_UNDEF_ERR", TRUE)
  /\ Same

(* A new error or warning number: its message is fetched first.              *)
ReadErrorMessage(t) ==
  /\ pc[t] = "entered" /\ call[t].kind \in {"status", "position"} /\ phase = "open" /\ link
  /\ Proceed(t, ErrorMessage) /\ KeepConnection /\ Same

(* The position comes from the controller in auto mode, else from a notice.  *)
AskPosition(t) == call[t].kind = "position" /\ Proceed(t, Get_CurrentJA) /\ KeepConnection

NoticePosition(t) == \/ End(t, "CLIENT_SUCCESS", FALSE)
                     \/ End(t, "CLIENT_UNDEF_ERR", TRUE)

Read(t) == \/ call[t].kind = "status" /\ End(t, "CLIENT_SUCCESS", FALSE)
           \/ AskPosition(t)
           \/ call[t].kind = "position" /\ NoticePosition(t)

ReadNotice(t) ==
  /\ pc[t] = "entered" /\ call[t].kind \in {"status", "position"} /\ phase = "open" /\ link
  /\ Read(t) /\ Same
----------------------------------------------------------------------------------
(* SendProc_Common. *)

SendNotConnected(t) ==
  /\ pc[t] = "sending" /\ ~link
  /\ End(t, "CLIENT_COM_ERR", TRUE)
  /\ Same

Send(t) ==
  /\ pc[t] = "sending" /\ link
  /\ Channel!Call(stage.cmd)
  /\ inbox' = IF Len(inbox) < MaxInbox
                THEN Append(inbox, [req |-> stage, live |-> TRUE, trusted |-> established])
                ELSE inbox
  /\ pc' = [pc EXCEPT ![t] = "waiting"]
  /\ UNCHANGED <<owner, call, ret, leaked, stage, reply, link, established>> /\ Same

(* A variant that waits for as long as the controller takes.                 *)
WaitForEver(t) ==
  /\ pc[t] = "waiting" /\ ~link
  /\ End(t, "CLIENT_COM_ERR", TRUE)
  /\ Same

(* A variant that keeps the connection after a failed request.               *)
KeepAfterFailure(t) ==
  /\ pc[t] = "waiting"
  /\ \E code \in {"CLIENT_COM_ERR", "CLIENT_UNDEF_ERR"} : Finish(t, code)
  /\ Channel!Succeed
  /\ UNCHANGED <<link, inbox, established>> /\ Same

(* DDS_Send reports TIMEOUT_ERR or UNDEFINED_ERR, whether or not the answer  *)
(* is there.                                                                 *)
SendFails(t) ==
  /\ pc[t] = "waiting"
  /\ \E code \in {"CLIENT_COM_ERR", "CLIENT_UNDEF_ERR"} : End(t, code, TRUE)
  /\ Same

SendSucceeds(t) ==
  /\ pc[t] = "waiting" /\ reply # NoReply
  /\ Channel!Succeed
  /\ pc' = [pc EXCEPT ![t] = "answered"]
  /\ UNCHANGED <<owner, call, ret, leaked, stage, reply, link, inbox, established>> /\ Same
----------------------------------------------------------------------------------
(* The last part of a call: what it does with the answer. *)

(* A variant of the rule below in which an answer without meaning leaves the *)
(* connection as it is.                                                      *)
DropsTooLittle(t, code) ==
  CASE call[t].kind = "connect" -> stage.cmd # "SYS_REQ_RC_ERRMSG"
    [] call[t].kind = "disconnect" -> TRUE
    [] OTHER -> FALSE

(* Whether a failed answer ends the connection: always if it has no meaning, *)
(* otherwise in RTMC_Connect, but for the error message, in RTMC_DisConnect, *)
(* and for the error message in the functions that read.                     *)
Drops(t, code) ==
  \/ code = "CLIENT_UNDEF_ERR"
  \/ call[t].kind = "disconnect"
  \/ call[t].kind = "connect" /\ stage.cmd # "SYS_REQ_RC_ERRMSG"
  \/ call[t].kind \in {"status", "position"} /\ stage.cmd = "SYS_REQ_RC_ERRMSG"

Answer(t) == Outcome(stage, reply)

NoticeInstead(t) == stage.cmd = "REQ_GET_CURPOS_INFO" /\ Answer(t) = "CLIENT_OPERATION_MODE_ERR"

Fail(t) ==
  /\ pc[t] = "answered" /\ Answer(t) # "CLIENT_SUCCESS" /\ ~NoticeInstead(t)
  /\ End(t, Answer(t), Drops(t, Answer(t)))
  /\ Same

FallBackOnNotice(t) ==
  /\ pc[t] = "answered" /\ NoticeInstead(t)
  /\ NoticePosition(t) /\ Same

(* A variant that keeps the old format until it is read back.                *)
KeepFormat(req, c) == c

(* The formats of the cache after a successful request.                      *)
SetFormat(req, c) ==
  CASE req.cmd = "REQ_SET_RTPOS_IO_FORM"  -> [c EXCEPT !.send = req.arg]
    [] req.cmd = "REQ_SET_CURPOS_IO_FORM" -> [c EXCEPT !.recv = req.arg]
    [] OTHER -> c

Succeed(t) ==
  /\ pc[t] = "answered" /\ call[t].kind \in {"request", "disconnect"}
  /\ Answer(t) = "CLIENT_SUCCESS"
  /\ cache' = SetFormat(stage, cache)
  /\ End(t, "CLIENT_SUCCESS", call[t].kind = "disconnect")
  /\ UNCHANGED rc

Reads(t) ==
  /\ pc[t] = "answered" /\ call[t].kind \in {"status", "position"}
  /\ Answer(t) = "CLIENT_SUCCESS"
  /\ IF stage.cmd = "SYS_REQ_RC_ERRMSG" THEN Read(t) ELSE End(t, "CLIENT_SUCCESS", FALSE)
  /\ Same

(* The requests of RTMC_Connect; the message is fetched if the error or      *)
(* warning number is not the one the client knows.                           *)
Following(cmd) ==
  CASE cmd = "REQ_CONNECT"         -> {ConnectPosition}
    [] cmd = "SYS_REQ_CURPOS_INFO" -> {ConnectStatus}
    [] cmd = "SYS_REQ_RC_STATUS"   -> {ErrorMessage, ConnectFormat}
    [] cmd = "SYS_REQ_RC_ERRMSG"   -> {ConnectFormat}
    [] OTHER -> {}

ConnectContinues(t) ==
  /\ pc[t] = "answered" /\ call[t].kind = "connect" /\ Answer(t) = "CLIENT_SUCCESS"
  /\ \E next \in Following(stage.cmd) : Proceed(t, next)
  /\ KeepConnection /\ Same

(* A variant that trusts the formats of the connection before.               *)
LearnNothing(formats) == [cache EXCEPT !.model = NoModel]

Learn(formats) == [send |-> formats[1], recv |-> formats[2], model |-> NoModel]

ConnectSucceeds(t) ==
  /\ pc[t] = "answered" /\ call[t].kind = "connect" /\ stage.cmd = "SYS_REQ_RTMC_FORMAT_INFO"
  /\ Answer(t) = "CLIENT_SUCCESS"
  /\ cache' = Learn(reply.formats)
  /\ established' = TRUE
  /\ Finish(t, "CLIENT_SUCCESS")
  /\ UNCHANGED <<channel, link, inbox, rc>>
----------------------------------------------------------------------------------
(* The application destroys the client while no function of it runs, with the *)
(* connection if there is one, and makes another client.                      *)
NewClient ==
  /\ \A t \in Threads : pc[t] = "idle"
  /\ owner' = NoThread /\ leaked' = FALSE
  /\ cache' = NoCache
  /\ IF phase = "closed" THEN KeepConnection ELSE DisconnectRC
  /\ UNCHANGED <<pc, call, ret, stage, reply, rc>>
----------------------------------------------------------------------------------
(* The controller and the link (external). *)

Execute(req, state) ==
  CASE req.cmd = "REQ_SET_RTPOS_IO_FORM"  -> [state EXCEPT !.send = req.arg]
    [] req.cmd = "REQ_SET_CURPOS_IO_FORM" -> [state EXCEPT !.recv = req.arg]
    [] req.cmd = "REQ_CHECK_ROBOTMODEL"   -> [state EXCEPT !.checked = req.arg = RCModel]
    [] OTHER -> state

(* The values a correct controller answers with, where the client relies on   *)
(* them; any of Values where it only passes them on.                          *)
Answers(req, state) ==
  CASE req.cmd = "REQ_GET_RTPOS_IO_FORM"  -> {state.send}
    [] req.cmd = "REQ_GET_CURPOS_IO_FORM" -> {state.recv}
    [] req.cmd \in {"REQ_CHECK_ROBOTMODEL", "REQ_GET_ROBOTMODEL_CHECKRESULT"} ->
         {IF state.checked THEN 1 ELSE 0}
    [] OTHER -> Values

(* Answers that are damaged: of another size, or with formats nobody defines. *)
AnswerSizes(req) == IF req.cmd \in SizedCommands THEN BOOLEAN ELSE {TRUE}
AnswerFormats(req) ==
  IF req.cmd = "SYS_REQ_RTMC_FORMAT_INFO" THEN {<<rc.send, rc.recv>>, <<2, 2>>}
                                          ELSE {<<0, 0>>}

(* It refuses what depends on the robot model before RBCheck.                *)
MayAccept(req) ==
  req.cmd \in {"REQ_SET_WEIGHT", "REQ_SET_INERTIA", "REQ_SET_MOTOR", "REQ_SET_POWER",
               "REQ_SET_ROBOT_CONTROL_MODE", "REQ_EXEC_RTPOS"} => rc.checked

Deliver(a) == reply' = IF Head(inbox).live THEN a ELSE reply

RCExecutes ==
  /\ inbox # <<>> /\ MayAccept(Head(inbox).req)
  /\ LET req == Head(inbox).req IN
       /\ rc' = Execute(req, rc)
       /\ \E word \in Answers(req, rc'), sized \in AnswerSizes(req),
             formats \in AnswerFormats(req) :
            Deliver([ok |-> TRUE, word |-> word, formats |-> formats, sized |-> sized,
                     code |-> 0, detail |-> 0])
  /\ inbox' = Tail(inbox)
  /\ UNCHANGED <<threads, stage, cache, channel, link, established>>

RCRefuses ==
  /\ inbox # <<>>
  /\ \E code \in Codes, detail \in Details :
       Deliver([NoReply EXCEPT !.code = code, !.detail = detail])
  /\ inbox' = Tail(inbox)
  /\ UNCHANGED <<threads, stage, cache, channel, link, rc, established>>

RequestLost ==
  /\ inbox # <<>>
  /\ inbox' = Tail(inbox)
  /\ UNCHANGED <<threads, stage, reply, cache, channel, link, rc, established>>

LinkLost ==
  /\ link /\ link' = FALSE
  /\ UNCHANGED <<threads, stage, reply, cache, channel, rc, inbox, established>>

(* A restart takes longer than the lease of the link.                        *)
RCRestarts ==
  /\ rc' = [send |-> 0, recv |-> 0, checked |-> FALSE]
  /\ inbox' = <<>> /\ link' = FALSE
  /\ UNCHANGED <<threads, stage, reply, cache, channel, established>>
----------------------------------------------------------------------------------
Begin(t) == \/ Configure(t) \/ ConnectRefused(t) \/ ConnectCleans(t) \/ ConnectFails(t)
            \/ Connected(t) \/ Refuse(t) \/ Prepare(t)
            \/ ReadRefused(t) \/ ReadErrorMessage(t) \/ ReadNotice(t)

Await(t) == SendNotConnected(t) \/ Send(t) \/ SendFails(t) \/ SendSucceeds(t)

Judge(t) == \/ Fail(t) \/ FallBackOnNotice(t) \/ Succeed(t) \/ Reads(t)
            \/ ConnectContinues(t) \/ ConnectSucceeds(t)

Thread(t) == Acquire(t) \/ LockTimeout(t) \/ Begin(t) \/ Await(t) \/ Judge(t)

Environment == RCExecutes \/ RCRefuses \/ RequestLost \/ LinkLost \/ RCRestarts

Next == \/ \E t \in Threads : Thread(t) \/ \E c \in Calls : Start(t, c)
        \/ NewClient \/ Environment

Spec == Init /\ [][Next]_vars

(* Every thread runs on, inside a call; DDS_Send returns and try_lock_for    *)
(* gives up in time.  Nothing is assumed of the controller or the link, nor  *)
(* that a thread ever makes a call or gets the lock.                         *)
FairSpec == Spec /\ \A t \in Threads : WF_vars(Thread(t))
----------------------------------------------------------------------------------

Stages == {"idle", "locking", "entered", "sending", "waiting", "answered"}
Busy(t) == pc[t] \in {"entered", "sending", "waiting", "answered"}
Errors == {StatusErrors[i] : i \in DOMAIN StatusErrors} \union
          {"CLIENT_ERR", "CLIENT_COM_ERR", "CLIENT_TIMEOUT_ERR", "CLIENT_ARG_ERR",
           "CLIENT_UNDEF_ERR"}

(* Every variable has its type; the cached formats are always defined ones.  *)
TypeOK ==
  /\ owner \in Threads \union {NoThread}
  /\ pc \in [Threads -> Stages]
  /\ call \in [Threads -> Calls \union {NoCall}]
  /\ ret \in [Threads -> Errors \union {"none", "CLIENT_SUCCESS"}]
  /\ cache \in [send : {0, 1}, recv : {0, 1}, model : Models \union {NoModel}]
  /\ phase \in {"closed", "open", "called"}
  /\ request \in Commands \union {"none"} /\ answered \in Commands \union {"none"}
  /\ link \in BOOLEAN /\ established \in BOOLEAN /\ leaked \in BOOLEAN
  /\ rc \in [send : {0, 1}, recv : {0, 1}, checked : BOOLEAN]
  /\ Len(inbox) <= MaxInbox
  /\ stage.cmd \in Commands \union {"none"}

(* A thread inside a call holds the lock, so that no other thread deletes the *)
(* object between its check of DDSCommunication_Ptr and its last use of it.   *)
ObjectAlive ==
  \A t \in Threads :
    /\ Busy(t) => owner = t
    /\ pc[t] \in {"sending", "answered"} => phase = "open"
    /\ pc[t] = "waiting" => phase = "called"

(* Between calls, sendformat and recvformat are the controller's formats for  *)
(* as long as the connection stands: a timeout, a refusal or a restart in the *)
(* middle of a change leaves no connection with different formats.            *)
FormatAgreement ==
  established /\ link /\ phase = "open" /\ (\A t \in Threads : pc[t] # "answered") =>
    cache.send = rc.send /\ cache.recv = rc.recv

(* Exec_RTMC never reaches the controller in another layout than the one the  *)
(* controller reads, even when its caller has given up on it since.           *)
ExecLayout ==
  inbox # <<>> /\ Head(inbox).trusted /\ Head(inbox).req.cmd = "REQ_EXEC_RTPOS" =>
    Head(inbox).req.arg = Layout(rc.send, rc.recv)

(* The requests a call sends. *)
StagesOf(c) ==
  CASE c.kind = "connect" -> {c, ConnectPosition, ConnectStatus, ErrorMessage, ConnectFormat}
    [] c.kind \in {"status", "position"} -> {ErrorMessage, Get_CurrentJA}
    [] OTHER -> {c}

(* The controller has at most one request whose caller still waits, behind   *)
(* all the others and not answered yet; behind a request of an established    *)
(* connection there is only a later connection.  An answer that is there      *)
(* means that the controller has nothing left to execute.                     *)
PipelineInv ==
  /\ \A i \in DOMAIN inbox :
       /\ inbox[i].live => i = Len(inbox) /\ phase = "called" /\ reply = NoReply /\ inbox[i].req = stage
       /\ inbox[i].trusted => i = 1
       /\ established => inbox[i].live
  /\ reply # NoReply => inbox = <<>> /\ owner # NoThread /\ pc[owner] \in {"waiting", "answered"}
  /\ \A t \in Threads :
       pc[t] \in {"sending", "waiting", "answered"} => stage \in StagesOf(call[t])

(* The formats of the controller while the owner has not looked at the answer *)
(* to its request: the cached ones with the change it asked for.              *)
Settled == IF reply.ok THEN SetFormat(stage, cache) ELSE cache

(* The formats of an established connection are the settled ones, those of an *)
(* answer to RTMC_Connect are still the controller's, and an Exec_RTMC about   *)
(* to be sent has the layout of the cached formats.                           *)
FormatInv ==
  /\ established => phase # "closed"
  /\ established /\ link => Settled.send = rc.send /\ Settled.recv = rc.recv
  /\ stage.cmd = "SYS_REQ_RTMC_FORMAT_INFO" /\ reply.ok /\ reply.formats \in Formats /\ link =>
       reply.formats = <<rc.send, rc.recv>>
  /\ \A t \in Threads :
       pc[t] = "sending" /\ stage.cmd = "REQ_EXEC_RTPOS" =>
         stage.arg = Layout(cache.send, cache.recv)

(* A thread that is not inside a call holds the lock only after the failed    *)
(* request of an RTMC_DisConnect.                                             *)
LockReturned == owner # NoThread /\ ~Busy(owner) => leaked

(* After CLIENT_COM_ERR and CLIENT_UNDEF_ERR there is no connection left, so  *)
(* that RTMC_Connect can make a new one; only RTMC_Connect itself says        *)
(* CLIENT_COM_ERR on a connection that stands.                                *)
ErrorEndsConnection ==
  [][\A t \in Threads :
       \/ Busy(t) /\ ret'[t] \in {"CLIENT_COM_ERR", "CLIENT_UNDEF_ERR"} => phase' = "closed"
       \/ call[t].kind = "connect" /\ pc[t] = "entered" /\ phase = "open" /\ link]_vars

(* Every call returns, whatever the controller, the link and the other        *)
(* threads do, even while the lock is never released.                         *)
CallsReturn == \A t \in Threads : pc[t] # "idle" ~> pc[t] = "idle"

(* The client as its application sees it: a connection counts once RTMC_Connect *)
(* has returned.                                                              *)
placeOf == [t \in Threads |-> IF Busy(t) THEN "inside"
                              ELSE IF pc[t] = "locking" THEN "queued" ELSE "outside"]
Connecting == \E t \in Threads : pc[t] \in {"sending", "waiting", "answered"} /\ call[t].kind = "connect"
sessionOf == IF phase = "closed" \/ Connecting THEN "none"
             ELSE IF established THEN "established" ELSE "half"

App == INSTANCE ClientCalls
         WITH place <- placeOf, session <- sessionOf, formats <- <<cache.send, cache.recv>>,
              model <- cache.model, stuck <- leaked,
              Results <- (Errors \union {"CLIENT_SUCCESS"}) \ {"CLIENT_TIMEOUT_ERR"}

(* The functions take effect one at a time, each at its return, and its code  *)
(* says which effect: which codes leave the session, the formats and the      *)
(* model alone, which end the session, that CLIENT_ARG_ERR means an argument   *)
(* that does not fit, and that after a failed RTMC_DisConnect every call times *)
(* out without effect until there is another client.                          *)
OneAtATime == App!Spec

(* CLIENT_TIMEOUT_ERR means that another function is being called.            *)
TimeoutOnlyWhenBusy ==
  [][\A t \in Threads :
       pc[t] = "locking" /\ ret'[t] = "CLIENT_TIMEOUT_ERR" => \E u \in Threads : Busy(u)]_vars

(* Between calls a connection that stands is one that RTMC_Connect reported   *)
(* as established: after an error of RTMC_Connect it can be called again.     *)
NoHalfOpen == phase = "open" /\ (\A t \in Threads : ~Busy(t)) => established

(* CLIENT_RBCHK_ERR is returned only while the controller has not confirmed   *)
(* the robot model.                                                           *)
RBChkErrMeansUnchecked ==
  [][\A t \in Threads :
       pc[t] = "entered" /\ ret'[t] = "CLIENT_RBCHK_ERR" => ~rc.checked]_vars
=================================================================================
