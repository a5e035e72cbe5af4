---------------------------- MODULE RTMCTypes_proofs ----------------------------
(***************************************************************************)
(* Types of RTMCClient, and what an error means: for any threads, calls and *)
(* controller answers, a function that returns CLIENT_COM_ERR or            *)
(* CLIENT_UNDEF_ERR leaves no connection.                                    *)
(*                                                                          *)
(* RTMC_DisConnect is the function that needs the types: it would return     *)
(* CLIENT_COM_ERR and keep the connection if the cached formats were ever     *)
(* undefined ones.                                                           *)
(***************************************************************************)
EXTENDS RTMCClient_proofs

Returns == Errors \union {"none", "CLIENT_SUCCESS"}

(* A request for a format asks for a defined one. *)
Defined(req) == req.cmd \in SetCommands => req.arg \in {0, 1}

(* What the threads have returned; nothing while they are in a call.          *)
ReturnTypes ==
  /\ ret \in [Threads -> Returns] /\ leaked \in BOOLEAN
  /\ \A t \in Threads : pc[t] # "idle" => ret[t] = "none"

ChannelTypes == request \in Commands \union {"none"} /\ answered \in Commands \union {"none"}

InboxTypes == Len(inbox) <= MaxInbox /\ \A i \in DOMAIN inbox : Defined(inbox[i].req)

CacheTypes == cache \in [send : {0, 1}, recv : {0, 1}, model : Models \union {NoModel}]

StateTypes ==
  /\ CacheTypes
  /\ rc \in [send : {0, 1}, recv : {0, 1}, checked : BOOLEAN]
  /\ Defined(stage)

ClientTypes == ReturnTypes /\ ChannelTypes /\ InboxTypes /\ StateTypes
--------------------------------------------------------------------------------
(* Requests. *)

LEMMA RequestCommands ==
  ASSUME NEW r \in Requests
  PROVE  r.cmd \in Commands \union {"none"}
<1>1. CASE r \in Calls
  BY <1>1 DEF Commands
<1>2. NoCall.cmd = "none"
  BY DEF NoCall, Configuration, Request
<1>3. Get_CurrentJA.cmd = "REQ_GET_CURPOS_INFO"
  BY DEF Get_CurrentJA, Request
<1>4. /\ ConnectPosition.cmd = "SYS_REQ_CURPOS_INFO"
      /\ ConnectStatus.cmd = "SYS_REQ_RC_STATUS"
      /\ ErrorMessage.cmd = "SYS_REQ_RC_ERRMSG"
      /\ ConnectFormat.cmd = "SYS_REQ_RTMC_FORMAT_INFO"
  BY DEF ConnectPosition, ConnectStatus, ErrorMessage, ConnectFormat, Request
<1>5. QED
  BY <1>1, <1>2, <1>3, <1>4 DEF Requests, Commands

(* The requests of the library itself ask for no format. *)
LEMMA FixedDefined ==
  \A r \in {NoCall, ConnectPosition, ConnectStatus, ErrorMessage, ConnectFormat, Get_CurrentJA} :
    Defined(r)
BY FixedRequests DEF Defined

(* A call that passes its check asks for a defined format and for a model     *)
(* that there is.                                                             *)
LEMMA LegalCalls ==
  ASSUME NEW c \in Calls \union {NoCall}, c.legal
  PROVE  Defined(c) /\ c.model \in Models \union {NoModel}
<1>1. CASE c = NoCall
  BY <1>1, FixedDefined DEF NoCall, Configuration, Request
<1>2. CASE c \in Calls
  <2>1. CASE c.cmd = "REQ_SET_RTPOS_IO_FORM"
    <3>1. c = Set_RTMCSendFormat(c.arg)
      BY <1>2, <2>1, CallsAssumption
    <3>2. \A f : Set_RTMCSendFormat(f).legal = (f \in {0, 1})
      BY DEF Set_RTMCSendFormat, Knowing, Limited, Request
    <3>3. QED
      BY <1>2, <3>1, <3>2, CallsAssumption DEF Defined
  <2>2. CASE c.cmd = "REQ_SET_CURPOS_IO_FORM"
    <3>1. c = Set_RTMCRecvFormat(c.arg)
      BY <1>2, <2>2, CallsAssumption
    <3>2. \A f : Set_RTMCRecvFormat(f).legal = (f \in {0, 1})
      BY DEF Set_RTMCRecvFormat, Limited, Request
    <3>3. QED
      BY <1>2, <3>1, <3>2, CallsAssumption DEF Defined
  <2>3. QED
    BY <1>2, <2>1, <2>2, CallsAssumption DEF Defined, SetCommands
<1>3. QED
  BY <1>1, <1>2

(* RTMC_DisConnect is refused without a connection only. *)
LEMMA DisconnectRefusal ==
  ASSUME CacheTypes, NEW c \in Calls \union {NoCall}, c.kind = "disconnect",
         Refusal(c) # "none"
  PROVE  phase = "closed"
<1>1. NoCall.kind = "config"
  BY DEF NoCall, Configuration, Request
<1>2. c = RTMC_DisConnect
  BY <1>1, CallsAssumption
<1>3. c.legal = TRUE /\ c.formats = Formats /\ c.loads = FALSE
  BY <1>2 DEF RTMC_DisConnect, Request
<1>4. <<cache.send, cache.recv>> \in Formats
  BY DEF CacheTypes, Formats
<1>5. QED
  BY <1>3, <1>4 DEF Refusal
--------------------------------------------------------------------------------
(* The codes that an answer can mean. *)
AnswerCodes == Returns \ {"none", "CLIENT_COM_ERR", "CLIENT_TIMEOUT_ERR", "CLIENT_ARG_ERR"}

(* What becomes of an answer is one of them; only an answer with defined      *)
(* formats is a success.                                                      *)
LEMMA OutcomeCodes ==
  ASSUME NEW req, NEW a
  PROVE  /\ Outcome(req, a) \in AnswerCodes
         /\ Outcome(req, a) = "CLIENT_SUCCESS" => Acceptable(req, a)
<1>1. /\ DOMAIN StatusErrors = 1 .. 7
      /\ \A i \in 1 .. 7 : StatusErrors[i] \in AnswerCodes \ {"CLIENT_SUCCESS"}
  BY DEF StatusErrors, Errors, Returns, AnswerCodes
<1>2. \A code, detail, details :
        Convert_RTMCRCErrInfo(code, detail, details) \in AnswerCodes \ {"CLIENT_SUCCESS"}
  <2>1. {"CLIENT_UNDEF_ERR", "CLIENT_RCERR_STATUS_ERR", "CLIENT_ERR"} \subseteq
          AnswerCodes \ {"CLIENT_SUCCESS"}
    BY <1>1 DEF Returns, Errors, StatusErrors, AnswerCodes
  <2>2. QED
    BY <1>1, <2>1 DEF Convert_RTMCRCErrInfo
<1>3. "CLIENT_SUCCESS" \in AnswerCodes
  BY DEF Returns, AnswerCodes
<1>4. {"CLIENT_ERR", "CLIENT_UNDEF_ERR"} \subseteq AnswerCodes \ {"CLIENT_SUCCESS"}
  BY DEF Returns, Errors, AnswerCodes
<1>5. QED
  BY <1>2, <1>3, <1>4 DEF Outcome

(* Leaving a call returns a code. *)
LEMMA LeaveReturns ==
  ASSUME FormatDiscipline, ReturnTypes, NEW t \in Threads, NEW code \in Returns, Leave(t, code),
         leaked' \in BOOLEAN
  PROVE  /\ ReturnTypes' /\ stage' = NoCall
         /\ ret'[t] = code /\ \A u \in Threads \ {t} : ret'[u] = ret[u]
<1>1. /\ ret' = [ret EXCEPT ![t] = code] /\ pc' = [pc EXCEPT ![t] = "idle"]
      /\ stage' = NoCall
  BY DEF Leave
<1>2. pc \in [Threads -> Stages]
  BY DEF FormatDiscipline, LockDiscipline, LockTypes
<1>3. QED
  BY <1>1, <1>2 DEF ReturnTypes

LEMMA FinishReturns ==
  ASSUME FormatDiscipline, ReturnTypes, NEW t \in Threads, NEW code \in Returns,
         Finish(t, code) \/ Return(t, code)
  PROVE  /\ ReturnTypes' /\ stage' = NoCall
         /\ ret'[t] \in {code, "CLIENT_ERR"} /\ \A u \in Threads \ {t} : ret'[u] = ret[u]
<1>1. PICK c \in {code, "CLIENT_ERR"} : Leave(t, c)
  BY DEF Finish, ReturnDisConnect, Return
<1>2. leaked' \in BOOLEAN
  BY DEF Finish, ReturnDisConnect, Return, ReturnTypes
<1>3. "CLIENT_ERR" \in Returns
  BY DEF Returns, Errors
<1>4. QED
  BY <1>1, <1>2, <1>3, LeaveReturns

(* The end of a connection, or its going on, keeps the types of what it is    *)
(* made of.                                                                   *)
LEMMA ConnectionTypes ==
  ASSUME FormatDiscipline, ChannelTypes, InboxTypes, KeepConnection \/ DisconnectRC
  PROVE  ChannelTypes' /\ InboxTypes'
<1>1. CASE KeepConnection
  BY <1>1 DEF KeepConnection, channel, ChannelTypes, InboxTypes, Defined
<1>2. CASE DisconnectRC
  <2>1. ChannelTypes'
    BY <1>2 DEF DisconnectRC, Channel!Hangup, ChannelTypes
  <2>2. /\ inbox' \in Seq(Entries) /\ DOMAIN inbox' = DOMAIN inbox
        /\ \A i \in DOMAIN inbox : inbox'[i].req = inbox[i].req
    BY <1>2, Dropping
  <2>3. Len(inbox') = Len(inbox)
    <3>1. inbox \in Seq(Entries)
      BY DEF FormatDiscipline, FormatTypes
    <3>2. Len(inbox) \in Nat /\ Len(inbox') \in Nat /\ 1 .. Len(inbox) = 1 .. Len(inbox')
      BY <2>2, <3>1, LenProperties
    <3>3. QED
      BY <3>2
  <2>4. QED
    BY <2>1, <2>2, <2>3 DEF InboxTypes, Defined
<1>3. QED
  BY <1>1, <1>2

(* The end of a call. *)
LEMMA EndTypes ==
  ASSUME FormatDiscipline, ClientTypes, NEW t \in Threads, NEW code \in Returns, NEW drop,
         End(t, code, drop), CacheTypes', rc' = rc
  PROVE  /\ ClientTypes'
         /\ ret'[t] \in {code, "CLIENT_ERR"} /\ \A u \in Threads \ {t} : ret'[u] = ret[u]
         /\ drop => phase' = "closed"
         /\ ~drop => phase' = phase
<1>1. /\ ReturnTypes' /\ stage' = NoCall
      /\ ret'[t] \in {code, "CLIENT_ERR"} /\ \A u \in Threads \ {t} : ret'[u] = ret[u]
  BY FinishReturns DEF End, ClientTypes
<1>2. ChannelTypes' /\ InboxTypes'
  BY ConnectionTypes DEF End, ClientTypes
<1>3. StateTypes'
  BY <1>1, FixedDefined DEF ClientTypes, StateTypes, Defined
<1>4. /\ drop => phase' = "closed"
      /\ ~drop => phase' = phase
  BY DEF End, DisconnectRC, KeepConnection, channel, Channel!Hangup
<1>5. QED
  BY <1>1, <1>2, <1>3, <1>4 DEF ClientTypes

(* A step inside a call that sends no request. *)
LEMMA InsideTypes ==
  ASSUME FormatDiscipline, ClientTypes, NEW t \in Threads, Busy(t),
         NEW place \in Stages, pc' = [pc EXCEPT ![t] = place], ret' = ret, leaked' = leaked,
         ChannelTypes', InboxTypes', CacheTypes', rc' = rc, Defined(stage')
  PROVE  ClientTypes'
<1>1. pc \in [Threads -> Stages]
  BY DEF FormatDiscipline, LockDiscipline, LockTypes
<1>2. ReturnTypes'
  BY <1>1 DEF ClientTypes, ReturnTypes, Busy
<1>3. StateTypes'
  BY DEF ClientTypes, StateTypes, Defined
<1>4. QED
  BY <1>2, <1>3 DEF ClientTypes

LEMMA ProceedTypes ==
  ASSUME FormatDiscipline, ClientTypes, NEW t \in Threads, Busy(t), NEW req, Defined(req),
         Proceed(t, req), ChannelTypes', InboxTypes', CacheTypes', rc' = rc
  PROVE  ClientTypes' /\ ret' = ret
BY InsideTypes DEF Proceed, Stages
--------------------------------------------------------------------------------
(* The step of a thread inside a call returns CLIENT_COM_ERR or               *)
(* CLIENT_UNDEF_ERR only without a connection, or as RTMC_Connect on one that  *)
(* stands, and touches no other thread.                                       *)
Serious == {"CLIENT_COM_ERR", "CLIENT_UNDEF_ERR"}

Excused(t) == call[t].kind = "connect" /\ pc[t] = "entered" /\ phase = "open" /\ link

Reports(t) == /\ \A u \in Threads \ {t} : ret'[u] = ret[u]
              /\ Busy(t) /\ ret'[t] \in Serious => phase' = "closed" \/ Excused(t)

LEMMA EndReports ==
  ASSUME FormatDiscipline, ClientTypes, NEW t \in Threads, NEW code \in Returns, NEW drop,
         End(t, code, drop), CacheTypes', rc' = rc,
         code \in Serious => drop \/ phase = "closed" \/ Excused(t)
  PROVE  ClientTypes' /\ Reports(t)
<1>1. "CLIENT_ERR" \notin Serious
  BY DEF Serious
<1>2. QED
  BY <1>1, EndTypes DEF Reports

LEMMA ProceedReports ==
  ASSUME FormatDiscipline, ClientTypes, NEW t \in Threads, Busy(t), NEW req, Defined(req),
         Proceed(t, req), ChannelTypes', InboxTypes', CacheTypes', rc' = rc
  PROVE  ClientTypes' /\ Reports(t)
<1>1. ClientTypes' /\ ret' = ret
  BY ProceedTypes
<1>2. ret[t] = "none"
  BY DEF ClientTypes, ReturnTypes, Busy
<1>3. QED
  BY <1>1, <1>2 DEF Reports, Serious

(* The codes that the model names. *)
LEMMA KnownCodes ==
  {"CLIENT_SUCCESS", "CLIENT_ERR", "CLIENT_COM_ERR", "CLIENT_UNDEF_ERR", "CLIENT_ARG_ERR",
   "CLIENT_RBCHK_ERR", "CLIENT_TIMEOUT_ERR", "none"} \subseteq Returns
<1>1. StatusErrors[2] = "CLIENT_RBCHK_ERR" /\ 2 \in DOMAIN StatusErrors
  BY DEF StatusErrors
<1>2. QED
  BY <1>1 DEF Returns, Errors

(* A thread that waits for the lock, gets it, or gives up.                    *)
LEMMA EntersTypes ==
  ASSUME FormatDiscipline, ClientTypes, NEW t \in Threads,
         Acquire(t) \/ LockTimeout(t) \/ \E c \in Calls : Start(t, c)
  PROVE  ClientTypes' /\ Reports(t)
<1>1. UNCHANGED <<leaked, stage, cache, channel, rc, inbox>>
  BY DEF Acquire, LockTimeout, Start
<1>2. pc \in [Threads -> Stages] /\ ret \in [Threads -> Returns] /\ ~Busy(t)
  BY DEF FormatDiscipline, LockDiscipline, LockTypes, ClientTypes, ReturnTypes, Acquire, LockTimeout, Start, Busy
<1>3. ReturnTypes' /\ \A u \in Threads \ {t} : ret'[u] = ret[u]
  <2>1. CASE Acquire(t)
    <3>1. owner = NoThread /\ ret' = ret /\ pc' = [pc EXCEPT ![t] = "entered"]
      BY <2>1 DEF Acquire
    <3>2. ret[t] = "none"
      BY <2>1 DEF ClientTypes, ReturnTypes, Acquire
    <3>3. QED
      BY <1>1, <1>2, <3>1, <3>2 DEF ClientTypes, ReturnTypes
  <2>2. CASE LockTimeout(t) \/ \E c \in Calls : Start(t, c)
    <3>1. PICK place \in {"idle", "locking"}, code \in {"none", "CLIENT_TIMEOUT_ERR"} :
            /\ pc' = [pc EXCEPT ![t] = place] /\ ret' = [ret EXCEPT ![t] = code]
            /\ place = "idle" \/ code = "none"
      BY <2>2 DEF LockTimeout, Start
    <3>2. QED
      BY <1>1, <1>2, <3>1, KnownCodes DEF ClientTypes, ReturnTypes
  <2>3. QED
    BY <2>1, <2>2
<1>4. QED
  BY <1>1, <1>2, <1>3 DEF ClientTypes, ChannelTypes, InboxTypes, StateTypes, CacheTypes, Defined, Reports, channel

(* Reading a notice. *)
LEMMA ReadTypes ==
  ASSUME FormatDiscipline, ClientTypes, NEW t \in Threads, Busy(t), Read(t), Same
  PROVE  ClientTypes' /\ Reports(t)
<1>1. CacheTypes' /\ rc' = rc /\ CacheTypes
  BY DEF Same, ClientTypes, StateTypes, CacheTypes
<1>2. CASE AskPosition(t)
  <2>1. Proceed(t, Get_CurrentJA) /\ KeepConnection
    BY <1>2 DEF AskPosition
  <2>2. Defined(Get_CurrentJA)
    BY FixedDefined
  <2>3. ChannelTypes' /\ InboxTypes'
    BY <2>1, ConnectionTypes DEF ClientTypes
  <2>4. QED
    BY <1>1, <2>1, <2>2, <2>3, ProceedReports
<1>3. CASE End(t, "CLIENT_SUCCESS", FALSE) \/ End(t, "CLIENT_UNDEF_ERR", TRUE)
  BY <1>1, <1>3, KnownCodes, EndReports DEF Serious
<1>4. QED
  BY <1>2, <1>3 DEF Read, NoticePosition

(* The first part of a call. *)
LEMMA BeginTypes ==
  ASSUME FormatDiscipline, ClientTypes, NEW t \in Threads, Begin(t)
  PROVE  ClientTypes' /\ Reports(t)
<1>1. pc[t] = "entered" /\ Busy(t)
  BY DEF Begin, Configure, ConnectRefused, ConnectCleans, ConnectFails, Connected, Refuse,
         Prepare, ReadRefused, ReadErrorMessage, ReadNotice, Busy
<1>2. call[t] \in Calls \union {NoCall} /\ CacheTypes
  BY DEF FormatDiscipline, FormatTypes, ClientTypes, StateTypes
<1>3. ASSUME Same PROVE CacheTypes' /\ rc' = rc
  BY <1>2, <1>3 DEF Same, CacheTypes
<1>4. ASSUME NEW code \in Returns, NEW drop, End(t, code, drop), Same,
             code \in Serious => drop \/ phase = "closed" \/ Excused(t)
      PROVE  ClientTypes' /\ Reports(t)
  BY <1>3, <1>4, EndReports
<1>5. CASE Configure(t)
  <2>1. call[t].outcomes \subseteq {"CLIENT_SUCCESS", "CLIENT_ARG_ERR", "CLIENT_UNDEF_ERR"}
    BY <1>2, <1>5, CallsAssumption DEF Configure, NoCall, Configuration, Request
  <2>2. PICK code \in IF phase = "closed" THEN call[t].outcomes
                      ELSE {"CLIENT_ERR"} \union (call[t].outcomes \intersect {"CLIENT_ARG_ERR"}) :
          End(t, code, FALSE)
    BY <1>5 DEF Configure
  <2>3. code \in Returns /\ (code \in Serious => phase = "closed")
    BY <2>1, <2>2, KnownCodes DEF Serious
  <2>4. QED
    BY <1>4, <1>5, <2>2, <2>3 DEF Configure
<1>6. CASE ConnectRefused(t)
  BY <1>4, <1>6, KnownCodes DEF ConnectRefused, Excused
<1>7. CASE ConnectCleans(t)
  <2>1. UNCHANGED <<pc, ret, leaked, stage>> /\ DisconnectRC /\ phase' = "closed"
    BY <1>7 DEF ConnectCleans, DisconnectRC, Channel!Hangup, threads
  <2>2. ChannelTypes' /\ InboxTypes'
    BY <2>1, ConnectionTypes DEF ClientTypes
  <2>3. QED
    BY <1>3, <1>7, <2>1, <2>2 DEF ConnectCleans, ClientTypes, ReturnTypes, StateTypes, Defined, Reports
<1>8. CASE ConnectFails(t)
  <2>1. PICK code \in {"CLIENT_COM_ERR", "CLIENT_UNDEF_ERR", "CLIENT_ARG_ERR"} : End(t, code, FALSE)
    BY <1>8 DEF ConnectFails
  <2>2. QED
    BY <1>4, <1>8, <2>1, KnownCodes DEF ConnectFails
<1>9. CASE Connected(t)
  <2>1. Proceed(t, call[t]) /\ inbox' = inbox /\ Defined(call[t])
    BY <1>2, <1>9, LegalCalls DEF Connected
  <2>2. ChannelTypes' /\ InboxTypes'
    BY <1>9, <2>1 DEF Connected, Channel!Open, ClientTypes, ChannelTypes, InboxTypes, Defined
  <2>3. QED
    BY <1>1, <1>3, <1>9, <2>1, <2>2, ProceedReports DEF Connected
<1>10. CASE Refuse(t)
  <2>1. CASE call[t].kind = "disconnect"
    <3>1. Return(t, "CLIENT_COM_ERR") /\ KeepConnection /\ Same
      BY <1>10, <2>1 DEF Refuse
    <3>2. phase = "closed"
      BY <1>2, <1>10, <2>1, DisconnectRefusal DEF Refuse
    <3>3. /\ ReturnTypes' /\ stage' = NoCall
          /\ \A u \in Threads \ {t} : ret'[u] = ret[u]
      BY <3>1, FinishReturns, KnownCodes DEF ClientTypes
    <3>4. ChannelTypes' /\ InboxTypes' /\ phase' = "closed"
      BY <3>1, <3>2, ConnectionTypes DEF ClientTypes, KeepConnection, channel
    <3>5. StateTypes'
      BY <1>3, <3>1, <3>3, FixedDefined DEF ClientTypes, StateTypes, Defined
    <3>6. QED
      BY <3>3, <3>4, <3>5 DEF ClientTypes, Reports
  <2>2. CASE call[t].kind # "disconnect"
    <3>1. Refusal(call[t]) \in Returns /\ (Refusal(call[t]) \in Serious => phase = "closed")
      BY KnownCodes DEF Refusal, Serious
    <3>2. QED
      BY <1>4, <1>10, <2>2, <3>1 DEF Refuse
  <2>3. QED
    BY <2>1, <2>2
<1>11. CASE Prepare(t)
  <2>1. call[t].legal
    BY <1>11 DEF Prepare, Refusal
  <2>2. Defined(call[t]) /\ call[t].model \in Models \union {NoModel}
    BY <1>2, <2>1, LegalCalls
  <2>3. Proceed(t, call[t]) /\ KeepConnection /\ rc' = rc /\ CacheTypes'
    BY <1>2, <1>11, <2>2 DEF Prepare, CacheTypes
  <2>4. ChannelTypes' /\ InboxTypes'
    BY <2>3, ConnectionTypes DEF ClientTypes
  <2>5. QED
    BY <1>1, <2>2, <2>3, <2>4, ProceedReports
<1>12. CASE ReadRefused(t)
  BY <1>4, <1>12, KnownCodes DEF ReadRefused
<1>13. CASE ReadErrorMessage(t)
  <2>1. Proceed(t, ErrorMessage) /\ KeepConnection /\ Defined(ErrorMessage)
    BY <1>13, FixedDefined DEF ReadErrorMessage
  <2>2. ChannelTypes' /\ InboxTypes'
    BY <2>1, ConnectionTypes DEF ClientTypes
  <2>3. QED
    BY <1>1, <1>3, <1>13, <2>1, <2>2, ProceedReports DEF ReadErrorMessage
<1>14. CASE ReadNotice(t)
  BY <1>1, <1>14, ReadTypes DEF ReadNotice
<1>15. QED
  BY <1>5, <1>6, <1>7, <1>8, <1>9, <1>10, <1>11, <1>12, <1>13, <1>14 DEF Begin

(* SendProc_Common. *)
LEMMA AwaitTypes ==
  ASSUME FormatDiscipline, ClientTypes, NEW t \in Threads, Await(t)
  PROVE  ClientTypes' /\ Reports(t)
<1>1. Busy(t) /\ ret[t] = "none"
  BY DEF Await, SendNotConnected, Send, SendFails, SendSucceeds, Busy, ClientTypes, ReturnTypes
<1>2. Same => CacheTypes' /\ rc' = rc
  BY DEF Same, ClientTypes, StateTypes, CacheTypes
<1>3. CASE SendNotConnected(t) \/ SendFails(t)
  <2>1. PICK code \in {"CLIENT_COM_ERR", "CLIENT_UNDEF_ERR"} : End(t, code, TRUE)
    BY <1>3 DEF SendNotConnected, SendFails
  <2>2. QED
    BY <1>2, <1>3, <2>1, KnownCodes, EndReports DEF SendNotConnected, SendFails
<1>4. CASE Send(t)
  <2>1. /\ pc' = [pc EXCEPT ![t] = "waiting"]
        /\ ret' = ret /\ leaked' = leaked /\ stage' = stage
    BY <1>4 DEF Send
  <2>2. stage \in Requests /\ Defined(stage)
    BY DEF FormatDiscipline, FormatTypes, ClientTypes, StateTypes
  <2>3. ChannelTypes'
    BY <1>4, <2>2, RequestCommands DEF Send, Channel!Call, ClientTypes, ChannelTypes
  <2>4. InboxTypes'
    <3>1. CASE inbox' = inbox
      BY <3>1 DEF ClientTypes, InboxTypes, Defined
    <3>2. CASE inbox' # inbox
      <4>1. PICK e : /\ Len(inbox) < MaxInbox /\ inbox' = Append(inbox, e)
                     /\ e = [req |-> stage, live |-> TRUE, trusted |-> established]
        BY <1>4, <3>2 DEF Send
      <4>2. e \in Entries /\ e.req = stage /\ inbox \in Seq(Entries)
        BY <2>2, <4>1 DEF Entries, FormatDiscipline, FormatTypes
      <4>3. /\ Len(inbox) \in Nat /\ Len(inbox') = Len(inbox) + 1
            /\ DOMAIN inbox = 1 .. Len(inbox) /\ DOMAIN inbox' = 1 .. Len(inbox) + 1
            /\ \A i \in 1 .. Len(inbox) : inbox'[i] = inbox[i]
            /\ inbox'[Len(inbox) + 1] = e
        BY <4>1, <4>2, LenProperties, AppendProperties
      <4>4. \A i \in DOMAIN inbox' : i \in DOMAIN inbox \/ i = Len(inbox) + 1
        BY <4>3
      <4>5. QED
        BY <2>2, <4>1, <4>2, <4>3, <4>4, MaxInboxAssumption DEF ClientTypes, InboxTypes, Defined
    <3>3. QED
      BY <3>1, <3>2
  <2>5. ClientTypes'
    BY <1>1, <1>2, <1>4, <2>1, <2>2, <2>3, <2>4, InsideTypes DEF Send, Stages
  <2>6. QED
    BY <1>1, <2>1, <2>5 DEF Reports, Serious
<1>5. CASE SendSucceeds(t)
  <2>1. /\ pc' = [pc EXCEPT ![t] = "answered"]
        /\ ret' = ret /\ leaked' = leaked /\ stage' = stage /\ inbox' = inbox
    BY <1>5 DEF SendSucceeds
  <2>2. ChannelTypes' /\ InboxTypes'
    BY <1>5, <2>1 DEF SendSucceeds, Channel!Succeed, ClientTypes, ChannelTypes, InboxTypes, Defined
  <2>3. Defined(stage)
    BY DEF ClientTypes, StateTypes
  <2>4. ClientTypes'
    BY <1>1, <1>2, <1>5, <2>1, <2>2, <2>3, InsideTypes DEF SendSucceeds, Stages
  <2>5. QED
    BY <1>1, <2>1, <2>4 DEF Reports, Serious
<1>6. QED
  BY <1>3, <1>4, <1>5 DEF Await

(* The last part of a call. *)
LEMMA JudgeTypes ==
  ASSUME FormatDiscipline, ClientTypes, NEW t \in Threads, Judge(t)
  PROVE  ClientTypes' /\ Reports(t)
<1>1. Busy(t)
  BY DEF Judge, Fail, FallBackOnNotice, Succeed, Reads, ConnectContinues, ConnectSucceeds, Busy
<1>2. CacheTypes /\ Defined(stage) /\ (Same => CacheTypes' /\ rc' = rc)
  BY DEF Same, ClientTypes, StateTypes, CacheTypes
<1>3. /\ Answer(t) \in Returns \ {"none", "CLIENT_COM_ERR", "CLIENT_TIMEOUT_ERR"}
      /\ Answer(t) = "CLIENT_SUCCESS" => Acceptable(stage, reply)
  BY OutcomeCodes DEF Answer, AnswerCodes
<1>4. CASE Fail(t)
  <2>1. Answer(t) \in Serious => Drops(t, Answer(t))
    BY <1>3 DEF Serious, Drops
  <2>2. QED
    BY <1>2, <1>3, <1>4, <2>1, EndReports DEF Fail
<1>5. CASE FallBackOnNotice(t)
  <2>1. End(t, "CLIENT_SUCCESS", FALSE) \/ End(t, "CLIENT_UNDEF_ERR", TRUE)
    BY <1>5 DEF FallBackOnNotice, NoticePosition
  <2>2. QED
    BY <1>2, <1>5, <2>1, KnownCodes, EndReports DEF FallBackOnNotice, Serious
<1>6. CASE Succeed(t)
  <2>1. CacheTypes'
    <3>1. cache' = SetFormat(stage, cache)
      BY <1>6 DEF Succeed
    <3>2. QED
      BY <1>2, <3>1 DEF SetFormat, CacheTypes, Defined, SetCommands
  <2>2. rc' = rc /\ End(t, "CLIENT_SUCCESS", call[t].kind = "disconnect")
    BY <1>6 DEF Succeed
  <2>3. QED
    BY <2>1, <2>2, KnownCodes, EndReports DEF Serious
<1>7. CASE Reads(t)
  <2>1. CASE Read(t)
    BY <1>1, <1>7, <2>1, ReadTypes DEF Reads
  <2>2. CASE End(t, "CLIENT_SUCCESS", FALSE)
    BY <1>2, <1>7, <2>2, KnownCodes, EndReports DEF Reads, Serious
  <2>3. QED
    BY <1>7, <2>1, <2>2 DEF Reads
<1>8. CASE ConnectContinues(t)
  <2>1. PICK next \in {ConnectPosition, ConnectStatus, ErrorMessage, ConnectFormat} : Proceed(t, next)
    BY <1>8 DEF ConnectContinues, Following
  <2>2. KeepConnection /\ Same /\ Defined(next)
    BY <1>8, FixedDefined DEF ConnectContinues
  <2>3. ChannelTypes' /\ InboxTypes'
    BY <2>2, ConnectionTypes DEF ClientTypes
  <2>4. QED
    BY <1>1, <1>2, <2>1, <2>2, <2>3, ProceedReports
<1>9. CASE ConnectSucceeds(t)
  <2>1. reply.formats \in Formats
    BY <1>3, <1>9 DEF ConnectSucceeds, Acceptable
  <2>2. reply.formats[1] \in {0, 1} /\ reply.formats[2] \in {0, 1}
    BY <2>1 DEF Formats
  <2>3. CacheTypes' /\ rc' = rc
    BY <1>9, <2>2 DEF ConnectSucceeds, Learn, CacheTypes
  <2>4. /\ ReturnTypes' /\ stage' = NoCall
        /\ ret'[t] \in {"CLIENT_SUCCESS", "CLIENT_ERR"}
        /\ \A u \in Threads \ {t} : ret'[u] = ret[u]
    BY <1>9, FinishReturns, KnownCodes DEF ConnectSucceeds, ClientTypes
  <2>5. ChannelTypes' /\ InboxTypes'
    BY <1>9 DEF ConnectSucceeds, channel, ClientTypes, ChannelTypes, InboxTypes, Defined
  <2>6. StateTypes'
    BY <2>3, <2>4, FixedDefined DEF ClientTypes, StateTypes, Defined
  <2>7. QED
    BY <2>4, <2>5, <2>6 DEF ClientTypes, Reports, Serious
<1>10. QED
  BY <1>4, <1>5, <1>6, <1>7, <1>8, <1>9 DEF Judge

(* Another client, the controller and the link return nothing. *)
LEMMA NewClientTypes ==
  ASSUME FormatDiscipline, ClientTypes, NewClient
  PROVE  ClientTypes' /\ ret' = ret
<1>1. UNCHANGED <<pc, ret, stage, rc>> /\ leaked' = FALSE /\ cache' = NoCache
  BY DEF NewClient
<1>2. KeepConnection \/ DisconnectRC
  BY DEF NewClient
<1>3. ChannelTypes' /\ InboxTypes'
  BY <1>2, ConnectionTypes DEF ClientTypes
<1>4. ReturnTypes'
  BY <1>1 DEF ClientTypes, ReturnTypes
<1>5. StateTypes'
  BY <1>1 DEF ClientTypes, StateTypes, CacheTypes, NoCache, Defined
<1>6. QED
  BY <1>1, <1>3, <1>4, <1>5 DEF ClientTypes

LEMMA EnvironmentTypes ==
  ASSUME FormatDiscipline, ClientTypes, Environment
  PROVE  ClientTypes' /\ ret' = ret
<1>1. UNCHANGED <<threads, stage, cache, channel>>
  BY DEF Environment, RCExecutes, RCRefuses, RequestLost, LinkLost, RCRestarts
<1>2. ReturnTypes' /\ ChannelTypes' /\ CacheTypes' /\ Defined(stage')
  BY <1>1 DEF threads, channel, ClientTypes, ReturnTypes, ChannelTypes, StateTypes, CacheTypes, Defined
<1>3. inbox \in Seq(Entries)
  BY DEF FormatDiscipline, FormatTypes
<1>4. InboxTypes'
  <2>1. CASE inbox # <<>> /\ inbox' = Tail(inbox)
    <3>1. Len(inbox) \in Nat /\ Len(inbox') = Len(inbox) - 1
      BY <1>3, <2>1, RestOfInbox
    <3>2. \A i \in DOMAIN inbox' : i + 1 \in DOMAIN inbox /\ inbox'[i] = inbox[i + 1]
      BY <1>3, <2>1, RestOfInbox
    <3>3. QED
      BY <3>1, <3>2, MaxInboxAssumption DEF ClientTypes, InboxTypes, Defined
  <2>2. CASE inbox' = inbox
    BY <2>2 DEF ClientTypes, InboxTypes, Defined
  <2>3. CASE inbox' = <<>>
    BY <2>3, MaxInboxAssumption, EmptySeq DEF InboxTypes
  <2>4. QED
    BY <2>1, <2>2, <2>3 DEF Environment, RCExecutes, RCRefuses, RequestLost, LinkLost, RCRestarts
<1>5. rc' \in [send : {0, 1}, recv : {0, 1}, checked : BOOLEAN]
  <2>1. CASE RCExecutes
    <3>1. inbox # <<>> /\ rc' = Execute(Head(inbox).req, rc)
      BY <2>1 DEF RCExecutes
    <3>2. Defined(Head(inbox).req)
      BY <1>3, <3>1, RestOfInbox DEF ClientTypes, InboxTypes
    <3>3. QED
      BY <3>1, <3>2 DEF Execute, Defined, SetCommands, ClientTypes, StateTypes
  <2>2. CASE rc' = rc
    BY <2>2 DEF ClientTypes, StateTypes
  <2>3. CASE rc' = [send |-> 0, recv |-> 0, checked |-> FALSE]
    BY <2>3
  <2>4. QED
    BY <2>1, <2>2, <2>3 DEF Environment, RCRefuses, RequestLost, LinkLost, RCRestarts
<1>6. QED
  BY <1>1, <1>2, <1>4, <1>5 DEF ClientTypes, StateTypes, threads
--------------------------------------------------------------------------------
(* The two facts about every step: the types hold after it, and no thread     *)
(* inside a call is told of a serious error while a connection is left.       *)
LEMMA StepTypes ==
  ASSUME FormatDiscipline, ClientTypes, [Next]_vars
  PROVE  /\ ClientTypes'
         /\ \A t \in Threads : Busy(t) /\ ret'[t] \in Serious => phase' = "closed" \/ Excused(t)
<1>1. \A t \in Threads : Busy(t) => ret[t] \notin Serious
  BY DEF ClientTypes, ReturnTypes, Busy, Serious
<1>2. CASE UNCHANGED vars
  <2>1. ret' = ret
    BY <1>2 DEF vars, threads
  <2>2. ClientTypes'
    BY <1>2 DEF vars, threads, channel, ClientTypes, ReturnTypes, ChannelTypes, InboxTypes, StateTypes,
       CacheTypes, Defined
  <2>3. QED
    BY <1>1, <2>1, <2>2
<1>3. CASE Environment \/ NewClient
  BY <1>1, <1>3, EnvironmentTypes, NewClientTypes
<1>4. ASSUME NEW t \in Threads, Thread(t) \/ \E c \in Calls : Start(t, c)
      PROVE  /\ ClientTypes'
             /\ \A u \in Threads : Busy(u) /\ ret'[u] \in Serious => phase' = "closed" \/ Excused(u)
  <2>1. ClientTypes' /\ Reports(t)
    BY <1>4, EntersTypes, BeginTypes, AwaitTypes, JudgeTypes DEF Thread
  <2>2. QED
    BY <1>1, <2>1 DEF Reports
<1>5. QED
  BY <1>2, <1>3, <1>4 DEF Next

(* The types are an invariant, with the formats that the requests carry.      *)
THEOREM ClientTypesHold == Spec => [](FormatDiscipline /\ ClientTypes)
<1>1. Init => ClientTypes
  <2> SUFFICES ASSUME Init PROVE ClientTypes
    OBVIOUS
  <2>1. ReturnTypes
    BY KnownCodes DEF Init, ReturnTypes
  <2>2. ChannelTypes /\ InboxTypes
    BY MaxInboxAssumption, EmptySeq DEF Init, Channel!Init, ChannelTypes, InboxTypes
  <2>3. StateTypes
    BY FixedDefined DEF Init, NoCache, StateTypes, CacheTypes
  <2>4. QED
    BY <2>1, <2>2, <2>3 DEF ClientTypes
<1>2. FormatDiscipline /\ ClientTypes /\ [Next]_vars => ClientTypes'
  BY StepTypes
<1>3. QED
  BY <1>1, <1>2, FormatDisciplineHolds, PTL DEF Spec

(* Every variable of the client has its type, in particular the cached        *)
(* formats are always defined ones, whatever the controller answers.          *)
THEOREM TypeCorrect == Spec => []TypeOK
<1>1. FormatDiscipline /\ ClientTypes => TypeOK
  <2> SUFFICES ASSUME FormatDiscipline, ClientTypes PROVE TypeOK
    OBVIOUS
  <2>1. stage.cmd \in Commands \union {"none"}
    BY RequestCommands DEF FormatDiscipline, FormatTypes
  <2>2. QED
    BY <2>1 DEF FormatDiscipline, LockDiscipline, LockTypes, FormatTypes, ClientTypes, ReturnTypes, Returns,
       ChannelTypes, InboxTypes, StateTypes, CacheTypes, TypeOK
<1>2. QED
  BY <1>1, ClientTypesHold, PTL

(* A function that returns CLIENT_COM_ERR or CLIENT_UNDEF_ERR leaves no        *)
(* connection, except RTMC_Connect on a connection that stands.               *)
THEOREM ErrorsEndConnection == Spec => ErrorEndsConnection
<1>1. FormatDiscipline /\ ClientTypes /\ [Next]_vars =>
        [\A t \in Threads :
           \/ Busy(t) /\ ret'[t] \in {"CLIENT_COM_ERR", "CLIENT_UNDEF_ERR"} => phase' = "closed"
           \/ call[t].kind = "connect" /\ pc[t] = "entered" /\ phase = "open" /\ link]_vars
  BY StepTypes DEF Serious, Excused
<1>2. QED
  BY <1>1, ClientTypesHold, PTL DEF Spec, ErrorEndsConnection
=================================================================================
