--------------------------- MODULE RTMCClient_proofs ---------------------------
(***************************************************************************)
(* The lock and the formats of RTMCClient, for any number of threads, any    *)
(* set of calls and any answers of the controller.                           *)
(*                                                                          *)
(* The lock: no thread uses the communication object while another one may   *)
(* delete it, and only a failed RTMC_DisConnect keeps the lock.              *)
(*                                                                          *)
(* The formats of an established connection are the controller's, and no     *)
(* Exec_RTMC is executed in another layout than it was written in.  This     *)
(* argument is about the pipeline.  A connection is established by the        *)
(* answer to its last request, and the controller answers in order: nothing  *)
(* of an earlier connection is then left in it.  From there on a request is  *)
(* sent only after the answer to the one before, and whoever stops waiting   *)
(* for an answer ends the connection.                                        *)
(***************************************************************************)
EXTENDS RTMCClient, SequenceTheorems, TLAPS

(* The types of the variables that the lock discipline is about. *)
LockTypes ==
  /\ owner \in Threads \union {NoThread}
  /\ pc \in [Threads -> Stages]
  /\ phase \in {"closed", "open", "called"}

(* A request is outstanding only while the owner of the lock waits for it. *)
CalledByOwner == phase = "called" => owner # NoThread /\ pc[owner] = "waiting"

LockDiscipline == LockTypes /\ ObjectAlive /\ LockReturned /\ CalledByOwner

(* Leaving a call keeps the discipline, whichever way the lock goes, provided *)
(* that no request stays outstanding.                                         *)
LEMMA LeaveKeeps ==
  ASSUME LockDiscipline, NEW t \in Threads, Busy(t), NEW code, Leave(t, code),
         \/ owner' = NoThread
         \/ owner' = owner /\ leaked',
         phase' \in {"closed", "open"}
  PROVE  LockDiscipline'
<1> USE DEF LockDiscipline, LockTypes, Stages
<1>1. owner = t /\ t # NoThread
  BY ThreadsAssumption DEF ObjectAlive
<1>2. pc' = [pc EXCEPT ![t] = "idle"]
  BY DEF Leave
<1>3. \A u \in Threads : ~Busy(u)'
  BY <1>1, <1>2 DEF ObjectAlive, Busy
<1>4. ObjectAlive'
  BY <1>2, <1>3 DEF ObjectAlive, Busy
<1>5. LockReturned' /\ CalledByOwner'
  BY <1>1, <1>2, <1>3 DEF LockReturned, CalledByOwner
<1>6. QED
  BY <1>1, <1>2, <1>4, <1>5

LEMMA FinishKeeps ==
  ASSUME LockDiscipline, NEW t \in Threads, Busy(t), NEW code,
         Finish(t, code) \/ Return(t, code), phase' \in {"closed", "open"}
  PROVE  LockDiscipline'
<1>1. PICK c : Leave(t, c)
  BY DEF Finish, ReturnDisConnect, Return
<1>2. \/ owner' = NoThread
      \/ owner' = owner /\ leaked'
  BY DEF Finish, ReturnDisConnect, Return
<1>3. QED
  BY <1>1, <1>2, LeaveKeeps

LEMMA EndKeeps ==
  ASSUME LockDiscipline, NEW t \in Threads, Busy(t), NEW code, NEW drop,
         End(t, code, drop), drop \/ phase \in {"closed", "open"}
  PROVE  LockDiscipline'
<1>1. phase' \in {"closed", "open"}
  <2>1. CASE drop
    BY <2>1 DEF End, DisconnectRC, Channel!Hangup
  <2>2. CASE ~drop
    BY <2>2 DEF End, KeepConnection, channel
  <2>3. QED
    BY <2>1, <2>2
<1>2. Finish(t, code)
  BY DEF End
<1>3. QED
  BY <1>1, <1>2, FinishKeeps

(* A step of the owner to a later place of its call keeps the discipline if   *)
(* the channel is in the phase that the place needs.                          *)
LEMMA MoveKeeps ==
  ASSUME LockDiscipline, NEW t \in Threads, Busy(t),
         NEW place \in {"entered", "sending", "waiting", "answered"},
         pc' = [pc EXCEPT ![t] = place], owner' = owner, leaked' = leaked,
         phase' \in {"closed", "open", "called"},
         place \in {"sending", "answered"} => phase' = "open",
         place = "waiting" <=> phase' = "called"
  PROVE  LockDiscipline'
<1> USE DEF LockDiscipline, LockTypes, Stages
<1>1. owner = t /\ t # NoThread
  BY ThreadsAssumption DEF ObjectAlive
<1>2. \A u \in Threads : u # t => ~Busy(u)' /\ pc'[u] = pc[u]
  BY <1>1 DEF ObjectAlive, Busy
<1>3. pc'[t] = place /\ Busy(t)'
  BY DEF Busy
<1>4. ObjectAlive'
  BY <1>1, <1>2, <1>3 DEF ObjectAlive, Busy
<1>5. LockReturned' /\ CalledByOwner'
  BY <1>1, <1>3 DEF LockReturned, CalledByOwner
<1>6. QED
  BY <1>1, <1>3, <1>4, <1>5

(* A thread inside a call owns the lock, and no request is outstanding unless *)
(* it is the thread that waits.                                               *)
LEMMA Owns ==
  ASSUME LockDiscipline, NEW t \in Threads, Busy(t)
  PROVE  owner = t /\ (pc[t] # "waiting" => phase \in {"closed", "open"})
BY DEF LockDiscipline, LockTypes, ObjectAlive, CalledByOwner

(* Sending the next request of a call on an open connection. *)
LEMMA ProceedKeeps ==
  ASSUME LockDiscipline, NEW t \in Threads, Busy(t), NEW req, Proceed(t, req),
         phase' = "open"
  PROVE  LockDiscipline'
BY MoveKeeps DEF Proceed

(* A thread that waits for the lock, gets it, or gives up.                    *)
LEMMA EntersKeep ==
  ASSUME LockDiscipline, NEW t \in Threads, Acquire(t) \/ LockTimeout(t) \/ \E c \in Calls : Start(t, c)
  PROVE  LockDiscipline'
<1> USE DEF LockDiscipline, LockTypes, Stages
<1>0. UNCHANGED <<leaked, phase>>
  BY DEF Acquire, LockTimeout, Start, channel
<1>1. CASE Acquire(t)
  <2>1. t # NoThread /\ \A u \in Threads : ~Busy(u)
    BY <1>1, ThreadsAssumption DEF Acquire, ObjectAlive
  <2>2. owner' = t /\ pc' = [pc EXCEPT ![t] = "entered"] /\ phase' # "called"
    BY <1>0, <1>1 DEF Acquire, CalledByOwner
  <2>3. ObjectAlive'
    BY <2>1, <2>2 DEF ObjectAlive, Busy
  <2>4. LockReturned' /\ CalledByOwner'
    BY <2>1, <2>2 DEF LockReturned, CalledByOwner, Busy
  <2>5. QED
    BY <1>0, <2>2, <2>3, <2>4
<1>2. CASE LockTimeout(t) \/ \E c \in Calls : Start(t, c)
  <2>1. PICK place \in {"idle", "locking"} : pc' = [pc EXCEPT ![t] = place]
    BY <1>2 DEF LockTimeout, Start
  <2>2. owner' = owner /\ ~Busy(t) /\ pc[t] # "waiting"
    BY <1>2 DEF LockTimeout, Start, Busy
  <2>3. ObjectAlive'
    BY <1>0, <2>1, <2>2 DEF ObjectAlive, Busy
  <2>4. LockReturned' /\ CalledByOwner'
    BY <1>0, <2>1, <2>2 DEF LockReturned, CalledByOwner, Busy
  <2>5. QED
    BY <1>0, <2>1, <2>2, <2>3, <2>4
<1>3. QED
  BY <1>1, <1>2

(* Reading a notice ends the call or asks the controller for the position.    *)
LEMMA ReadKeeps ==
  ASSUME LockDiscipline, NEW t \in Threads, Busy(t), pc[t] # "waiting", phase = "open", Read(t)
  PROVE  LockDiscipline'
<1>1. CASE AskPosition(t)
  BY <1>1, ProceedKeeps DEF AskPosition, KeepConnection, channel
<1>2. \A code, drop : End(t, code, drop) => LockDiscipline'
  BY Owns, EndKeeps
<1>3. QED
  BY <1>1, <1>2 DEF Read, NoticePosition

(* The first part of a call. *)
LEMMA BeginKeeps ==
  ASSUME LockDiscipline, NEW t \in Threads, Begin(t)
  PROVE  LockDiscipline'
<1>1. pc[t] = "entered" /\ Busy(t)
  BY DEF Begin, Configure, ConnectRefused, ConnectCleans, ConnectFails, Connected, Refuse,
         Prepare, ReadRefused, ReadErrorMessage, ReadNotice, Busy
<1>2. owner = t /\ phase \in {"closed", "open"}
  BY <1>1, Owns
<1>3. \A code, drop : End(t, code, drop) => LockDiscipline'
  BY <1>1, <1>2, EndKeeps
<1>4. CASE Configure(t)
  BY <1>3, <1>4 DEF Configure
<1>5. CASE ConnectRefused(t)
  BY <1>3, <1>5 DEF ConnectRefused
<1>6. CASE ConnectCleans(t)
  <2>1. UNCHANGED <<pc, owner, leaked>> /\ phase' = "closed"
    BY <1>6 DEF ConnectCleans, DisconnectRC, Channel!Hangup, threads
  <2>2. pc' = [pc EXCEPT ![t] = "entered"]
    BY <1>1, <2>1 DEF LockDiscipline, LockTypes
  <2>3. QED
    BY <1>1, <2>1, <2>2, MoveKeeps
<1>7. CASE ConnectFails(t)
  BY <1>3, <1>7 DEF ConnectFails
<1>8. CASE Connected(t)
  BY <1>1, <1>8, ProceedKeeps DEF Connected, Channel!Open
<1>9. CASE Refuse(t)
  <2>1. CASE call[t].kind = "disconnect"
    <3>1. Return(t, "CLIENT_COM_ERR") /\ phase' = phase
      BY <1>9, <2>1 DEF Refuse, KeepConnection, channel
    <3>2. QED
      BY <1>1, <1>2, <3>1, FinishKeeps
  <2>2. CASE call[t].kind # "disconnect"
    BY <1>3, <1>9, <2>2 DEF Refuse
  <2>3. QED
    BY <2>1, <2>2
<1>10. CASE Prepare(t)
  <2>1. phase = "open"
    BY <1>2, <1>10 DEF Prepare, Refusal
  <2>2. phase' = "open" /\ Proceed(t, call[t])
    BY <1>10, <2>1 DEF Prepare, KeepConnection, channel
  <2>3. QED
    BY <1>1, <2>2, ProceedKeeps
<1>11. CASE ReadRefused(t)
  BY <1>3, <1>11 DEF ReadRefused
<1>12. CASE ReadErrorMessage(t)
  BY <1>1, <1>12, ProceedKeeps DEF ReadErrorMessage, KeepConnection, channel
<1>13. CASE ReadNotice(t)
  BY <1>1, <1>13, ReadKeeps DEF ReadNotice
<1>14. QED
  BY <1>4, <1>5, <1>6, <1>7, <1>8, <1>9, <1>10, <1>11, <1>12, <1>13 DEF Begin

(* SendProc_Common: the channel is called and answered by the owner alone.    *)
LEMMA AwaitKeeps ==
  ASSUME LockDiscipline, NEW t \in Threads, Await(t)
  PROVE  LockDiscipline'
<1>1. Busy(t)
  BY DEF Await, SendNotConnected, Send, SendFails, SendSucceeds, Busy
<1>2. \A code : End(t, code, TRUE) => LockDiscipline'
  BY <1>1, EndKeeps
<1>3. CASE Send(t)
  BY <1>1, <1>3, MoveKeeps DEF Send, Channel!Call
<1>4. CASE SendSucceeds(t)
  BY <1>1, <1>4, MoveKeeps DEF SendSucceeds, Channel!Succeed
<1>5. QED
  BY <1>2, <1>3, <1>4 DEF Await, SendNotConnected, SendFails

(* The last part of a call. *)
LEMMA JudgeKeeps ==
  ASSUME LockDiscipline, NEW t \in Threads, Judge(t)
  PROVE  LockDiscipline'
<1>1. Busy(t) /\ pc[t] = "answered"
  BY DEF Judge, Fail, FallBackOnNotice, Succeed, Reads, ConnectContinues, ConnectSucceeds, Busy
<1>2. phase = "open"
  BY <1>1 DEF LockDiscipline, ObjectAlive
<1>3. \A code, drop : End(t, code, drop) => LockDiscipline'
  BY <1>1, <1>2, EndKeeps
<1>4. CASE Fail(t)
  BY <1>3, <1>4 DEF Fail
<1>5. CASE FallBackOnNotice(t)
  BY <1>3, <1>5 DEF FallBackOnNotice, NoticePosition
<1>6. CASE Succeed(t)
  BY <1>3, <1>6 DEF Succeed
<1>7. CASE Reads(t)
  BY <1>1, <1>2, <1>3, <1>7, ReadKeeps DEF Reads
<1>8. CASE ConnectContinues(t)
  BY <1>1, <1>2, <1>8, ProceedKeeps DEF ConnectContinues, KeepConnection, channel
<1>9. CASE ConnectSucceeds(t)
  <2>1. Finish(t, "CLIENT_SUCCESS") /\ phase' = phase
    BY <1>9 DEF ConnectSucceeds, channel
  <2>2. QED
    BY <1>1, <1>2, <2>1, FinishKeeps
<1>10. QED
  BY <1>4, <1>5, <1>6, <1>7, <1>8, <1>9 DEF Judge

(* Another client: the lock is free and no request is outstanding. *)
LEMMA NewClientKeeps ==
  ASSUME LockDiscipline, NewClient
  PROVE  LockDiscipline'
<1> USE DEF LockDiscipline, LockTypes
<1>1. pc' = pc /\ owner' = NoThread /\ \A t \in Threads : pc[t] = "idle"
  BY DEF NewClient
<1>2. phase # "called"
  BY <1>1 DEF CalledByOwner
<1>3. phase' \in {"closed", "open"}
  BY <1>2 DEF NewClient, KeepConnection, channel, DisconnectRC, Channel!Hangup
<1>4. ObjectAlive' /\ LockReturned' /\ CalledByOwner'
  BY <1>1, <1>3 DEF ObjectAlive, LockReturned, CalledByOwner, Busy
<1>5. QED
  BY <1>1, <1>3, <1>4

(* The lock discipline is an invariant of the client. *)
THEOREM DisciplineHolds == Spec => []LockDiscipline
<1>1. Init => LockDiscipline
  BY ThreadsAssumption DEF Init, LockDiscipline, LockTypes, ObjectAlive, LockReturned, CalledByOwner,
     Stages, Busy, Channel!Init
<1>2. LockDiscipline /\ [Next]_vars => LockDiscipline'
  <2> SUFFICES ASSUME LockDiscipline, [Next]_vars PROVE LockDiscipline'
    OBVIOUS
  <2>1. CASE UNCHANGED <<threads, channel>>
    BY <2>1 DEF LockDiscipline, LockTypes, ObjectAlive, LockReturned, CalledByOwner, Busy,
       threads, channel
  <2>2. CASE Environment
    BY <2>1, <2>2 DEF Environment, RCExecutes, RCRefuses, RequestLost, LinkLost, RCRestarts
  <2>3. CASE UNCHANGED vars
    BY <2>1, <2>3 DEF vars
  <2>4. ASSUME NEW t \in Threads, Thread(t) \/ \E c \in Calls : Start(t, c) PROVE LockDiscipline'
    BY <2>4, EntersKeep, BeginKeeps, AwaitKeeps, JudgeKeeps DEF Thread
  <2>5. QED
    BY <2>2, <2>3, <2>4, NewClientKeeps DEF Next
<1>3. QED
  BY <1>1, <1>2, PTL DEF Spec

(* No thread uses the communication object while another one may delete it.   *)
THEOREM LockIsSafe == Spec => []ObjectAlive
<1>1. LockDiscipline => ObjectAlive
  BY DEF LockDiscipline
<1>2. QED
  BY <1>1, DisciplineHolds, PTL

(* Nobody outside a call holds the lock unless RTMC_DisConnect failed.         *)
THEOREM LockIsReturned == Spec => []LockReturned
<1>1. LockDiscipline => LockReturned
  BY DEF LockDiscipline
<1>2. QED
  BY <1>1, DisciplineHolds, PTL
--------------------------------------------------------------------------------
(* The requests that a call may send. *)
Requests == Calls \union {NoCall, ConnectPosition, ConnectStatus, ErrorMessage, ConnectFormat,
                          Get_CurrentJA}

Entries == [req : Requests, live : BOOLEAN, trusted : BOOLEAN]

SetCommands == {"REQ_SET_RTPOS_IO_FORM", "REQ_SET_CURPOS_IO_FORM"}

CacheShape == cache = [send |-> cache.send, recv |-> cache.recv, model |-> cache.model]

(* The types of the variables that the formats depend on. *)
FormatTypes ==
  /\ inbox \in Seq(Entries)
  /\ stage \in Requests
  /\ call \in [Threads -> Calls \union {NoCall}]
  /\ reply.ok \in BOOLEAN /\ established \in BOOLEAN /\ link \in BOOLEAN
  /\ CacheShape
  /\ rc = [send |-> rc.send, recv |-> rc.recv, checked |-> rc.checked]

FormatDiscipline ==
  LockDiscipline /\ FormatTypes /\ PipelineInv /\ FormatInv /\ ExecLayout
--------------------------------------------------------------------------------
(* The requests that are not calls of an application change no format and are *)
(* no motion.                                                                 *)
LEMMA FixedRequests ==
  \A r \in {NoCall, ConnectPosition, ConnectStatus, ErrorMessage, ConnectFormat, Get_CurrentJA} :
    r.cmd \notin SetCommands \union {"REQ_EXEC_RTPOS"}
<1>1. NoCall.cmd = "none" /\ NoCall.kind = "config"
  BY DEF NoCall, Configuration, Request
<1>2. Get_CurrentJA.cmd = "REQ_GET_CURPOS_INFO"
  BY DEF Get_CurrentJA, Request
<1>3. /\ ConnectPosition.cmd = "SYS_REQ_CURPOS_INFO"
      /\ ConnectStatus.cmd = "SYS_REQ_RC_STATUS"
      /\ ErrorMessage.cmd = "SYS_REQ_RC_ERRMSG"
      /\ ConnectFormat.cmd = "SYS_REQ_RTMC_FORMAT_INFO"
  BY DEF ConnectPosition, ConnectStatus, ErrorMessage, ConnectFormat, Request
<1>4. QED
  BY <1>1, <1>2, <1>3 DEF SetCommands

(* Only a call of Set_RTMCSendFormat or Set_RTMCRecvFormat asks for a format,  *)
(* and an answer that accepts it is a success.                                *)
LEMMA FormatRequests ==
  ASSUME NEW c \in Calls \union {NoCall}, NEW r \in StagesOf(c), r.cmd \in SetCommands
  PROVE  /\ c.kind = "request" /\ r = c
         /\ \A a : a.ok => Outcome(r, a) = "CLIENT_SUCCESS"
<1>1. r = c /\ c \in Calls
  BY FixedRequests DEF StagesOf
<1>2. CASE c.cmd = "REQ_SET_RTPOS_IO_FORM"
  <2>1. c = Set_RTMCSendFormat(c.arg)
    BY <1>1, <1>2, CallsAssumption
  <2>2. /\ c.kind = "request" /\ c.values = "word" /\ c.cached = "none" /\ c.verdict = FALSE
    BY <2>1 DEF Set_RTMCSendFormat, Knowing, Limited, Request
  <2>3. QED
    BY <1>1, <1>2, <2>2 DEF Outcome, Acceptable, InRange, SizedCommands
<1>3. CASE c.cmd = "REQ_SET_CURPOS_IO_FORM"
  <2>1. c = Set_RTMCRecvFormat(c.arg)
    BY <1>1, <1>3, CallsAssumption
  <2>2. /\ c.kind = "request" /\ c.values = "word" /\ c.cached = "none" /\ c.verdict = FALSE
    BY <2>1 DEF Set_RTMCRecvFormat, Limited, Request
  <2>3. QED
    BY <1>1, <1>3, <2>2 DEF Outcome, Acceptable, InRange, SizedCommands
<1>4. QED
  BY <1>1, <1>2, <1>3 DEF SetCommands

(* Other requests leave the cached formats as they are. *)
LEMMA NoFormatRequest ==
  ASSUME NEW r, r.cmd \notin SetCommands, NEW c
  PROVE  SetFormat(r, c) = c
BY DEF SetFormat, SetCommands

(* An Exec_RTMC that passes its check was written for the cached formats.     *)
LEMMA ExecRequests ==
  ASSUME NEW c \in Calls, c.cmd = "REQ_EXEC_RTPOS", <<cache.send, cache.recv>> \in c.formats
  PROVE  c.arg = Layout(cache.send, cache.recv)
<1>1. PICK f \in Formats : c = Exec(f[1], f[2])
  BY CallsAssumption
<1>2. c.formats = {<<f[1], f[2]>>} /\ c.arg = Layout(f[1], f[2])
  BY <1>1 DEF Exec, Request
<1>3. cache.send = f[1] /\ cache.recv = f[2]
  BY <1>2
<1>4. QED
  BY <1>2, <1>3

(* The inbox without its first request. *)
LEMMA RestOfInbox ==
  ASSUME NEW s \in Seq(Entries), s # <<>>
  PROVE  /\ Len(s) \in Nat /\ 1 \in DOMAIN s /\ Head(s) = s[1] /\ Head(s) \in Entries
         /\ Tail(s) \in Seq(Entries) /\ Len(Tail(s)) = Len(s) - 1
         /\ \A i \in DOMAIN Tail(s) : i \in Nat \ {0} /\ i + 1 \in DOMAIN s /\ Tail(s)[i] = s[i + 1]
<1>1. Len(s) \in Nat \ {0} /\ DOMAIN s = 1 .. Len(s)
  BY LenProperties, EmptySeq
<1>2. /\ Head(s) \in Entries /\ Tail(s) \in Seq(Entries) /\ Len(Tail(s)) = Len(s) - 1
      /\ \A i \in 1 .. Len(Tail(s)) : Tail(s)[i] = s[i + 1]
  BY HeadTailProperties
<1>3. DOMAIN Tail(s) = 1 .. Len(Tail(s))
  BY <1>2, LenProperties
<1>4. QED
  BY <1>1, <1>2, <1>3

(* DisconnectRC changes nothing in the inbox but who waits for the answers.   *)
LEMMA Dropping ==
  ASSUME FormatDiscipline, DisconnectRC
  PROVE  /\ link' = FALSE /\ established' = FALSE
         /\ inbox' \in Seq(Entries) /\ DOMAIN inbox' = DOMAIN inbox
         /\ \A i \in DOMAIN inbox : /\ inbox'[i].live = FALSE /\ inbox'[i].req = inbox[i].req
                                    /\ inbox'[i].trusted = inbox[i].trusted
         /\ rc' = rc => ExecLayout'
<1>1. inbox \in Seq(Entries)
  BY DEF FormatDiscipline, FormatTypes
<1>2. inbox' = [i \in DOMAIN inbox |-> [inbox[i] EXCEPT !.live = FALSE]]
  BY DEF DisconnectRC
<1>3. /\ inbox' \in Seq(Entries) /\ DOMAIN inbox' = DOMAIN inbox
      /\ \A i \in DOMAIN inbox : /\ inbox'[i].live = FALSE /\ inbox'[i].req = inbox[i].req
                                 /\ inbox'[i].trusted = inbox[i].trusted
  <2>1. Len(inbox) \in Nat /\ DOMAIN inbox = 1 .. Len(inbox) /\ \A i \in DOMAIN inbox : inbox[i] \in Entries
    BY <1>1, LenProperties, ElementOfSeq
  <2>2. \A e \in Entries : /\ [e EXCEPT !.live = FALSE] \in Entries
                           /\ [e EXCEPT !.live = FALSE].live = FALSE
                           /\ [e EXCEPT !.live = FALSE].req = e.req
                           /\ [e EXCEPT !.live = FALSE].trusted = e.trusted
    BY DEF Entries
  <2>3. inbox' \in [1 .. Len(inbox) -> Entries]
    BY <1>2, <2>1, <2>2
  <2>4. inbox' \in Seq(Entries)
    BY <2>1, <2>3
  <2>5. QED
    BY <1>2, <2>1, <2>2, <2>4
<1>4. inbox' # <<>> => /\ inbox # <<>> /\ 1 \in DOMAIN inbox
                       /\ Head(inbox) = inbox[1] /\ Head(inbox') = inbox'[1]
  <2>1. inbox' # <<>> => 1 \in DOMAIN inbox' /\ Head(inbox') = inbox'[1]
    BY <1>3, RestOfInbox
  <2>2. inbox # <<>> => Head(inbox) = inbox[1]
    BY <1>1, RestOfInbox
  <2>3. QED
    BY <1>3, <2>1, <2>2
<1>5. rc' = rc => ExecLayout'
  BY <1>3, <1>4 DEF FormatDiscipline, ExecLayout
<1>6. QED
  BY <1>3, <1>5 DEF DisconnectRC

(* What the discipline says of a thread inside a call: it is the owner, and   *)
(* until it waits again the controller has nothing of it.                     *)
LEMMA OwnerFacts ==
  ASSUME FormatDiscipline, NEW t \in Threads, Busy(t)
  PROVE  /\ owner = t /\ \A u \in Threads : u # t => ~Busy(u)
         /\ pc[t] # "waiting" => phase # "called" /\ \A i \in DOMAIN inbox : ~inbox[i].live
         /\ pc[t] # "waiting" /\ established => inbox = <<>>
         /\ pc[t] \in {"entered", "sending"} => reply = NoReply
         /\ reply.ok => reply # NoReply /\ inbox = <<>> /\ pc[t] \in {"waiting", "answered"}
<1>1. owner = t /\ \A u \in Threads : u # t => ~Busy(u)
  BY DEF FormatDiscipline, LockDiscipline, ObjectAlive
<1>2. pc[t] # "waiting" => phase # "called"
  BY Owns DEF FormatDiscipline
<1>3. pc[t] # "waiting" => \A i \in DOMAIN inbox : ~inbox[i].live
  BY <1>2 DEF FormatDiscipline, PipelineInv
<1>4. inbox # <<>> => 1 \in DOMAIN inbox
  BY RestOfInbox DEF FormatDiscipline, FormatTypes
<1>5. pc[t] # "waiting" /\ established => inbox = <<>>
  BY <1>3, <1>4 DEF FormatDiscipline, PipelineInv
<1>6. pc[t] \in {"entered", "sending"} => reply = NoReply
  BY <1>1 DEF FormatDiscipline, PipelineInv
<1>7. reply.ok => reply # NoReply /\ inbox = <<>> /\ pc[t] \in {"waiting", "answered"}
  BY <1>1 DEF FormatDiscipline, PipelineInv, NoReply
<1>8. QED
  BY <1>1, <1>2, <1>3, <1>5, <1>6, <1>7

(* Unless the answer accepts a format, the settled formats are the cached     *)
(* ones.                                                                      *)
LEMMA SettledAsCached ==
  ASSUME ~reply.ok \/ stage.cmd \notin SetCommands
  PROVE  Settled = cache
BY NoFormatRequest DEF Settled

(* Ending a call keeps the discipline if the connection ends with it or the   *)
(* cached formats are the settled ones.                                       *)
LEMMA LeaveSettles ==
  ASSUME FormatDiscipline, LockDiscipline', NEW t \in Threads, Busy(t), NEW code, Leave(t, code),
         NEW drop, IF drop THEN DisconnectRC ELSE KeepConnection,
         rc' = rc, CacheShape',
         drop \/ /\ pc[t] # "waiting"
                 /\ cache'.send = Settled.send /\ cache'.recv = Settled.recv
  PROVE  FormatDiscipline'
<1>1. /\ stage' = NoCall /\ reply' = NoReply /\ call' = [call EXCEPT ![t] = NoCall]
      /\ pc' = [pc EXCEPT ![t] = "idle"]
  BY DEF Leave
<1>2. \A u \in Threads : pc'[u] \notin {"sending", "waiting", "answered"}
  BY <1>1, OwnerFacts DEF FormatDiscipline, LockDiscipline, LockTypes, Busy
<1>3. reply'.ok = FALSE /\ Settled' = cache' /\ stage'.cmd = "none"
  BY <1>1 DEF NoReply, Settled, NoCall, Configuration, Request
<1>4. CASE drop
  <2>1. /\ link' = FALSE /\ established' = FALSE
        /\ inbox' \in Seq(Entries) /\ DOMAIN inbox' = DOMAIN inbox
        /\ \A i \in DOMAIN inbox : /\ inbox'[i].live = FALSE /\ inbox'[i].req = inbox[i].req
                                   /\ inbox'[i].trusted = inbox[i].trusted
        /\ ExecLayout'
    BY <1>4, Dropping
  <2>2. FormatTypes'
    BY <1>1, <1>3, <2>1 DEF FormatDiscipline, FormatTypes, Requests
  <2>3. PipelineInv'
    BY <1>1, <1>2, <2>1 DEF FormatDiscipline, PipelineInv
  <2>4. FormatInv'
    BY <1>2, <1>3, <2>1 DEF FormatInv
  <2>5. QED
    BY <2>1, <2>2, <2>3, <2>4 DEF FormatDiscipline
<1>5. CASE ~drop
  <2>1. UNCHANGED <<phase, link, inbox, established>>
    BY <1>5 DEF KeepConnection, channel
  <2>2. \A i \in DOMAIN inbox : ~inbox[i].live
    BY <1>5, OwnerFacts
  <2>3. FormatTypes'
    BY <1>1, <1>3, <2>1 DEF FormatDiscipline, FormatTypes, Requests
  <2>4. PipelineInv'
    BY <1>1, <1>2, <2>1, <2>2 DEF FormatDiscipline, PipelineInv
  <2>5. FormatInv'
    BY <1>2, <1>3, <1>5, <2>1 DEF FormatDiscipline, FormatInv
  <2>6. ExecLayout'
    BY <2>1 DEF FormatDiscipline, ExecLayout
  <2>7. QED
    BY <2>3, <2>4, <2>5, <2>6 DEF FormatDiscipline
<1>6. QED
  BY <1>4, <1>5

(* The same of a call that ends as most of them do. *)
LEMMA EndSettles ==
  ASSUME FormatDiscipline, LockDiscipline', NEW t \in Threads, Busy(t),
         NEW code, NEW drop, End(t, code, drop), rc' = rc, CacheShape',
         drop \/ /\ pc[t] # "waiting"
                 /\ cache'.send = Settled.send /\ cache'.recv = Settled.recv
  PROVE  FormatDiscipline'
<1>1. PICK c : Leave(t, c)
  BY DEF End, Finish, ReturnDisConnect, Return
<1>2. IF drop THEN DisconnectRC ELSE KeepConnection
  BY DEF End
<1>3. QED
  BY <1>1, <1>2, LeaveSettles

(* Going on to the next request of a call.                                    *)
LEMMA ProceedSettles ==
  ASSUME FormatDiscipline, NEW t \in Threads, Busy(t), pc[t] # "waiting",
         NEW req \in StagesOf(call[t]), Proceed(t, req), phase' = "open",
         UNCHANGED <<inbox, established, rc>>, CacheShape',
         link' \in BOOLEAN, link' /\ established => link,
         cache'.send = Settled.send /\ cache'.recv = Settled.recv,
         req.cmd = "REQ_EXEC_RTPOS" => req.arg = Layout(cache'.send, cache'.recv)
  PROVE  FormatDiscipline'
<1>1. LockDiscipline'
  BY ProceedKeeps DEF FormatDiscipline
<1>2. /\ stage' = req /\ reply' = NoReply /\ call' = call /\ owner' = owner
      /\ pc' = [pc EXCEPT ![t] = "sending"]
  BY DEF Proceed
<1>3. reply'.ok = FALSE /\ Settled' = cache'
  BY <1>2 DEF NoReply, Settled
<1>4. req \in Requests
  BY DEF FormatDiscipline, FormatTypes, StagesOf, Requests
<1>5. \A u \in Threads : u # t => pc'[u] \notin {"sending", "waiting", "answered"}
  BY <1>2, OwnerFacts DEF FormatDiscipline, LockDiscipline, LockTypes, Busy
<1>6. FormatTypes'
  BY <1>2, <1>3, <1>4 DEF FormatDiscipline, FormatTypes
<1>7. PipelineInv'
  <2>1. \A i \in DOMAIN inbox : ~inbox[i].live
    BY OwnerFacts
  <2>2. QED
    BY <1>2, <1>5, <2>1 DEF FormatDiscipline, PipelineInv
<1>8. FormatInv'
  BY <1>2, <1>3, <1>5 DEF FormatDiscipline, FormatInv
<1>9. ExecLayout'
  BY DEF FormatDiscipline, ExecLayout
<1>10. QED
  BY <1>1, <1>6, <1>7, <1>8, <1>9 DEF FormatDiscipline

(* Waiting for the lock concerns no request. *)
LEMMA EntersSettle ==
  ASSUME FormatDiscipline, NEW t \in Threads,
         Acquire(t) \/ LockTimeout(t) \/ \E c \in Calls : Start(t, c)
  PROVE  FormatDiscipline'
<1>1. LockDiscipline'
  BY EntersKeep DEF FormatDiscipline
<1>2. /\ UNCHANGED <<stage, reply, cache, phase, link, rc, inbox, established>>
      /\ ~Busy(t)
  BY DEF Acquire, LockTimeout, Start, channel, Busy
<1>3. PICK place \in {"idle", "locking", "entered"} : pc' = [pc EXCEPT ![t] = place]
  BY DEF Acquire, LockTimeout, Start
<1>4. PICK c \in Calls \union {NoCall, call[t]} : call' = [call EXCEPT ![t] = c]
  <2>1. CASE Acquire(t)
    <3>1. call' = [call EXCEPT ![t] = call[t]]
      BY <2>1 DEF Acquire, FormatDiscipline, FormatTypes
    <3>2. QED
      BY <3>1
  <2>2. CASE LockTimeout(t) \/ \E c \in Calls : Start(t, c)
    BY <2>2 DEF LockTimeout, Start
  <2>3. QED
    BY <2>1, <2>2
<1>5. owner' = IF Acquire(t) THEN t ELSE owner
  BY DEF Acquire, LockTimeout, Start
<1>6. reply # NoReply => owner # NoThread /\ owner' = owner /\ pc'[owner] = pc[owner]
  <2>1. reply # NoReply => owner # NoThread /\ pc[owner] \in {"waiting", "answered"}
    BY DEF FormatDiscipline, PipelineInv
  <2>2. reply # NoReply => owner \in Threads /\ owner # t
    BY <1>2, <2>1 DEF FormatDiscipline, LockDiscipline, LockTypes, Busy
  <2>3. reply # NoReply => ~Acquire(t)
    BY <2>1 DEF Acquire
  <2>4. QED
    BY <1>3, <1>5, <2>1, <2>2, <2>3 DEF FormatDiscipline, LockDiscipline, LockTypes
<1>7. \A u \in Threads :
        pc'[u] \in {"sending", "waiting", "answered"} => pc[u] = pc'[u] /\ call'[u] = call[u]
  BY <1>3, <1>4 DEF FormatDiscipline, LockDiscipline, LockTypes, FormatTypes
<1>8. FormatTypes'
  BY <1>2, <1>4 DEF FormatDiscipline, FormatTypes, CacheShape
<1>9. PipelineInv'
  BY <1>2, <1>6, <1>7 DEF FormatDiscipline, PipelineInv
<1>10. FormatInv'
  BY <1>2, <1>7 DEF FormatDiscipline, FormatInv, Settled
<1>11. ExecLayout'
  BY <1>2 DEF FormatDiscipline, ExecLayout
<1>12. QED
  BY <1>1, <1>8, <1>9, <1>10, <1>11 DEF FormatDiscipline

(* SendProc_Common: a request of an established connection is alone in the    *)
(* controller, and in the layout of its formats.                              *)
LEMMA SendSettles ==
  ASSUME FormatDiscipline, NEW t \in Threads, Send(t)
  PROVE  FormatDiscipline'
<1> DEFINE entry == [req |-> stage, live |-> TRUE, trusted |-> established]
<1>1. Busy(t) /\ pc[t] = "sending" /\ link
  BY DEF Send, Busy
<1>2. LockDiscipline'
  BY AwaitKeeps DEF FormatDiscipline, Await
<1>3. /\ UNCHANGED <<owner, call, stage, reply, cache, link, rc, established>> /\ phase' = "called"
      /\ pc' = [pc EXCEPT ![t] = "waiting"]
  BY DEF Send, Same, Channel!Call
<1>4. /\ reply = NoReply /\ reply.ok = FALSE /\ (established => inbox = <<>>)
      /\ \A i \in DOMAIN inbox : ~inbox[i].live
      /\ \A u \in Threads : u # t => ~Busy(u)
  BY <1>1, OwnerFacts DEF NoReply
<1>5. /\ inbox \in Seq(Entries) /\ Len(inbox) \in Nat /\ DOMAIN inbox = 1 .. Len(inbox)
      /\ entry \in Entries
  BY LenProperties DEF FormatDiscipline, FormatTypes, Entries
<1>6. inbox' = inbox \/ inbox' = Append(inbox, entry)
  BY DEF Send
<1>7. /\ Append(inbox, entry) \in Seq(Entries)
      /\ DOMAIN Append(inbox, entry) = 1 .. Len(inbox) + 1
      /\ Len(Append(inbox, entry)) = Len(inbox) + 1
      /\ \A i \in DOMAIN inbox : Append(inbox, entry)[i] = inbox[i]
      /\ Append(inbox, entry)[Len(inbox) + 1] = entry
      /\ inbox = <<>> => Head(Append(inbox, entry)) = entry
      /\ inbox # <<>> => Head(Append(inbox, entry)) = Head(inbox)
  <2>1. Len(Append(inbox, entry)) = Len(inbox) + 1 /\ Append(inbox, entry) \in Seq(Entries)
    BY <1>5, AppendProperties
  <2>2. DOMAIN Append(inbox, entry) = 1 .. Len(inbox) + 1
    BY <2>1, LenProperties
  <2>3. Head(Append(inbox, entry)) = IF inbox = <<>> THEN entry ELSE Head(inbox)
    BY <1>5, HeadTailAppend
  <2>4. /\ \A i \in 1 .. Len(inbox) : Append(inbox, entry)[i] = inbox[i]
        /\ Append(inbox, entry)[Len(inbox) + 1] = entry
    BY <1>5, AppendProperties
  <2>5. QED
    BY <1>5, <2>1, <2>2, <2>3, <2>4
<1>8. \A u \in Threads : u # t => pc'[u] \notin {"sending", "waiting", "answered"}
  BY <1>3, <1>4 DEF FormatDiscipline, LockDiscipline, LockTypes, Busy
<1>9. FormatTypes'
  BY <1>3, <1>5, <1>6, <1>7 DEF FormatDiscipline, FormatTypes, CacheShape
<1>10. PipelineInv'
  <2>1. inbox = <<>> => Len(inbox) = 0
    BY EmptySeq
  <2>2. \A i \in DOMAIN inbox' :
          /\ inbox'[i].live => i = Len(inbox') /\ inbox'[i].req = stage
          /\ inbox'[i].trusted => i = 1
          /\ established => inbox'[i].live
    <3>1. CASE inbox' = inbox
      BY <1>4, <3>1 DEF FormatDiscipline, PipelineInv
    <3>2. CASE inbox' = Append(inbox, entry)
      <4>1. TAKE i \in DOMAIN inbox'
      <4>2. CASE i \in DOMAIN inbox
        <5>1. inbox'[i] = inbox[i]
          BY <1>7, <3>2, <4>2
        <5>2. QED
          BY <1>4, <4>2, <5>1 DEF FormatDiscipline, PipelineInv
      <4>3. CASE i = Len(inbox) + 1
        BY <1>4, <1>7, <2>1, <3>2, <4>3
      <4>4. QED
        BY <1>5, <1>7, <3>2, <4>2, <4>3
    <3>3. QED
      BY <1>6, <3>1, <3>2
  <2>3. stage \in StagesOf(call[t])
    BY <1>1 DEF FormatDiscipline, PipelineInv
  <2>4. QED
    BY <1>3, <1>4, <1>8, <2>2, <2>3 DEF PipelineInv
<1>11. FormatInv'
  BY <1>3, <1>4, <1>8 DEF FormatDiscipline, FormatInv, Settled, LockDiscipline, LockTypes
<1>12. ExecLayout'
  <2>1. established => cache.send = rc.send /\ cache.recv = rc.recv
    BY <1>1, <1>4, SettledAsCached DEF FormatDiscipline, FormatInv
  <2>2. stage.cmd = "REQ_EXEC_RTPOS" => stage.arg = Layout(cache.send, cache.recv)
    BY <1>1 DEF FormatDiscipline, FormatInv
  <2>3. CASE inbox' = inbox
    BY <1>3, <2>3 DEF FormatDiscipline, ExecLayout
  <2>4. CASE inbox' = Append(inbox, entry) /\ inbox = <<>>
    BY <1>3, <1>7, <2>1, <2>2, <2>4 DEF ExecLayout
  <2>5. CASE inbox' = Append(inbox, entry) /\ inbox # <<>>
    BY <1>3, <1>7, <2>5 DEF FormatDiscipline, ExecLayout
  <2>6. QED
    BY <1>6, <2>3, <2>4, <2>5
<1>13. QED
  BY <1>2, <1>9, <1>10, <1>11, <1>12 DEF FormatDiscipline

(* The answer is accepted, fails, or cannot be asked for.                     *)
LEMMA AwaitSettles ==
  ASSUME FormatDiscipline, NEW t \in Threads, Await(t)
  PROVE  FormatDiscipline'
<1>1. Busy(t) /\ LockDiscipline'
  BY AwaitKeeps DEF FormatDiscipline, Await, SendNotConnected, Send, SendFails, SendSucceeds, Busy
<1>2. CASE \E code : End(t, code, TRUE) /\ Same
  BY <1>1, <1>2, EndSettles DEF Same, FormatDiscipline, FormatTypes, CacheShape
<1>3. CASE SendSucceeds(t)
  <2>1. /\ UNCHANGED <<owner, call, stage, reply, cache, link, rc, inbox, established>>
        /\ phase = "called" /\ phase' = "open" /\ pc[t] = "waiting" /\ reply # NoReply
        /\ pc' = [pc EXCEPT ![t] = "answered"]
    BY <1>3 DEF SendSucceeds, Same, Channel!Succeed
  <2>2. \A u \in Threads : pc'[u] \in {"sending", "waiting", "answered"} => u = t
    BY <1>1, <2>1, OwnerFacts DEF FormatDiscipline, LockDiscipline, LockTypes, Busy
  <2>3. /\ stage \in StagesOf(call[t]) /\ inbox = <<>> /\ owner = t /\ pc'[t] = "answered"
        /\ t # NoThread
    BY <1>1, <2>1, OwnerFacts, ThreadsAssumption
    DEF FormatDiscipline, PipelineInv, LockDiscipline, LockTypes
  <2>4. FormatTypes'
    BY <2>1 DEF FormatDiscipline, FormatTypes, CacheShape
  <2>5. PipelineInv'
    BY <2>1, <2>2, <2>3 DEF PipelineInv
  <2>6. FormatInv'
    BY <2>1, <2>2, <2>3 DEF FormatDiscipline, FormatInv, Settled
  <2>7. ExecLayout'
    BY <2>1 DEF FormatDiscipline, ExecLayout
  <2>8. QED
    BY <1>1, <2>4, <2>5, <2>6, <2>7 DEF FormatDiscipline
<1>4. QED
  BY <1>2, <1>3, SendSettles DEF Await, SendNotConnected, SendFails

(* Reading a notice, when the answer before it has been looked at.            *)
LEMMA ReadSettles ==
  ASSUME FormatDiscipline, LockDiscipline', NEW t \in Threads, Busy(t), pc[t] # "waiting",
         phase = "open", Read(t), Same, Settled = cache
  PROVE  FormatDiscipline'
<1>1. CacheShape' /\ CacheShape /\ link \in BOOLEAN /\ UNCHANGED <<cache, rc>>
  BY DEF FormatDiscipline, FormatTypes, CacheShape, Same
<1>2. CASE AskPosition(t)
  <2>1. Get_CurrentJA \in StagesOf(call[t]) /\ Get_CurrentJA.cmd # "REQ_EXEC_RTPOS"
    BY <1>2, FixedRequests DEF AskPosition, StagesOf
  <2>2. Proceed(t, Get_CurrentJA) /\ UNCHANGED <<phase, link, inbox, established>>
    BY <1>2 DEF AskPosition, KeepConnection, channel
  <2>3. QED
    BY <1>1, <2>1, <2>2, ProceedSettles
<1>3. \A code, drop : End(t, code, drop) => FormatDiscipline'
  BY <1>1, EndSettles
<1>4. QED
  BY <1>2, <1>3 DEF Read, NoticePosition

(* The first part of a call sends nothing yet, and changes no format.         *)
LEMMA BeginSettles ==
  ASSUME FormatDiscipline, NEW t \in Threads, Begin(t)
  PROVE  FormatDiscipline'
<1>1. pc[t] = "entered" /\ Busy(t)
  BY DEF Begin, Configure, ConnectRefused, ConnectCleans, ConnectFails, Connected, Refuse,
         Prepare, ReadRefused, ReadErrorMessage, ReadNotice, Busy
<1>2. LockDiscipline' /\ phase \in {"closed", "open"}
  BY <1>1, BeginKeeps, Owns DEF FormatDiscipline
<1>3. reply = NoReply /\ reply.ok = FALSE /\ Settled = cache
  BY <1>1, OwnerFacts, SettledAsCached DEF NoReply
<1>4. CacheShape /\ link \in BOOLEAN /\ call[t] \in Calls \union {NoCall}
  BY DEF FormatDiscipline, FormatTypes
<1>5. call[t].kind # "config" => call[t] \in Calls
  BY <1>4 DEF NoCall, Configuration, Request
<1>6. ASSUME NEW code, NEW drop, End(t, code, drop), Same PROVE FormatDiscipline'
  BY <1>1, <1>2, <1>3, <1>4, <1>6, EndSettles DEF Same, CacheShape
<1>7. CASE ConnectCleans(t)
  <2>1. UNCHANGED <<owner, pc, call, stage, reply, cache, rc>> /\ DisconnectRC
    BY <1>7 DEF ConnectCleans, Same, threads
  <2>2. /\ link' = FALSE /\ established' = FALSE
        /\ inbox' \in Seq(Entries) /\ DOMAIN inbox' = DOMAIN inbox
        /\ \A i \in DOMAIN inbox : /\ inbox'[i].live = FALSE /\ inbox'[i].req = inbox[i].req
                                   /\ inbox'[i].trusted = inbox[i].trusted
        /\ ExecLayout'
    BY <2>1, Dropping
  <2>3. FormatTypes'
    BY <2>1, <2>2 DEF FormatDiscipline, FormatTypes, CacheShape
  <2>4. PipelineInv'
    BY <1>3, <2>1, <2>2 DEF FormatDiscipline, PipelineInv
  <2>5. FormatInv'
    BY <2>1, <2>2 DEF FormatDiscipline, FormatInv
  <2>6. QED
    BY <1>2, <2>2, <2>3, <2>4, <2>5 DEF FormatDiscipline
<1>8. CASE Connected(t)
  <2>1. /\ Proceed(t, call[t]) /\ phase = "closed" /\ phase' = "open" /\ link' = TRUE
        /\ UNCHANGED <<inbox, established, cache, rc>> /\ call[t].kind = "connect"
    BY <1>8 DEF Connected, Channel!Open, Same
  <2>2. ~established
    BY <2>1 DEF FormatDiscipline, FormatInv
  <2>3. call[t] \in StagesOf(call[t]) /\ call[t].cmd # "REQ_EXEC_RTPOS"
    BY <1>5, <2>1, CallsAssumption DEF StagesOf
  <2>4. QED
    BY <1>1, <1>3, <1>4, <2>1, <2>2, <2>3, ProceedSettles DEF CacheShape
<1>9. CASE Refuse(t)
  <2>1. CASE call[t].kind = "disconnect"
    <3>1. Leave(t, "CLIENT_COM_ERR") /\ KeepConnection /\ Same
      BY <1>9, <2>1 DEF Refuse, Return
    <3>2. QED
      BY <1>1, <1>2, <1>3, <1>4, <3>1, LeaveSettles DEF Same, CacheShape
  <2>2. CASE call[t].kind # "disconnect"
    BY <1>6, <1>9, <2>2 DEF Refuse
  <2>3. QED
    BY <2>1, <2>2
<1>10. CASE Prepare(t)
  <2>1. /\ Proceed(t, call[t]) /\ UNCHANGED <<phase, link, inbox, established, rc>>
        /\ phase = "open" /\ call[t].kind \in {"request", "disconnect"}
        /\ <<cache.send, cache.recv>> \in call[t].formats
    BY <1>2, <1>10 DEF Prepare, Refusal, KeepConnection, channel
  <2>2. CacheShape' /\ cache'.send = cache.send /\ cache'.recv = cache.recv
    BY <1>4, <1>10 DEF Prepare, CacheShape
  <2>3. call[t] \in StagesOf(call[t])
    BY <2>1 DEF StagesOf
  <2>4. call[t].cmd = "REQ_EXEC_RTPOS" => call[t].arg = Layout(cache'.send, cache'.recv)
    BY <1>5, <2>1, <2>2, ExecRequests
  <2>5. QED
    BY <1>1, <1>3, <1>4, <2>1, <2>2, <2>3, <2>4, ProceedSettles
<1>11. CASE ReadErrorMessage(t)
  <2>1. /\ Proceed(t, ErrorMessage) /\ UNCHANGED <<phase, link, inbox, established, cache, rc>>
        /\ phase = "open" /\ call[t].kind \in {"status", "position"}
    BY <1>11 DEF ReadErrorMessage, KeepConnection, Same, channel
  <2>2. ErrorMessage \in StagesOf(call[t]) /\ ErrorMessage.cmd # "REQ_EXEC_RTPOS"
    BY <2>1, FixedRequests DEF StagesOf
  <2>3. QED
    BY <1>1, <1>3, <1>4, <2>1, <2>2, ProceedSettles DEF CacheShape
<1>12. CASE ReadNotice(t)
  BY <1>1, <1>2, <1>3, <1>12, ReadSettles DEF ReadNotice
<1>13. CASE Configure(t) \/ ConnectRefused(t) \/ ConnectFails(t) \/ ReadRefused(t)
  BY <1>6, <1>13 DEF Configure, ConnectRefused, ConnectFails, ReadRefused
<1>14. QED
  BY <1>7, <1>8, <1>9, <1>10, <1>11, <1>12, <1>13 DEF Begin

(* A refusal is never a success. *)
LEMMA RefusalsFail ==
  ASSUME NEW req, NEW a, Outcome(req, a) = "CLIENT_SUCCESS"
  PROVE  a.ok /\ Acceptable(req, a)
<1>1. \A i \in 1 .. 7 : StatusErrors[i] # "CLIENT_SUCCESS"
  BY DEF StatusErrors
<1>2. \A code, detail, details : Convert_RTMCRCErrInfo(code, detail, details) # "CLIENT_SUCCESS"
  BY <1>1 DEF Convert_RTMCRCErrInfo
<1>3. QED
  BY <1>2 DEF Outcome

(* The last part of a call: the cache takes over what the answer accepted, or *)
(* what the controller told at the connection.                                *)
LEMMA JudgeSettles ==
  ASSUME FormatDiscipline, NEW t \in Threads, Judge(t)
  PROVE  FormatDiscipline'
<1>1. Busy(t) /\ pc[t] = "answered"
  BY DEF Judge, Fail, FallBackOnNotice, Succeed, Reads, ConnectContinues, ConnectSucceeds, Busy
<1>2. LockDiscipline' /\ phase = "open" /\ owner = t
  BY <1>1, JudgeKeeps DEF FormatDiscipline, LockDiscipline, ObjectAlive
<1>3. CacheShape /\ link \in BOOLEAN /\ call[t] \in Calls \union {NoCall}
  BY DEF FormatDiscipline, FormatTypes
<1>4. stage \in StagesOf(call[t])
  BY <1>1 DEF FormatDiscipline, PipelineInv
<1>5. ASSUME NEW code, NEW drop, End(t, code, drop), Same, Settled = cache
      PROVE  FormatDiscipline'
  BY <1>1, <1>2, <1>3, <1>5, EndSettles DEF Same, CacheShape
<1>6. call[t].kind # "request" \/ Answer(t) # "CLIENT_SUCCESS" => Settled = cache
  BY <1>3, <1>4, FormatRequests, SettledAsCached DEF Answer
<1>7. CASE Fail(t)
  BY <1>5, <1>6, <1>7 DEF Fail
<1>8. CASE FallBackOnNotice(t)
  <2>1. Settled = cache
    BY <1>8, SettledAsCached DEF FallBackOnNotice, NoticeInstead, SetCommands
  <2>2. QED
    BY <1>5, <1>8, <2>1 DEF FallBackOnNotice, NoticePosition
<1>9. CASE Succeed(t)
  <2>1. cache' = SetFormat(stage, cache) /\ rc' = rc /\ reply.ok
    BY <1>9, RefusalsFail DEF Succeed, Answer
  <2>2. cache' = Settled
    BY <2>1 DEF Settled
  <2>3. CacheShape'
    BY <1>3, <2>1 DEF CacheShape, SetFormat
  <2>4. QED
    BY <1>1, <1>2, <1>9, <2>1, <2>2, <2>3, EndSettles DEF Succeed
<1>10. CASE Reads(t)
  <2>1. Settled = cache
    BY <1>6, <1>10 DEF Reads
  <2>2. QED
    BY <1>1, <1>2, <1>5, <1>10, <2>1, ReadSettles DEF Reads
<1>11. CASE ConnectContinues(t)
  <2>1. PICK next \in Following(stage.cmd) : Proceed(t, next)
    BY <1>11 DEF ConnectContinues
  <2>2. /\ UNCHANGED <<phase, link, inbox, established, cache, rc>>
        /\ call[t].kind = "connect"
    BY <1>11 DEF ConnectContinues, KeepConnection, Same, channel
  <2>3. next \in {ConnectPosition, ConnectStatus, ErrorMessage, ConnectFormat}
    BY <2>1 DEF Following
  <2>4. next \in StagesOf(call[t]) /\ next.cmd # "REQ_EXEC_RTPOS"
    BY <2>2, <2>3, FixedRequests DEF StagesOf
  <2>5. QED
    BY <1>1, <1>2, <1>3, <1>6, <2>1, <2>2, <2>4, ProceedSettles DEF CacheShape
<1>12. CASE ConnectSucceeds(t)
  <2>1. PICK c : Leave(t, c)
    BY <1>12 DEF ConnectSucceeds, Finish, ReturnDisConnect, Return
  <2>2. /\ stage' = NoCall /\ reply' = NoReply /\ call' = [call EXCEPT ![t] = NoCall]
        /\ pc' = [pc EXCEPT ![t] = "idle"]
    BY <2>1 DEF Leave
  <2>3. /\ UNCHANGED <<phase, link, inbox, rc>> /\ established' = TRUE
        /\ cache' = Learn(reply.formats)
    BY <1>12 DEF ConnectSucceeds, channel
  <2>4. reply.ok /\ reply.formats \in Formats /\ stage.cmd = "SYS_REQ_RTMC_FORMAT_INFO"
    BY <1>12, RefusalsFail DEF ConnectSucceeds, Answer, Acceptable
  <2>5. inbox = <<>>
    BY <1>1, <2>4, OwnerFacts
  <2>6. link => cache'.send = rc.send /\ cache'.recv = rc.recv
    <3>1. link => reply.formats = <<rc.send, rc.recv>>
      BY <2>4 DEF FormatDiscipline, FormatInv
    <3>2. cache'.send = reply.formats[1] /\ cache'.recv = reply.formats[2]
      BY <2>3 DEF Learn
    <3>3. QED
      BY <3>1, <3>2
  <2>7. reply'.ok = FALSE /\ Settled' = cache' /\ stage'.cmd = "none"
    BY <2>2 DEF NoReply, Settled, NoCall, Configuration, Request
  <2>8. \A u \in Threads : pc'[u] \notin {"sending", "waiting", "answered"}
    BY <1>1, <2>2, OwnerFacts DEF FormatDiscipline, LockDiscipline, LockTypes, Busy
  <2>9. FormatTypes'
    BY <2>2, <2>3, <2>7 DEF FormatDiscipline, FormatTypes, Requests, CacheShape, Learn
  <2>10. PipelineInv'
    BY <2>2, <2>3, <2>5, <2>8 DEF PipelineInv
  <2>11. FormatInv'
    BY <1>2, <2>3, <2>6, <2>7, <2>8 DEF FormatInv
  <2>12. ExecLayout'
    BY <2>3 DEF FormatDiscipline, ExecLayout
  <2>13. QED
    BY <1>2, <2>9, <2>10, <2>11, <2>12 DEF FormatDiscipline
<1>13. QED
  BY <1>7, <1>8, <1>9, <1>10, <1>11, <1>12 DEF Judge

(* The controller takes the first request out of the inbox: it answers only   *)
(* one whose caller waits, and only that one can change formats that the      *)
(* client relies on.                                                          *)
LEMMA TakenSettles ==
  ASSUME FormatDiscipline, inbox # <<>>, inbox' = Tail(inbox),
         UNCHANGED <<threads, stage, cache, channel, link, established>>,
         \/ UNCHANGED <<reply, rc>>
         \/ RCExecutes
         \/ RCRefuses
  PROVE  FormatDiscipline'
<1> DEFINE head == Head(inbox)
<1>1. /\ Len(inbox) \in Nat /\ 1 \in DOMAIN inbox /\ head = inbox[1] /\ head \in Entries
      /\ inbox' \in Seq(Entries) /\ Len(inbox') = Len(inbox) - 1
      /\ \A i \in DOMAIN inbox' : i \in Nat \ {0} /\ i + 1 \in DOMAIN inbox /\ inbox'[i] = inbox[i + 1]
  BY RestOfInbox DEF FormatDiscipline, FormatTypes
<1>2. UNCHANGED <<owner, pc, call, stage, cache, phase, link, established, leaked>>
  BY DEF threads, channel
<1>3. LockDiscipline'
  BY <1>2 DEF FormatDiscipline, LockDiscipline, LockTypes, ObjectAlive, LockReturned,
     CalledByOwner, Busy
<1>4. reply = NoReply /\ reply.ok = FALSE
  BY DEF FormatDiscipline, PipelineInv, NoReply
<1>5. head.live => /\ Len(inbox) = 1 /\ inbox' = <<>> /\ phase = "called" /\ head.req = stage
                   /\ owner # NoThread /\ pc[owner] = "waiting"
  <2>1. head.live => Len(inbox) = 1 /\ phase = "called" /\ head.req = stage
    BY <1>1 DEF FormatDiscipline, PipelineInv
  <2>2. Len(inbox') = 0 => inbox' = <<>>
    BY <1>1, EmptySeq
  <2>3. QED
    BY <1>1, <2>1, <2>2 DEF FormatDiscipline, LockDiscipline, CalledByOwner
<1>6. ~head.live => reply' = reply /\ ~established
  BY <1>1 DEF FormatDiscipline, PipelineInv, RCExecutes, RCRefuses, Deliver
<1>7. reply'.ok \in BOOLEAN /\ rc' = [send |-> rc'.send, recv |-> rc'.recv, checked |-> rc'.checked]
  <2>1. CASE UNCHANGED <<reply, rc>>
    BY <2>1 DEF FormatDiscipline, FormatTypes
  <2>2. CASE RCExecutes
    <3>1. reply'.ok \in BOOLEAN
      <4>1. CASE head.live
        BY <2>2, <4>1 DEF RCExecutes, Deliver
      <4>2. CASE ~head.live
        BY <1>4, <1>6, <4>2
      <4>3. QED
        BY <4>1, <4>2
    <3>2. rc' = Execute(head.req, rc)
      BY <2>2 DEF RCExecutes
    <3>3. QED
      BY <3>1, <3>2 DEF FormatDiscipline, FormatTypes, Execute
  <2>3. CASE RCRefuses
    BY <1>4, <2>3 DEF RCRefuses, Deliver, NoReply, FormatDiscipline, FormatTypes
  <2>4. QED
    BY <2>1, <2>2, <2>3
<1>8. FormatTypes'
  BY <1>1, <1>2, <1>7 DEF FormatDiscipline, FormatTypes, CacheShape
<1>9. PipelineInv'
  <2>1. \A i \in DOMAIN inbox' :
          /\ ~inbox'[i].trusted
          /\ inbox'[i].live => /\ i = Len(inbox') /\ phase = "called" /\ inbox'[i].req = stage
                               /\ ~head.live
          /\ established => inbox'[i].live
    <3>1. TAKE i \in DOMAIN inbox'
    <3>2. inbox'[i] = inbox[i + 1] /\ i + 1 # 1 /\ i + 1 \in DOMAIN inbox
      BY <1>1
    <3>3. ~head.live
      BY <1>1, <1>5, <3>2, LenProperties DEF FormatDiscipline, FormatTypes
    <3>4. QED
      BY <1>1, <3>2, <3>3 DEF FormatDiscipline, PipelineInv
  <2>2. reply' # NoReply => inbox' = <<>> /\ owner # NoThread /\ pc[owner] = "waiting"
    BY <1>4, <1>5, <1>6
  <2>3. QED
    BY <1>2, <1>4, <1>6, <2>1, <2>2 DEF FormatDiscipline, PipelineInv
<1>10. FormatInv'
  <2>1. established /\ link => cache.send = rc.send /\ cache.recv = rc.recv
    BY <1>4, SettledAsCached DEF FormatDiscipline, FormatInv
  <2>2. established /\ link => Settled'.send = rc'.send /\ Settled'.recv = rc'.recv
    <3>1. CASE RCExecutes /\ established /\ link
      <4>1. head.live /\ head.req = stage
        BY <1>5, <1>6, <3>1
      <4>2. reply'.ok = TRUE /\ rc' = Execute(stage, rc)
        BY <3>1, <4>1 DEF RCExecutes, Deliver
      <4>3. Settled' = SetFormat(stage, cache)
        BY <1>2, <4>2 DEF Settled, SetFormat
      <4>4. CacheShape /\ rc = [send |-> rc.send, recv |-> rc.recv, checked |-> rc.checked]
        BY DEF FormatDiscipline, FormatTypes
      <4>5. QED
        BY <2>1, <3>1, <4>2, <4>3, <4>4 DEF CacheShape, Execute, SetFormat
    <3>2. CASE ~RCExecutes
      <4>1. rc' = rc /\ reply'.ok = FALSE
        BY <1>4, <3>2 DEF RCRefuses, Deliver, NoReply
      <4>2. QED
        BY <1>2, <2>1, <4>1 DEF Settled
    <3>3. QED
      BY <3>1, <3>2
  <2>3. ASSUME stage.cmd = "SYS_REQ_RTMC_FORMAT_INFO", reply'.ok, reply'.formats \in Formats
        PROVE  reply'.formats = <<rc'.send, rc'.recv>>
    <3>1. RCExecutes /\ head.live /\ head.req = stage
      BY <1>4, <1>5, <1>6, <2>3 DEF RCRefuses, Deliver, NoReply
    <3>2. reply'.formats \in {<<rc.send, rc.recv>>, <<2, 2>>} /\ rc' = Execute(stage, rc)
      BY <2>3, <3>1 DEF RCExecutes, Deliver, AnswerFormats
    <3>3. rc' = rc /\ <<2, 2>> \notin Formats
      BY <2>3, <3>2 DEF Execute, Formats
    <3>4. QED
      BY <2>3, <3>2, <3>3
  <2>4. QED
    BY <1>2, <2>2, <2>3 DEF FormatDiscipline, FormatInv
<1>11. ExecLayout'
  <2>1. inbox' # <<>> => 1 \in DOMAIN inbox' /\ Head(inbox') = inbox'[1]
    BY <1>1, RestOfInbox
  <2>2. inbox' # <<>> => ~Head(inbox').trusted
    BY <1>1, <2>1 DEF FormatDiscipline, PipelineInv
  <2>3. QED
    BY <2>2 DEF ExecLayout
<1>12. QED
  BY <1>3, <1>8, <1>9, <1>10, <1>11 DEF FormatDiscipline

(* Another client begins without a connection, and what the controller holds  *)
(* is nobody's.                                                               *)
LEMMA NewClientSettles ==
  ASSUME FormatDiscipline, NewClient
  PROVE  FormatDiscipline'
<1>1. LockDiscipline'
  BY NewClientKeeps DEF FormatDiscipline
<1>2. /\ UNCHANGED <<pc, call, stage, reply, rc>>
      /\ \A t \in Threads : pc[t] = "idle"
  BY DEF NewClient
<1>3. reply = NoReply /\ reply.ok = FALSE
  BY <1>2 DEF FormatDiscipline, LockDiscipline, LockTypes, PipelineInv, NoReply
<1>4. /\ link' \in BOOLEAN /\ established' = FALSE
      /\ inbox' \in Seq(Entries) /\ DOMAIN inbox' = DOMAIN inbox
      /\ \A i \in DOMAIN inbox : /\ inbox'[i].live = FALSE /\ inbox'[i].req = inbox[i].req
                                 /\ inbox'[i].trusted = inbox[i].trusted
      /\ ExecLayout'
  <2>1. CASE phase = "closed"
    <3>1. UNCHANGED <<link, established, inbox>>
      BY <2>1 DEF NewClient, KeepConnection
    <3>2. established = FALSE /\ \A i \in DOMAIN inbox : inbox[i].live = FALSE
      <4>1. \A i \in DOMAIN inbox : inbox[i] \in Entries
        BY LenProperties, ElementOfSeq DEF FormatDiscipline, FormatTypes
      <4>2. QED
        BY <2>1, <4>1 DEF Entries, FormatDiscipline, FormatTypes, FormatInv, PipelineInv
    <3>3. QED
      BY <1>2, <3>1, <3>2 DEF FormatDiscipline, FormatTypes, ExecLayout
  <2>2. CASE phase # "closed"
    BY <1>2, <2>2, Dropping DEF NewClient
  <2>3. QED
    BY <2>1, <2>2
<1>5. FormatTypes'
  BY <1>2, <1>4 DEF NewClient, NoCache, FormatDiscipline, FormatTypes, CacheShape
<1>6. PipelineInv'
  BY <1>2, <1>3, <1>4 DEF FormatDiscipline, PipelineInv
<1>7. FormatInv'
  BY <1>2, <1>3, <1>4 DEF FormatInv
<1>8. QED
  BY <1>1, <1>4, <1>5, <1>6, <1>7 DEF FormatDiscipline

(* A lost link or a restart ends what the client could rely on.               *)
LEMMA EnvironmentSettles ==
  ASSUME FormatDiscipline, Environment
  PROVE  FormatDiscipline'
<1>1. CASE RCExecutes
  BY <1>1, TakenSettles DEF RCExecutes
<1>2. CASE RCRefuses
  BY <1>2, TakenSettles DEF RCRefuses
<1>3. CASE RequestLost
  BY <1>3, TakenSettles DEF RequestLost
<1>4. CASE LinkLost \/ RCRestarts
  <2>1. /\ UNCHANGED <<owner, pc, call, stage, reply, cache, phase, established, leaked>>
        /\ link' = FALSE /\ reply'.ok = reply.ok
    BY <1>4 DEF LinkLost, RCRestarts, threads, channel
  <2>2. \/ inbox' = inbox /\ rc' = rc
        \/ inbox' = <<>> /\ rc' = [send |-> 0, recv |-> 0, checked |-> FALSE]
    BY <1>4 DEF LinkLost, RCRestarts
  <2>3. LockDiscipline'
    BY <2>1 DEF FormatDiscipline, LockDiscipline, LockTypes, ObjectAlive, LockReturned,
       CalledByOwner, Busy
  <2>4. FormatTypes'
    BY <2>1, <2>2, EmptySeq DEF FormatDiscipline, FormatTypes, CacheShape
  <2>5. PipelineInv'
    BY <2>1, <2>2 DEF FormatDiscipline, PipelineInv
  <2>6. FormatInv'
    BY <2>1 DEF FormatDiscipline, FormatInv
  <2>7. ExecLayout'
    BY <2>2 DEF FormatDiscipline, ExecLayout
  <2>8. QED
    BY <2>3, <2>4, <2>5, <2>6, <2>7 DEF FormatDiscipline
<1>5. QED
  BY <1>1, <1>2, <1>3, <1>4 DEF Environment

(* The discipline of the formats is an invariant of the client.               *)
THEOREM FormatDisciplineHolds == Spec => []FormatDiscipline
<1>1. Init => FormatDiscipline
  <2> SUFFICES ASSUME Init PROVE FormatDiscipline
    OBVIOUS
  <2>1. LockDiscipline
    BY ThreadsAssumption DEF Init, LockDiscipline, LockTypes, ObjectAlive, LockReturned,
       CalledByOwner, Stages, Busy, Channel!Init
  <2>2. reply = NoReply /\ reply.ok = FALSE /\ stage.cmd = "none"
    BY DEF Init, NoReply, NoCall, Configuration, Request
  <2>3. FormatTypes
    BY <2>2, EmptySeq DEF Init, NoCache, FormatTypes, Requests, CacheShape
  <2>4. PipelineInv /\ FormatInv /\ ExecLayout
    BY <2>2 DEF Init, PipelineInv, FormatInv, ExecLayout
  <2>5. QED
    BY <2>1, <2>3, <2>4 DEF FormatDiscipline
<1>2. FormatDiscipline /\ [Next]_vars => FormatDiscipline'
  <2> SUFFICES ASSUME FormatDiscipline, [Next]_vars PROVE FormatDiscipline'
    OBVIOUS
  <2>1. CASE UNCHANGED vars
    BY <2>1 DEF vars, threads, channel, FormatDiscipline, LockDiscipline, LockTypes, ObjectAlive,
       LockReturned, CalledByOwner, Busy, FormatTypes, CacheShape, PipelineInv, FormatInv, Settled,
       ExecLayout
  <2>2. ASSUME NEW t \in Threads, Thread(t) \/ \E c \in Calls : Start(t, c) PROVE FormatDiscipline'
    BY <2>2, EntersSettle, BeginSettles, AwaitSettles, JudgeSettles DEF Thread
  <2>3. QED
    BY <2>1, <2>2, NewClientSettles, EnvironmentSettles DEF Next
<1>3. QED
  BY <1>1, <1>2, PTL DEF Spec

(* The controller holds at most one request that is waited for, behind the    *)
(* ones given up.                                                             *)
THEOREM PipelineHolds == Spec => []PipelineInv
<1>1. FormatDiscipline => PipelineInv
  BY DEF FormatDiscipline
<1>2. QED
  BY <1>1, FormatDisciplineHolds, PTL

(* The formats of an established connection are the settled ones.             *)
THEOREM FormatsSettled == Spec => []FormatInv
<1>1. FormatDiscipline => FormatInv
  BY DEF FormatDiscipline
<1>2. QED
  BY <1>1, FormatDisciplineHolds, PTL

(* No Exec_RTMC reaches the controller in another layout than it reads.       *)
THEOREM LayoutsAgree == Spec => []ExecLayout
<1>1. FormatDiscipline => ExecLayout
  BY DEF FormatDiscipline
<1>2. QED
  BY <1>1, FormatDisciplineHolds, PTL

(* Between calls the cached formats are the controller's while the connection *)
(* stands.                                                                    *)
THEOREM FormatsAgree == Spec => []FormatAgreement
<1>1. FormatDiscipline => FormatAgreement
  <2> SUFFICES ASSUME FormatDiscipline PROVE FormatAgreement
    OBVIOUS
  <2>1. ASSUME phase = "open", \A t \in Threads : pc[t] # "answered" PROVE reply.ok = FALSE
    <3>1. \A t \in Threads : pc[t] # "waiting"
      BY <2>1 DEF FormatDiscipline, LockDiscipline, ObjectAlive
    <3>2. reply = NoReply
      BY <2>1, <3>1 DEF FormatDiscipline, PipelineInv, LockDiscipline, LockTypes
    <3>3. QED
      BY <3>2 DEF NoReply
  <2>2. FormatAgreement
    BY <2>1, SettledAsCached DEF FormatDiscipline, FormatInv, FormatAgreement
  <2>3. QED
    BY <2>2
<1>2. QED
  BY <1>1, FormatDisciplineHolds, PTL
================================================================================
