---------------------------- MODULE DDSCommunication ----------------------------
(***************************************************************************)
(* The communication object (class DDSCommunication): the caller's thread   *)
(* in DDS_Send, the Fast DDS listener thread in the callbacks of            *)
(* PubListener and SubListener, and the controller at the other end.        *)
(*                                                                          *)
(* The caller writes a request under mutex_sig_, waits on sig_condition for *)
(* at most 5 s and then reads whatever the response slot rrddata_cmdres     *)
(* holds.  The only link between a request and its answer is the command    *)
(* ID.  Requests are numbered here in the order they are written; asked[r]  *)
(* is the command ID of request r, and an answer is known by the request it *)
(* answers (numbers the code itself does not have).                         *)
(***************************************************************************)
EXTENDS Integers, Sequences

CONSTANTS Cmds,             \* command IDs of requests
          Notices,          \* command IDs of notices (SYS_NOTICE_...)
          MaxRequests,      \* bound: requests written in a behaviour
          MaxSessions,      \* bound: communication objects created
          MaxNotices,       \* bound: notices the controller publishes
          SpuriousWakeups,  \* whether pthread_cond_timedwait may return 0 unsignalled
          NoCmd             \* no command

ASSUME CmdsAssumption == NoCmd \notin Cmds
ASSUME BoundsAssumption == /\ MaxRequests \in Nat
                           /\ MaxSessions \in Nat
                           /\ MaxNotices \in Nat
ASSUME WakeupsAssumption == SpuriousWakeups \in BOOLEAN

VARIABLES
  (* The object, and where the caller's thread is in it. *)
  pc,          \* see PCs
  pub, sub,    \* matched and disconnect of PubListener and SubListener
  failedGet,   \* FailedGetRRDData
  mutexSig,    \* mutex_sig_: "free", or "caller"; the listener's hold is one step
  cond,        \* the caller on sig_condition
  cmdres,      \* rrddata_cmdres: the request answered by its content, 0 for none
  cmd,         \* the command of the DDS_Send under way
  hand,        \* the answer on_data_available has taken and not yet stored, or 0
  notice,      \* rrddata_rc_status, rrddata_ja_status and their new... flags
  mutexRrd,    \* mutex_rrd_: "free", "caller" or "listener"
  taken,       \* the notice on_data_available has taken and not yet stored, if any
  copy,        \* the notice Get_NewStatus asks for, and its copy
  (* The network and the controller. *)
  requests,    \* requests on their way to the controller or waiting in it
  answers,     \* answers on their way to the reader
  news,        \* notices on their way to the reader
  (* History. *)
  asked,       \* the commands written, in order
  first,       \* the number the first request of this session has
  result,      \* the last successful call of this session
  seen,        \* the notice last handed to the caller, per kind
  late,        \* an answer to an earlier session's request reached this session
  lost,        \* a match has been lost in this session
  sessions, published  \* counters for the bounds

board    == <<notice, mutexRrd, taken, copy>>
object   == <<pc, pub, sub, failedGet, mutexSig, cond, cmdres, cmd, hand, board>>
network  == <<requests, answers, news>>
history  == <<asked, first, result, seen, late, lost, sessions, published>>
vars     == <<object, network, history>>
----------------------------------------------------------------------------------
PCs == {"closed", "created", "crashed", "connecting", "open", "reading", "copied",
        "locking", "locked", "sent", "waiting", "failed"}
InCall == {"locking", "locked", "sent", "waiting", "failed"}
Ready  == pc \notin {"closed", "created", "crashed"}

Unmatched == [matched |-> FALSE, disconnect |-> FALSE]
NoNotice  == [version |-> 0, new |-> FALSE]
NoCopy    == [kind |-> NoCmd, version |-> 0, new |-> FALSE]
NoResult  == [request |-> 0, reply |-> 0]

publisher_connection  == ~pub.disconnect /\ pub.matched
subscriber_connection == ~sub.disconnect /\ sub.matched
DDSConnection == publisher_connection /\ subscriber_connection

CanGetRRDData == ~failedGet

(* No on_data_available is under way.                                        *)
NoCallback == hand = 0 /\ taken = {}

Init ==
  /\ pc = "closed" /\ pub = Unmatched /\ sub = Unmatched /\ failedGet = FALSE
  /\ mutexSig = "free" /\ cond = "none" /\ cmdres = 0 /\ cmd = NoCmd /\ hand = 0
  /\ notice = [k \in Notices |-> NoNotice]
  /\ mutexRrd = "free" /\ taken = {} /\ copy = NoCopy
  /\ requests = {} /\ answers = {} /\ news = {}
  /\ asked = <<>> /\ first = 1 /\ result = NoResult
  /\ seen = [k \in Notices |-> 0]
  /\ late = FALSE /\ lost = FALSE /\ sessions = 0 /\ published = 0
----------------------------------------------------------------------------------
(* The life of the object. *)

(* The constructor and init() up to the creation of the reader, with the     *)
(* listeners attached and not yet initialised.                               *)
Create ==
  /\ pc = "closed" /\ sessions < MaxSessions
  /\ pc' = "created" /\ sessions' = sessions + 1
  /\ pub' = Unmatched /\ sub' = Unmatched /\ failedGet' = FALSE
  /\ mutexSig' = "free" /\ cond' = "none" /\ cmdres' = 0 /\ cmd' = NoCmd
  /\ notice' = [k \in Notices |-> NoNotice]
  /\ mutexRrd' = "free" /\ copy' = NoCopy
  /\ seen' = [k \in Notices |-> 0]
  /\ first' = Len(asked) + 1 /\ late' = FALSE /\ lost' = FALSE
  /\ UNCHANGED <<hand, taken, network, asked, result, published>>

(* A participant, publisher, subscriber, topic, writer or reader could not   *)
(* be created: init() returns false and the caller deletes the object.       *)
InitFails ==
  /\ pc = "created" /\ pc' = "closed"
  /\ UNCHANGED <<pub, sub, failedGet, mutexSig, cond, cmdres, board, cmd, hand,
                 network, history>>

(* A match that Fast DDS reports between create_datawriter and the init() of *)
(* the listeners locks a mutex through an uninitialised pointer.             *)
MatchBeforeInit ==
  /\ pc = "created" /\ pc' = "crashed"
  /\ UNCHANGED <<pub, sub, failedGet, mutexSig, cond, cmdres, board, cmd, hand,
                 network, history>>

(* A variant that leaves the response slot as it finds it. *)
InitListenersNoReset ==
  /\ pc = "created" /\ pc' = "connecting"
  /\ cmdres' = MaxRequests + 1
  /\ UNCHANGED <<pub, sub, failedGet, mutexSig, cond, board, cmd, hand,
                 network, history>>

InitListeners ==
  /\ pc = "created" /\ pc' = "connecting"
  /\ cmdres' = 0
  /\ UNCHANGED <<pub, sub, failedGet, mutexSig, cond, board, cmd, hand,
                 network, history>>

(* DisconnectRC: the object is deleted.  Fast DDS lets a running callback    *)
(* end first; what had not been taken from the reader is gone.               *)
DisconnectRC ==
  /\ NoCallback
  /\ pc' = "closed" /\ cond' = "none" /\ cmd' = NoCmd
  /\ answers' = {} /\ news' = {}
  /\ result' = NoResult
  /\ UNCHANGED <<pub, sub, failedGet, mutexSig, cmdres, board, hand, requests,
                 asked, first, seen, late, lost, sessions, published>>

(* wait_for_connect: the predicate is DDSConnection(), also at the timeout.  *)
Connected ==
  /\ pc = "connecting" /\ DDSConnection
  /\ pc' = "open"
  /\ UNCHANGED <<pub, sub, failedGet, mutexSig, cond, cmdres, board, cmd, hand,
                 network, history>>

ConnectTimeout ==
  /\ pc = "connecting" /\ ~DDSConnection
  /\ DisconnectRC

(* The caller closes a connection on its own accord (RTMC_DisConnect, or an  *)
(* answer that it does not understand).                                      *)
CallerDisconnects ==
  /\ pc = "open"
  /\ DisconnectRC
----------------------------------------------------------------------------------
(* One request: SendProc_Common and DDS_Send. *)

SendProc_Common(c) ==
  /\ pc = "open" /\ DDSConnection
  /\ Len(asked) < MaxRequests
  /\ pc' = "locking" /\ cmd' = c
  /\ UNCHANGED <<pub, sub, failedGet, mutexSig, cond, cmdres, board, hand,
                 network, history>>

SendProcNotConnected ==
  /\ pc = "open" /\ ~DDSConnection
  /\ DisconnectRC

(* A variant that takes mutex_sig_ only for the wait. *)
LockLate ==
  /\ pc = "locking" /\ mutexSig = "free"
  /\ pc' = "locked"
  /\ UNCHANGED <<mutexSig, pub, sub, failedGet, cond, cmdres, board, cmd, hand,
                 network, history>>

Lock ==
  /\ pc = "locking" /\ mutexSig = "free"
  /\ pc' = "locked" /\ mutexSig' = "caller"
  /\ UNCHANGED <<pub, sub, failedGet, cond, cmdres, board, cmd, hand,
                 network, history>>

(* The request is on its way only if the writer still has its reader.        *)
Write ==
  /\ pc = "locked"
  /\ pc' = "sent"
  /\ asked' = Append(asked, cmd)
  /\ requests' = IF pub.matched THEN requests \union {Len(asked) + 1} ELSE requests
  /\ UNCHANGED <<pub, sub, failedGet, mutexSig, cond, cmdres, board, cmd, hand,
                 answers, news, first, result, seen, late, lost, sessions, published>>

(* A variant whose error path does not release mutex_sig_. *)
WriteFailsLocked ==
  /\ pc = "locked"
  /\ pc' = "failed"
  /\ UNCHANGED <<pub, sub, failedGet, mutexSig, cond, cmdres, board, cmd, hand,
                 network, history>>

WriteFails ==
  /\ pc = "locked"
  /\ pc' = "failed" /\ mutexSig' = "free"
  /\ UNCHANGED <<pub, sub, failedGet, cond, cmdres, board, cmd, hand,
                 network, history>>

TimedWait ==
  /\ pc = "sent"
  /\ pc' = "waiting" /\ cond' = "waiting" /\ mutexSig' = "free"
  /\ UNCHANGED <<pub, sub, failedGet, cmdres, board, cmd, hand, network, history>>

(* A variant that waits for ever. *)
NeverExpires == FALSE /\ UNCHANGED vars

Expire ==
  /\ cond = "waiting"
  /\ cond' = "expired"
  /\ UNCHANGED <<pc, pub, sub, failedGet, mutexSig, cmdres, board, cmd, hand,
                 network, history>>

(* ETIMEDOUT, or another error of the wait: the call fails whatever was       *)
(* stored since.  The variant lets the caller go on with the connection.     *)
TimedOutButOpen ==
  /\ pc = "waiting" /\ cond = "expired" /\ mutexSig = "free"
  /\ pc' = "open" /\ cond' = "none" /\ cmd' = NoCmd
  /\ UNCHANGED <<pub, sub, failedGet, mutexSig, cmdres, board, hand,
                 network, history>>

TimedOut ==
  /\ pc = "waiting" /\ cond = "expired" /\ mutexSig = "free"
  /\ pc' = "failed" /\ cond' = "none"
  /\ UNCHANGED <<pub, sub, failedGet, mutexSig, cmdres, board, cmd, hand,
                 network, history>>

Woken == \/ cond = "signalled"
         \/ SpuriousWakeups /\ cond = "waiting"

Check_cmdID(r) == r # 0 /\ asked[r] = cmd

(* The wait returned 0: the slot is read and its command ID compared, once.  *)
(* The variant does not compare.                                             *)
AcceptAny ==
  /\ pc = "waiting" /\ Woken /\ mutexSig = "free"
  /\ CanGetRRDData /\ cmdres # 0
  /\ pc' = "open" /\ cond' = "none" /\ cmd' = NoCmd
  /\ result' = [request |-> Len(asked), reply |-> cmdres]
  /\ UNCHANGED <<pub, sub, failedGet, mutexSig, cmdres, board, hand, network,
                 asked, first, seen, late, lost, sessions, published>>

Accept ==
  /\ pc = "waiting" /\ Woken /\ mutexSig = "free"
  /\ CanGetRRDData /\ Check_cmdID(cmdres)
  /\ pc' = "open" /\ cond' = "none" /\ cmd' = NoCmd
  /\ result' = [request |-> Len(asked), reply |-> cmdres]
  /\ UNCHANGED <<pub, sub, failedGet, mutexSig, cmdres, board, hand, network,
                 asked, first, seen, late, lost, sessions, published>>

Reject ==
  /\ pc = "waiting" /\ Woken /\ mutexSig = "free"
  /\ ~(CanGetRRDData /\ Check_cmdID(cmdres))
  /\ pc' = "failed" /\ cond' = "none"
  /\ UNCHANGED <<pub, sub, failedGet, mutexSig, cmdres, board, cmd, hand,
                 network, history>>

(* SendProc_Common deletes the object after TIMEOUT_ERR and UNDEFINED_ERR.   *)
SendProcFailed ==
  /\ pc = "failed"
  /\ DisconnectRC
----------------------------------------------------------------------------------
(* Reading a notice: Get_NewStatus and get_RRDData, which looks at the flag,  *)
(* copies the notice and clears the flag under one hold of mutex_rrd_.       *)

Get_NewStatus(k) ==
  /\ pc = "open" /\ CanGetRRDData
  /\ pc' = "reading" /\ copy' = [NoCopy EXCEPT !.kind = k]
  /\ UNCHANGED <<pub, sub, failedGet, mutexSig, cond, cmdres, cmd, hand,
                 notice, mutexRrd, taken, network, history>>

(* A variant that copies without the mutex.                                  *)
CopyUnlocked ==
  /\ pc = "reading"
  /\ pc' = "copied"
  /\ copy' = [kind |-> copy.kind, version |-> notice[copy.kind].version,
              new |-> notice[copy.kind].new]
  /\ UNCHANGED <<pub, sub, failedGet, mutexSig, cond, cmdres, cmd, hand,
                 notice, mutexRrd, taken, network, history>>

CopyNotice ==
  /\ pc = "reading" /\ mutexRrd = "free"
  /\ pc' = "copied" /\ mutexRrd' = "caller"
  /\ copy' = [kind |-> copy.kind, version |-> notice[copy.kind].version,
              new |-> notice[copy.kind].new]
  /\ UNCHANGED <<pub, sub, failedGet, mutexSig, cond, cmdres, cmd, hand,
                 notice, taken, network, history>>

(* The caller uses the copy if it was marked new.                            *)
ClearNotice ==
  /\ pc = "copied"
  /\ pc' = "open" /\ mutexRrd' = "free" /\ copy' = NoCopy
  /\ notice' = [notice EXCEPT ![copy.kind].new = FALSE]
  /\ seen' = IF copy.new THEN [seen EXCEPT ![copy.kind] = copy.version] ELSE seen
  /\ UNCHANGED <<pub, sub, failedGet, mutexSig, cond, cmdres, cmd, hand, taken, network,
                 asked, first, result, late, lost, sessions, published>>

GetNewStatusFails ==
  /\ pc = "open" /\ ~CanGetRRDData
  /\ DisconnectRC
----------------------------------------------------------------------------------
(* The listener thread. *)

(* A variant whose matching clears the disconnect flag. *)
MatchedAgain(listener, change) ==
  IF change = 1 THEN [matched |-> TRUE, disconnect |-> FALSE]
                ELSE [matched |-> FALSE, disconnect |-> TRUE]

(* The listener's flags after a change in the number of remote endpoints, of  *)
(* 1, -1, or (2 stands for it) any other, which counts as a loss: a loss is  *)
(* remembered for the life of the object.                                    *)
Changes == {1, -1, 2}

OnMatched(listener, change) ==
  IF change = 1 THEN [listener EXCEPT !.matched = TRUE]
                ELSE [matched |-> FALSE, disconnect |-> TRUE]

on_publication_matched(change) ==
  /\ Ready /\ (change = -1 => pub.matched)
  /\ pub' = OnMatched(pub, change)
  /\ lost' = (lost \/ change # 1)
  /\ UNCHANGED <<pc, sub, failedGet, mutexSig, cond, cmdres, board, cmd, hand, network,
                 asked, first, result, seen, late, sessions, published>>

on_subscription_matched(change) ==
  /\ Ready /\ (change = -1 => sub.matched)
  /\ sub' = OnMatched(sub, change)
  /\ lost' = (lost \/ change # 1)
  /\ UNCHANGED <<pc, pub, failedGet, mutexSig, cond, cmdres, board, cmd, hand, network,
                 asked, first, result, seen, late, sessions, published>>

(* on_data_available takes one sample.  An answer is then held until the     *)
(* listener gets mutex_sig_.                                                 *)
TakeAnswer(r) ==
  /\ Ready /\ NoCallback /\ r \in answers
  /\ hand' = r /\ answers' = answers \ {r}
  /\ UNCHANGED <<pc, pub, sub, failedGet, mutexSig, cond, cmdres, board, cmd,
                 requests, news, history>>

StoreAnswer ==
  /\ hand # 0 /\ mutexSig = "free"
  /\ cmdres' = hand /\ hand' = 0
  /\ cond' = IF cond = "waiting" THEN "signalled" ELSE cond
  /\ UNCHANGED <<pc, pub, sub, failedGet, mutexSig, board, cmd, network, history>>

TakeNotice(n) ==
  /\ Ready /\ NoCallback /\ n \in news
  /\ taken' = {n} /\ news' = news \ {n}
  /\ UNCHANGED <<pc, pub, sub, failedGet, mutexSig, cond, cmdres, cmd, hand,
                 notice, mutexRrd, copy, requests, answers, history>>

(* The notice is stored and then marked new, under one hold of mutex_rrd_.   *)
StoreNotice(k, v) ==
  /\ <<k, v>> \in taken /\ mutexRrd = "free"
  /\ mutexRrd' = "listener"
  /\ notice' = [notice EXCEPT ![k].version = v]
  /\ UNCHANGED <<pc, pub, sub, failedGet, mutexSig, cond, cmdres, cmd, hand,
                 taken, copy, network, history>>

MarkNotice(k, v) ==
  /\ <<k, v>> \in taken /\ mutexRrd = "listener"
  /\ mutexRrd' = "free" /\ taken' = {}
  /\ notice' = [notice EXCEPT ![k].new = TRUE]
  /\ UNCHANGED <<pc, pub, sub, failedGet, mutexSig, cond, cmdres, cmd, hand,
                 copy, network, history>>

(* take_next_sample reports anything but RETCODE_OK; the flag stays set.     *)
TakeFails ==
  /\ Ready /\ NoCallback /\ sub.matched /\ ~failedGet
  /\ failedGet' = TRUE
  /\ UNCHANGED <<pc, pub, sub, mutexSig, cond, cmdres, board, cmd, hand,
                 network, history>>
----------------------------------------------------------------------------------
(* The controller and the network (external). *)

(* The controller's writer reaches whichever reader is matched when it       *)
(* publishes: an answer to an earlier session's request reaches this one.    *)
RCAnswers(r) ==
  /\ r \in requests
  /\ requests' = requests \ {r}
  /\ IF Ready /\ sub.matched
       THEN /\ answers' = answers \union {r}
            /\ late' = (late \/ r < first)
       ELSE UNCHANGED <<answers, late>>
  /\ UNCHANGED <<object, news, asked, first, result, seen, lost, sessions, published>>

RCIgnores(r) ==
  /\ r \in requests
  /\ requests' = requests \ {r}
  /\ UNCHANGED <<object, answers, news, history>>

(* The reader keeps the last sample only: one not yet taken may be replaced, *)
(* or may never arrive.                                                      *)
AnswerLost(r) ==
  /\ r \in answers
  /\ answers' = answers \ {r}
  /\ UNCHANGED <<object, requests, news, history>>

NoticeLost(n) ==
  /\ n \in news
  /\ news' = news \ {n}
  /\ UNCHANGED <<object, requests, answers, history>>

RCNotifies(k) ==
  /\ Ready /\ sub.matched /\ published < MaxNotices
  /\ published' = published + 1
  /\ news' = news \union {<<k, published + 1>>}
  /\ UNCHANGED <<object, requests, answers, asked, first, result, seen, late, lost, sessions>>
----------------------------------------------------------------------------------
Life == \/ Create \/ InitFails \/ MatchBeforeInit \/ InitListeners
        \/ Connected \/ ConnectTimeout \/ CallerDisconnects

Calling == \/ \E c \in Cmds : SendProc_Common(c)
           \/ SendProcNotConnected \/ Lock \/ Write \/ WriteFails \/ TimedWait
           \/ Expire \/ TimedOut \/ Accept \/ Reject \/ SendProcFailed

Reading == \/ \E k \in Notices : Get_NewStatus(k)
           \/ CopyNotice \/ ClearNotice \/ GetNewStatusFails

Listener == \/ \E change \in Changes : on_publication_matched(change)
            \/ \E change \in Changes : on_subscription_matched(change)
            \/ \E r \in answers : TakeAnswer(r)
            \/ StoreAnswer
            \/ \E n \in news : TakeNotice(n)
            \/ \E n \in taken : StoreNotice(n[1], n[2]) \/ MarkNotice(n[1], n[2])
            \/ TakeFails

Controller == \/ \E r \in requests : RCAnswers(r) \/ RCIgnores(r)
              \/ \E r \in answers : AnswerLost(r)
              \/ \E n \in news : NoticeLost(n)
              \/ \E k \in Notices : RCNotifies(k)

Next == Life \/ Calling \/ Reading \/ Listener \/ Controller

Spec == Init /\ [][Next]_vars

(* The caller's thread and the listener's keep running, and the clock        *)
(* reaches the deadline of a wait.  Nothing is assumed of the controller or  *)
(* of the network, nor that a wait ever wakes up unsignalled.                *)
Fairness == /\ WF_vars(Lock) /\ WF_vars(Write \/ WriteFails) /\ WF_vars(TimedWait)
            /\ WF_vars(Expire) /\ WF_vars(TimedOut)
            /\ WF_vars(cond = "signalled" /\ (Accept \/ Reject))
            /\ WF_vars(SendProcFailed)
            /\ WF_vars(StoreAnswer)
            /\ WF_vars(\E n \in taken : StoreNotice(n[1], n[2]) \/ MarkNotice(n[1], n[2]))
            /\ WF_vars(CopyNotice) /\ WF_vars(ClearNotice)

FairSpec == Spec /\ Fairness
----------------------------------------------------------------------------------
(* Every variable has its type.                                              *)
TypeOK ==
  /\ pc \in PCs
  /\ pub \in [matched : BOOLEAN, disconnect : BOOLEAN]
  /\ sub \in [matched : BOOLEAN, disconnect : BOOLEAN]
  /\ failedGet \in BOOLEAN
  /\ mutexSig \in {"free", "caller"}
  /\ cond \in {"none", "waiting", "signalled", "expired"}
  /\ asked \in Seq(Cmds)
  /\ cmd \in IF pc \in InCall THEN Cmds ELSE {NoCmd}
  /\ cmdres \in 0 .. Len(asked)
  /\ hand \in 0 .. Len(asked)
  /\ requests \subseteq 1 .. Len(asked)
  /\ answers \subseteq 1 .. Len(asked)
  /\ news \subseteq Notices \X Nat
  /\ notice \in [Notices -> [version : Nat, new : BOOLEAN]]
  /\ mutexRrd \in {"free", "caller", "listener"}
  /\ taken \subseteq Notices \X Nat
  /\ copy \in [kind : Notices \cup {NoCmd}, version : Nat, new : BOOLEAN]
  /\ pc \in {"reading", "copied"} => copy.kind \in Notices
  /\ seen \in [Notices -> Nat]
  /\ first \in 1 .. Len(asked) + 1
  /\ result \in [request : 0 .. Len(asked), reply : 0 .. Len(asked)]
  /\ late \in BOOLEAN /\ lost \in BOOLEAN
  /\ sessions \in Nat /\ published \in Nat

(* Where mutex_sig_ is held and where somebody waits on sig_condition.       *)
LockInv ==
  /\ mutexSig = "caller" <=> pc \in {"locked", "sent"}
  /\ cond # "none" <=> pc = "waiting"
  /\ pc \in {"sent", "waiting"} => Len(asked) > 0 /\ asked[Len(asked)] = cmd
  /\ pc \in {"sent", "waiting"} => Len(asked) >= first
  /\ pc = "sent" => cmdres # Len(asked)
  /\ pc \in {"closed", "created", "crashed", "connecting"} => result = NoResult
  /\ result = NoResult \/ (result.request \in 1 .. Len(asked) /\ result.reply \in 1 .. Len(asked))

(* The wait for an answer is never entered, nor continued, with that answer  *)
(* already in the response slot: DDS_Send writes the request and waits under *)
(* one hold of mutex_sig_, so that the listener's signal cannot fall between *)
(* the two.                                                                  *)
NoLostWakeup == cond = "waiting" => cmdres # Len(asked)

(* Where an answer may be that nobody has consumed.                          *)
Outstanding == requests \union answers \union ({hand} \ {0})

(* Nothing has blurred which request an answer belongs to. *)
Clean == ~late /\ ~SpuriousWakeups

(* In a clean session the only answer that can still arrive is the one to the *)
(* last request, and a signalled caller finds exactly that answer in the slot.*)
FreshInv ==
  /\ requests \intersect answers = {}
  /\ hand \notin requests \union answers
  /\ pc \in {"closed", "created"} => answers = {} /\ hand = 0
  /\ Clean => \A r \in answers \union ({hand} \ {0}) : r >= first
  /\ Clean => \A r \in Outstanding :
                r >= first => /\ pc \in {"sent", "waiting", "failed", "closed"}
                              /\ pc # "closed" => r = Len(asked)
  /\ Clean /\ cond = "signalled" => /\ cmdres = Len(asked)
                                    /\ Len(asked) \notin Outstanding

(* A successful DDS_Send returns the answer to the request it wrote, provided *)
(* that no late answer to an earlier session's request has reached this       *)
(* session and that the wait does not wake up unsignalled: the command ID     *)
(* alone does not tell two requests apart, closing the object at every        *)
(* failure does.                                                              *)
FreshUnlessLate == Clean /\ result # NoResult => result.reply = result.request

(* A successful DDS_Send returns the answer to the request it wrote: the      *)
(* value of Get_CurrentJA is current, the effect of Exec_RTMC has happened.   *)
(* It does not hold when the wait wakes up unsignalled: DDS_Send waits once,  *)
(* without a predicate, and then accepts any slot with the right command ID.  *)
ReplyAnswersRequest == result # NoResult => result.reply = result.request

(* Once a match has been lost no request starts on this object, even if the   *)
(* controller is matched again: it may have been restarted in between.        *)
NoCallAfterLoss == [][lost /\ pc = "open" => pc' # "locking"]_vars

(* Who is in mutex_rrd_ and what it has in hand there. *)
NoticeInv ==
  /\ mutexRrd = "caller" <=> pc = "copied"
  /\ mutexRrd = "listener" => taken # {}
  /\ \A m, n \in taken : m = n
  /\ hand = 0 \/ taken = {}
  /\ pc \in {"closed", "created", "crashed"} => taken = {}
  /\ pc = "copied" => /\ copy.version = notice[copy.kind].version
                      /\ copy.new = notice[copy.kind].new

BeingStored(k) == <<k, notice[k].version>> \in taken

(* The last notice of a kind that was stored is marked new or has been handed *)
(* to the caller, unless the listener is still storing it: the caller may      *)
(* clear the mark of a notice that it has copied, and of no other, whichever  *)
(* way its steps and the listener's alternate.  (An unread notice may be       *)
(* overwritten by the next one.)                                              *)
LatestNoticeKept ==
  \A k \in Notices : ~notice[k].new /\ ~BeingStored(k) => notice[k].version = seen[k]

(* The object as the client API sees it. *)
phaseOf == IF pc \in {"closed", "created", "crashed", "connecting"} THEN "closed"
           ELSE IF pc \in {"open", "reading", "copied"} THEN "open" ELSE "called"
answeredOf == IF result = NoResult THEN NoCmd ELSE asked[result.reply]

RR == INSTANCE RequestReply WITH phase <- phaseOf, request <- cmd, answered <- answeredOf

(* The object implements the contract of RequestReply: one request at a time, *)
(* success only with an answer of the request's own command ID, and no call   *)
(* after a failed one without a new connection.                               *)
Contract == RR!Spec

(* Every call comes back, whatever the controller and the network do.         *)
CallReturns == pc \in InCall ~> pc \in {"open", "closed"}

(* The listener thread is not blocked for ever on mutex_sig_: every path out  *)
(* of DDS_Send releases it.                                                   *)
ListenerReleased == hand # 0 ~> hand = 0
=================================================================================
