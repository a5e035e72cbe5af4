---------------------------- MODULE RTMCCalls_proofs ----------------------------
(***************************************************************************)
(* RTMCClient between its application and its connection: it implements     *)
(* ClientCalls, uses the connection in the order of RequestReply, and       *)
(* brings every call nearer to its return with each step of its thread; for  *)
(* any threads, calls and controller answers.                                *)
(*                                                                          *)
(* The refinement needs to know that a call under way is still what it was   *)
(* checked to be (its arguments fit the cached formats and model, and         *)
(* RTMC_Connect has no session yet), and that no function runs any more once  *)
(* the lock has been kept.                                                   *)
(***************************************************************************)
EXTENDS RTMCTypes_proofs
--------------------------------------------------------------------------------
(* The client implements ClientCalls. *)

Sent(t) == pc[t] \in {"sending", "waiting", "answered"}

(* A call that has sent a request is of a kind that does, has no session of    *)
(* its own before RTMC_Connect returns, and still fits what it was checked     *)
(* against.                                                                   *)
Checked(c) ==
  /\ c.kind \in {"connect", "disconnect", "request", "status", "position"}
  /\ c.kind = "connect" => ~established
  /\ c.kind = "request" => App!Fits(c)

(* What the refinement needs: nothing runs once the lock has been kept, and a  *)
(* call under way is still what it was when it was checked.                   *)
CallInv ==
  /\ leaked => owner # NoThread /\ \A t \in Threads : ~Busy(t)
  /\ \A t \in Threads : Sent(t) => Checked(call[t])

(* The session if nobody is connecting. *)
Held == IF phase = "closed" THEN "none" ELSE IF established THEN "established" ELSE "half"

CallStep == App!Next \/ UNCHANGED App!callVars

ClientInv == FormatDiscipline /\ ClientTypes /\ CallInv

Results == (Errors \union {"CLIENT_SUCCESS"}) \ {"CLIENT_TIMEOUT_ERR"}

(* A thread inside a call: it is alone, and the session is the held one unless *)
(* it is connecting.                                                          *)
LEMMA Alone ==
  ASSUME ClientInv, NEW t \in Threads, Busy(t)
  PROVE  /\ owner = t /\ t # NoThread /\ ~leaked
         /\ \A u \in Threads \ {t} : ~Busy(u)
         /\ placeOf[t] = "inside"
         /\ sessionOf = IF Sent(t) /\ call[t].kind = "connect" THEN "none" ELSE Held
<1>1. owner = t /\ \A u \in Threads \ {t} : ~Busy(u)
  BY OwnerFacts DEF ClientInv
<1>2. t # NoThread
  BY ThreadsAssumption
<1>3. ~leaked
  BY DEF ClientInv, CallInv
<1>4. placeOf[t] = "inside"
  BY DEF placeOf
<1>5. Connecting <=> Sent(t) /\ call[t].kind = "connect"
  BY <1>1 DEF Connecting, Sent, Busy
<1>6. QED
  BY <1>1, <1>2, <1>3, <1>4, <1>5 DEF sessionOf, Held

(* Leaving a call. *)
LEMMA Left ==
  ASSUME ClientInv, NEW t \in Threads, Busy(t), NEW code, Leave(t, code),
         \/ owner' = NoThread /\ leaked' = leaked
         \/ owner' = owner /\ leaked'
  PROVE  CallInv' /\ App!Leaves(t, code) /\ sessionOf' = Held'
<1>1. pc' = [pc EXCEPT ![t] = "idle"] /\ pc \in [Threads -> Stages]
  BY DEF Leave, ClientInv, FormatDiscipline, LockDiscipline, LockTypes
<1>2. owner = t /\ t # NoThread /\ ~leaked /\ \A u \in Threads \ {t} : ~Busy(u)
  BY Alone
<1>3. /\ \A u \in Threads \ {t} : pc'[u] = pc[u] /\ ~Busy(u)'
      /\ pc'[t] = "idle" /\ ~Busy(t)'
  BY <1>1, <1>2 DEF Busy
<1>4. \A u \in Threads : ~Busy(u)'
  BY <1>3
<1>5. \A u \in Threads : ~Sent(u)'
  BY <1>4 DEF Sent, Busy
<1>6. CallInv'
  BY <1>2, <1>4, <1>5 DEF CallInv
<1>7. placeOf' = [placeOf EXCEPT ![t] = "outside"]
  BY <1>2, <1>3 DEF placeOf
<1>8. App!Leaves(t, code)
  BY <1>7 DEF App!Leaves, Leave
<1>9. ~Connecting'
  BY <1>5 DEF Connecting, Sent
<1>10. QED
  BY <1>6, <1>8, <1>9 DEF sessionOf, Held

(* The end of a call other than RTMC_DisConnect. *)
LEMMA Ended ==
  ASSUME ClientInv, NEW t \in Threads, Busy(t), NEW code, NEW drop, End(t, code, drop),
         call[t].kind # "disconnect"
  PROVE  /\ CallInv' /\ App!Leaves(t, code) /\ leaked' = leaked
         /\ sessionOf' = IF drop THEN "none" ELSE Held
<1>1. Return(t, code)
  BY DEF End, Finish
<1>2. CallInv' /\ App!Leaves(t, code) /\ sessionOf' = Held'
  BY <1>1, Left DEF Return
<1>3. Held' = IF drop THEN "none" ELSE Held
  BY DEF End, DisconnectRC, Channel!Hangup, KeepConnection, channel, Held
<1>4. QED
  BY <1>1, <1>2, <1>3 DEF Return

(* The end of RTMC_DisConnect. *)
LEMMA EndedDisConnect ==
  ASSUME ClientInv, NEW t \in Threads, Busy(t), NEW code, NEW drop, drop, End(t, code, drop),
         call[t].kind = "disconnect"
  PROVE  /\ CallInv' /\ sessionOf' = "none"
         /\ code = "CLIENT_SUCCESS" => App!Leaves(t, code) /\ leaked' = leaked
         /\ code # "CLIENT_SUCCESS" => App!Leaves(t, "CLIENT_ERR") /\ leaked'
<1>1. Held' = "none"
  BY DEF End, DisconnectRC, Channel!Hangup, Held
<1>2. CASE code = "CLIENT_SUCCESS"
  <2>1. Return(t, code)
    BY <1>2 DEF End, Finish, ReturnDisConnect
  <2>2. QED
    BY <1>1, <1>2, <2>1, Left DEF Return
<1>3. CASE code # "CLIENT_SUCCESS"
  <2>1. Leave(t, "CLIENT_ERR") /\ leaked' = TRUE /\ owner' = owner
    BY <1>3 DEF End, Finish, ReturnDisConnect
  <2>2. QED
    BY <1>1, <1>3, <2>1, Left
<1>4. QED
  BY <1>2, <1>3

(* What a call returns is a step of ClientCalls if it does what the code says. *)
LEMMA Returned ==
  ASSUME NEW t \in Threads, placeOf[t] = "inside", NEW code \in Results,
         App!Leaves(t, code), App!Does(call[t], code)
  PROVE  CallStep
BY DEF App!Return, App!Next, CallStep, Results

LEMMA Stutters ==
  ASSUME UNCHANGED <<placeOf, call, ret, sessionOf, cache, leaked>>
  PROVE  CallStep
BY DEF CallStep, App!callVars

(* A step of a call that goes on. *)
LEMMA Moved ==
  ASSUME ClientInv, NEW t \in Threads, Busy(t),
         NEW place \in {"entered", "sending", "waiting", "answered"},
         pc' = [pc EXCEPT ![t] = place], UNCHANGED <<owner, call, leaked>>,
         place # "entered" => Checked(call[t])'
  PROVE  /\ CallInv' /\ placeOf' = placeOf
         /\ sessionOf' = IF place # "entered" /\ call[t].kind = "connect" THEN "none" ELSE Held'
<1>1. pc \in [Threads -> Stages]
  BY DEF ClientInv, FormatDiscipline, LockDiscipline, LockTypes
<1>2. owner = t /\ t # NoThread /\ ~leaked /\ \A u \in Threads \ {t} : ~Busy(u)
  BY Alone
<1>3. /\ \A u \in Threads \ {t} : pc'[u] = pc[u] /\ ~Busy(u)'
      /\ pc'[t] = place /\ Busy(t)'
  BY <1>1, <1>2 DEF Busy
<1>4. \A u \in Threads : Sent(u)' => u = t
  BY <1>3 DEF Sent, Busy
<1>5. Sent(t)' <=> place # "entered"
  BY <1>3 DEF Sent
<1>6. CallInv'
  BY <1>2, <1>4, <1>5 DEF CallInv
<1>7. placeOf' = placeOf
  BY <1>2, <1>3 DEF placeOf
<1>8. Connecting' <=> place # "entered" /\ call[t].kind = "connect"
  BY <1>3, <1>4, <1>5 DEF Connecting, Sent
<1>9. QED
  BY <1>6, <1>7, <1>8 DEF sessionOf, Held

(* The next request of a call leaves the application's view as it is. *)
LEMMA Proceeded ==
  ASSUME ClientInv, NEW t \in Threads, Busy(t), NEW req, Proceed(t, req), Checked(call[t])',
         call[t].kind # "connect" => pc[t] \in {"entered", "answered"} /\ Held' = Held,
         call[t].kind = "connect" => Sent(t) \/ phase = "closed"
  PROVE  CallInv' /\ UNCHANGED <<placeOf, call, ret, sessionOf, leaked>>
<1>1. pc' = [pc EXCEPT ![t] = "sending"] /\ UNCHANGED <<owner, call, ret, leaked>>
  BY DEF Proceed
<1>2. /\ CallInv' /\ placeOf' = placeOf
      /\ sessionOf' = IF call[t].kind = "connect" THEN "none" ELSE Held'
  BY <1>1, Moved
<1>3. sessionOf = IF call[t].kind = "connect" THEN "none" ELSE Held
  BY Alone DEF Held
<1>4. QED
  BY <1>1, <1>2, <1>3
--------------------------------------------------------------------------------
(* A thread that waits for the lock, gets it, or gives up. *)

(* A thread outside the functions: nobody else notices.                       *)
LEMMA Outside ==
  ASSUME ClientInv, NEW t \in Threads, ~Busy(t), NEW place \in {"idle", "locking"},
         pc' = [pc EXCEPT ![t] = place], \A u \in Threads \ {t} : call'[u] = call[u],
         UNCHANGED <<owner, leaked, cache, phase, established>>
  PROVE  /\ CallInv' /\ sessionOf' = sessionOf
         /\ placeOf' = [placeOf EXCEPT ![t] = IF place = "idle" THEN "outside" ELSE "queued"]
<1>1. pc \in [Threads -> Stages]
  BY DEF ClientInv, FormatDiscipline, LockDiscipline, LockTypes
<1>2. /\ \A u \in Threads \ {t} : pc'[u] = pc[u]
      /\ pc'[t] = place
  BY <1>1
<1>3. \A u \in Threads : (Busy(u)' <=> Busy(u)) /\ (Sent(u)' <=> Sent(u))
  BY <1>2 DEF Busy, Sent
<1>4. \A u \in Threads : Sent(u) => u # t /\ call'[u] = call[u]
  BY DEF Sent, Busy
<1>5. \A c : Checked(c)' <=> Checked(c)
  BY DEF Checked, App!Fits
<1>6. CallInv'
  BY <1>3, <1>4, <1>5 DEF ClientInv, CallInv
<1>7. placeOf' = [placeOf EXCEPT ![t] = IF place = "idle" THEN "outside" ELSE "queued"]
  BY <1>2, <1>3 DEF placeOf
<1>8. Connecting' <=> Connecting
  BY <1>3, <1>4 DEF Connecting, Sent
<1>9. QED
  BY <1>6, <1>7, <1>8 DEF sessionOf

LEMMA EntersMap ==
  ASSUME ClientInv, NEW t \in Threads, Acquire(t) \/ LockTimeout(t) \/ \E c \in Calls : Start(t, c)
  PROVE  CallInv' /\ CallStep
<1>1. pc \in [Threads -> Stages] /\ owner \in Threads \union {NoThread}
  BY DEF ClientInv, FormatDiscipline, LockDiscipline, LockTypes
<1>2. UNCHANGED <<leaked, cache, phase, established>>
  BY DEF Acquire, LockTimeout, Start, channel
<1>3. CASE Acquire(t)
  <2>1. owner = NoThread /\ pc[t] = "locking" /\ UNCHANGED <<call, ret>>
    BY <1>3 DEF Acquire
  <2>2. ~leaked /\ \A u \in Threads : ~Busy(u)
    BY <2>1, ThreadsAssumption DEF ClientInv, CallInv, FormatDiscipline, LockDiscipline, ObjectAlive
  <2>3. /\ \A u \in Threads \ {t} : pc'[u] = pc[u] /\ ~Busy(u)'
        /\ pc'[t] = "entered" /\ Busy(t)'
    BY <1>1, <1>3, <2>2 DEF Acquire, Busy
  <2>4. \A u \in Threads : ~Sent(u) /\ ~Sent(u)'
    BY <2>2, <2>3 DEF Sent, Busy
  <2>5. CallInv'
    BY <1>2, <2>2, <2>4 DEF CallInv
  <2>6. sessionOf' = sessionOf
    BY <1>2, <2>4 DEF sessionOf, Connecting, Sent
  <2>7. placeOf[t] = "queued" /\ placeOf' = [placeOf EXCEPT ![t] = "inside"]
    BY <2>1, <2>2, <2>3 DEF placeOf
  <2>8. App!Free
    BY <2>2 DEF App!Free, placeOf
  <2>9. App!Enter(t)
    BY <1>2, <2>1, <2>6, <2>7, <2>8 DEF App!Enter, App!Nothing
  <2>10. QED
    BY <2>5, <2>9 DEF CallStep, App!Next
<1>4. CASE LockTimeout(t)
  <2>1. /\ owner # NoThread /\ owner' = owner /\ pc[t] = "locking"
        /\ pc' = [pc EXCEPT ![t] = "idle"] /\ call' = [call EXCEPT ![t] = NoCall]
        /\ ret' = [ret EXCEPT ![t] = "CLIENT_TIMEOUT_ERR"]
    BY <1>4 DEF LockTimeout
  <2>2. ~Busy(t) /\ \A u \in Threads \ {t} : call'[u] = call[u]
    BY <2>1 DEF Busy, ClientInv, FormatDiscipline, FormatTypes
  <2>3. /\ CallInv' /\ sessionOf' = sessionOf
        /\ placeOf' = [placeOf EXCEPT ![t] = "outside"]
    BY <1>2, <2>1, <2>2, Outside
  <2>4. ~App!Free
    <3>1. leaked \/ Busy(owner)
      BY <2>1 DEF ClientInv, FormatDiscipline, LockDiscipline, LockReturned
    <3>2. QED
      BY <1>1, <2>1, <3>1 DEF App!Free, placeOf
  <2>5. placeOf[t] = "queued"
    BY <2>1, <2>2 DEF placeOf
  <2>6. App!GiveUp(t)
    BY <1>2, <2>1, <2>3, <2>4, <2>5 DEF App!GiveUp, App!Leaves, App!Nothing
  <2>7. QED
    BY <2>3, <2>6 DEF CallStep, App!Next
<1>5. ASSUME NEW c \in Calls, Start(t, c) PROVE CallInv' /\ CallStep
  <2>1. /\ owner' = owner /\ pc[t] = "idle"
        /\ pc' = [pc EXCEPT ![t] = "locking"] /\ call' = [call EXCEPT ![t] = c]
        /\ ret' = [ret EXCEPT ![t] = "none"]
    BY <1>5 DEF Start
  <2>2. ~Busy(t) /\ \A u \in Threads \ {t} : call'[u] = call[u]
    BY <2>1 DEF Busy, ClientInv, FormatDiscipline, FormatTypes
  <2>3. /\ CallInv' /\ sessionOf' = sessionOf
        /\ placeOf' = [placeOf EXCEPT ![t] = "queued"]
    BY <1>2, <2>1, <2>2, Outside
  <2>4. placeOf[t] = "outside"
    BY <2>1, <2>2 DEF placeOf
  <2>5. App!Start(t, c)
    BY <1>2, <2>1, <2>3, <2>4 DEF App!Start, App!Nothing
  <2>6. QED
    BY <2>3, <2>5 DEF CallStep, App!Next
<1>6. QED
  BY <1>3, <1>4, <1>5
--------------------------------------------------------------------------------
(* The effects of the codes. *)

LEMMA KnownResults ==
  {"CLIENT_SUCCESS", "CLIENT_ERR", "CLIENT_COM_ERR", "CLIENT_UNDEF_ERR", "CLIENT_ARG_ERR",
   "CLIENT_RBCHK_ERR"} \subseteq Results
BY KnownCodes DEF Returns, Results

(* A serious error of a call that has sent, or was about to send, a request.  *)
LEMMA Dies ==
  ASSUME ClientInv, NEW t \in Threads, Busy(t), Checked(call[t]), call[t].kind = "connect" => Sent(t),
         phase # "closed", NEW code \in {"CLIENT_COM_ERR", "CLIENT_UNDEF_ERR"},
         End(t, code, TRUE), cache' = cache
  PROVE  CallInv' /\ CallStep
<1>1. placeOf[t] = "inside" /\ sessionOf = IF call[t].kind = "connect" THEN "none" ELSE Held
  BY Alone
<1>2. Held # "none" /\ code \in Results
  BY KnownResults DEF Held
<1>3. CASE call[t].kind = "disconnect"
  <2>1. CallInv' /\ sessionOf' = "none" /\ App!Leaves(t, "CLIENT_ERR") /\ leaked'
    BY <1>3, EndedDisConnect
  <2>2. leaked' = TRUE
    BY <1>3 DEF End, Finish, ReturnDisConnect
  <2>3. App!Does(call[t], "CLIENT_ERR")
    BY <1>1, <1>2, <1>3, <2>1, <2>2 DEF App!Does, App!Disconnects
  <2>4. QED
    BY <1>1, <2>1, <2>3, Returned, KnownResults
<1>4. CASE call[t].kind # "disconnect"
  <2>1. CallInv' /\ App!Leaves(t, code) /\ leaked' = leaked /\ sessionOf' = "none"
    BY <1>4, Ended
  <2>2. App!Loses
    BY <2>1 DEF App!Loses
  <2>3. App!Does(call[t], code)
    <3>1. CASE call[t].kind = "connect"
      BY <1>1, <2>2, <3>1 DEF App!Does, App!Connects, App!Nothing, App!Loses
    <3>2. CASE call[t].kind = "request"
      BY <2>2, <3>2 DEF App!Does, App!Requests, App!Serious
    <3>3. CASE call[t].kind \in {"status", "position"}
      BY <2>2, <3>3 DEF App!Does, App!Consults, App!Serious
    <3>4. QED
      BY <1>4, <3>1, <3>2, <3>3 DEF Checked
  <2>4. QED
    BY <1>1, <1>2, <2>1, <2>3, Returned
<1>5. QED
  BY <1>3, <1>4

(* A call that ends and leaves the session as it was. *)
LEMMA Stays ==
  ASSUME ClientInv, NEW t \in Threads, Busy(t), call[t].kind # "disconnect",
         call[t].kind = "connect" => ~Sent(t),
         NEW code, End(t, code, FALSE), cache' = cache
  PROVE  CallInv' /\ App!Leaves(t, code) /\ App!Nothing /\ placeOf[t] = "inside" /\ sessionOf = Held
BY Alone, Ended DEF App!Nothing

(* Get_RCStatus and Get_CurrentJA after what they did first. *)
LEMMA ReadMaps ==
  ASSUME ClientInv, NEW t \in Threads, Busy(t), pc[t] \in {"entered", "answered"},
         call[t].kind \in {"status", "position"}, phase = "open", Read(t), Same
  PROVE  CallInv' /\ CallStep
<1>1. placeOf[t] = "inside" /\ sessionOf = Held /\ Held # "none" /\ cache' = cache
  BY Alone DEF Held, Same
<1>2. ASSUME End(t, "CLIENT_SUCCESS", FALSE) PROVE CallInv' /\ CallStep
  <2>1. CallInv' /\ App!Leaves(t, "CLIENT_SUCCESS") /\ App!Nothing
    BY <1>1, <1>2, Stays
  <2>2. App!Does(call[t], "CLIENT_SUCCESS")
    BY <1>1, <2>1 DEF App!Does, App!Consults
  <2>3. QED
    BY <1>1, <2>1, <2>2, Returned, KnownResults
<1>3. ASSUME End(t, "CLIENT_UNDEF_ERR", TRUE) PROVE CallInv' /\ CallStep
  BY <1>1, <1>3, Dies DEF Checked
<1>4. CASE AskPosition(t)
  <2>1. Proceed(t, Get_CurrentJA) /\ KeepConnection
    BY <1>4 DEF AskPosition
  <2>2. Held' = Held
    BY <2>1 DEF KeepConnection, channel, Held
  <2>3. Checked(call[t])'
    BY <2>1 DEF Proceed, Checked
  <2>4. QED
    BY <1>1, <2>1, <2>2, <2>3, Proceeded, Stutters
<1>5. QED
  BY <1>2, <1>3, <1>4 DEF Read, NoticePosition
--------------------------------------------------------------------------------
(* The first part of a call. *)

LEMMA ConfigureMaps ==
  ASSUME ClientInv, NEW t \in Threads, Configure(t)
  PROVE  CallInv' /\ CallStep
<1>1. Busy(t) /\ call[t].kind = "config" /\ cache' = cache
  BY DEF Configure, Same, Busy
<1>2. PICK code \in IF phase = "closed" THEN call[t].outcomes
                    ELSE {"CLIENT_ERR"} \union (call[t].outcomes \intersect {"CLIENT_ARG_ERR"}) :
               End(t, code, FALSE)
  BY DEF Configure
<1>3. call[t].outcomes \subseteq {"CLIENT_SUCCESS", "CLIENT_ARG_ERR", "CLIENT_UNDEF_ERR"}
  <2>1. call[t] \in Calls \union {NoCall}
    BY DEF ClientInv, FormatDiscipline, FormatTypes
  <2>2. NoCall.outcomes = {}
    BY DEF NoCall, Configuration, Request
  <2>3. QED
    BY <1>1, <2>1, <2>2, CallsAssumption
<1>4. /\ CallInv' /\ App!Leaves(t, code) /\ App!Nothing
      /\ placeOf[t] = "inside" /\ sessionOf = Held
  BY <1>1, <1>2, Stays
<1>5. code \in Results
  BY <1>2, <1>3, KnownResults
<1>6. App!Configures(code)
  BY <1>2, <1>3, <1>4 DEF App!Configures, App!Serious, Held
<1>7. QED
  BY <1>1, <1>4, <1>5, <1>6, Returned DEF App!Does

LEMMA ConnectMaps ==
  ASSUME ClientInv, NEW t \in Threads,
         ConnectRefused(t) \/ ConnectCleans(t) \/ ConnectFails(t) \/ Connected(t)
  PROVE  CallInv' /\ CallStep
<1>1. Busy(t) /\ pc[t] = "entered" /\ ~Sent(t) /\ call[t].kind = "connect" /\ cache' = cache
  BY DEF ConnectRefused, ConnectCleans, ConnectFails, Connected, Same, Busy, Sent
<1>2. placeOf[t] = "inside" /\ sessionOf = Held
  BY <1>1, Alone
<1>3. CASE ConnectRefused(t)
  <2>1. End(t, "CLIENT_COM_ERR", FALSE) /\ phase = "open"
    BY <1>3 DEF ConnectRefused
  <2>2. CallInv' /\ App!Leaves(t, "CLIENT_COM_ERR") /\ App!Nothing
    BY <1>1, <2>1, Stays
  <2>3. App!Does(call[t], "CLIENT_COM_ERR")
    BY <1>1, <1>2, <2>1, <2>2 DEF App!Does, App!Connects, Held
  <2>4. QED
    BY <1>2, <2>2, <2>3, Returned, KnownResults
<1>4. CASE ConnectCleans(t)
  <2>1. UNCHANGED <<owner, pc, call, ret, leaked>> /\ phase = "open" /\ phase' = "closed"
    BY <1>4 DEF ConnectCleans, threads, DisconnectRC, Channel!Hangup
  <2>2. pc' = [pc EXCEPT ![t] = "entered"]
    BY <1>1, <2>1 DEF ClientInv, FormatDiscipline, LockDiscipline, LockTypes
  <2>3. CallInv' /\ placeOf' = placeOf /\ sessionOf' = "none"
    BY <1>1, <2>1, <2>2, Moved DEF Held
  <2>4. App!Clean(t)
    BY <1>1, <1>2, <2>1, <2>3 DEF App!Clean, App!Loses, Held
  <2>5. QED
    BY <2>3, <2>4 DEF CallStep, App!Next
<1>5. CASE ConnectFails(t)
  <2>1. PICK code \in {"CLIENT_COM_ERR", "CLIENT_UNDEF_ERR", "CLIENT_ARG_ERR"} : End(t, code, FALSE)
    BY <1>5 DEF ConnectFails
  <2>2. CallInv' /\ App!Leaves(t, code) /\ App!Nothing
    BY <1>1, <2>1, Stays
  <2>3. App!Does(call[t], code)
    BY <1>1, <1>2, <1>5, <2>1, <2>2 DEF App!Does, App!Connects, Held, ConnectFails
  <2>4. QED
    BY <1>2, <2>1, <2>2, <2>3, Returned, KnownResults
<1>6. CASE Connected(t)
  <2>1. Proceed(t, call[t]) /\ phase = "closed" /\ established' = established
    BY <1>6 DEF Connected
  <2>2. ~established
    BY <2>1 DEF ClientInv, FormatDiscipline, FormatInv
  <2>3. Checked(call[t])'
    BY <1>1, <2>1, <2>2 DEF Checked, Proceed
  <2>4. CallInv' /\ UNCHANGED <<placeOf, call, ret, sessionOf, leaked>>
    BY <1>1, <2>1, <2>3, Proceeded
  <2>5. QED
    BY <1>1, <2>4, Stutters
<1>7. QED
  BY <1>3, <1>4, <1>5, <1>6

(* What a function that sends one request checks itself. *)
LEMMA RefusalMeans ==
  ASSUME NEW c
  PROVE  /\ Refusal(c) \in {"none", "CLIENT_COM_ERR", "CLIENT_ARG_ERR", "CLIENT_RBCHK_ERR"}
         /\ Refusal(c) = "CLIENT_COM_ERR" <=> phase = "closed"
         /\ Refusal(c) = "CLIENT_ARG_ERR" => ~App!Fits(c)
         /\ Refusal(c) = "none" => App!Fits(c)
BY DEF Refusal, App!Fits

LEMMA RefuseMaps ==
  ASSUME ClientInv, NEW t \in Threads, Refuse(t)
  PROVE  CallInv' /\ CallStep
<1>1. Busy(t) /\ ~Sent(t) /\ cache' = cache /\ Refusal(call[t]) # "none"
  BY DEF Refuse, Same, Busy, Sent
<1>2. placeOf[t] = "inside" /\ sessionOf = Held
  BY <1>1, Alone
<1>3. CASE call[t].kind = "disconnect"
  <2>1. Return(t, "CLIENT_COM_ERR") /\ KeepConnection
    BY <1>3 DEF Refuse
  <2>2. phase = "closed"
    BY <1>1, <1>3, DisconnectRefusal
       DEF ClientInv, ClientTypes, StateTypes, FormatDiscipline, FormatTypes
  <2>3. CallInv' /\ App!Leaves(t, "CLIENT_COM_ERR") /\ sessionOf' = Held'
    BY <1>1, <2>1, Left DEF Return
  <2>4. App!Nothing /\ sessionOf = "none"
    BY <1>1, <1>2, <2>1, <2>2, <2>3 DEF App!Nothing, Return, KeepConnection, channel, Held
  <2>5. App!Does(call[t], "CLIENT_COM_ERR")
    BY <1>3, <2>4 DEF App!Does, App!Disconnects
  <2>6. QED
    BY <1>2, <2>3, <2>5, Returned, KnownResults
<1>4. CASE call[t].kind = "request"
  <2>1. PICK code : code = Refusal(call[t])
    OBVIOUS
  <2>2. End(t, code, FALSE)
    BY <1>4, <2>1 DEF Refuse
  <2>3. CallInv' /\ App!Leaves(t, code) /\ App!Nothing
    BY <1>1, <1>4, <2>2, Stays
  <2>4. /\ code \in {"CLIENT_COM_ERR", "CLIENT_ARG_ERR", "CLIENT_RBCHK_ERR"}
        /\ code = "CLIENT_COM_ERR" <=> phase = "closed"
        /\ code = "CLIENT_ARG_ERR" => ~App!Fits(call[t])
    BY <1>1, <2>1, RefusalMeans
  <2>5. App!Requests(call[t], code)
    <3>1. CASE code = "CLIENT_COM_ERR"
      BY <1>2, <2>3, <2>4, <3>1 DEF App!Requests, App!Serious, App!Loses, App!Nothing, Held
    <3>2. CASE code # "CLIENT_COM_ERR"
      BY <1>2, <2>3, <2>4, <3>2 DEF App!Requests, App!Refusal, App!Serious, Held
    <3>3. QED
      BY <3>1, <3>2
  <2>6. App!Does(call[t], code)
    BY <1>4, <2>5 DEF App!Does
  <2>7. QED
    BY <1>2, <2>3, <2>4, <2>6, Returned, KnownResults
<1>5. QED
  BY <1>3, <1>4 DEF Refuse

(* RBCheck adopts its model; nothing else is seen of a call that goes on.     *)
LEMMA PrepareMaps ==
  ASSUME ClientInv, NEW t \in Threads, Prepare(t)
  PROVE  CallInv' /\ CallStep
<1>1. /\ Busy(t) /\ pc[t] = "entered" /\ call[t].kind \in {"request", "disconnect"}
      /\ Refusal(call[t]) = "none" /\ Proceed(t, call[t]) /\ KeepConnection
      /\ cache' = IF call[t].model # NoModel THEN [cache EXCEPT !.model = call[t].model] ELSE cache
  BY DEF Prepare, Busy
<1>2. App!Fits(call[t]) /\ phase # "closed"
  BY <1>1, RefusalMeans
<1>3. placeOf[t] = "inside" /\ sessionOf = Held /\ Held' = Held /\ Held # "none" /\ call' = call
  BY <1>1, <1>2, Alone DEF KeepConnection, channel, Held, Proceed
<1>4. call[t] \in Calls
  <2>1. NoCall.kind = "config"
    BY DEF NoCall, Configuration, Request
  <2>2. QED
    BY <1>1, <2>1 DEF ClientInv, FormatDiscipline, FormatTypes
<1>5. CASE call[t].model = NoModel
  <2>1. cache' = cache
    BY <1>1, <1>5
  <2>2. Checked(call[t])'
    BY <1>1, <1>2, <1>3, <2>1 DEF Checked, App!Fits
  <2>3. QED
    BY <1>1, <1>3, <2>1, <2>2, Proceeded, Stutters
<1>6. CASE call[t].model # NoModel
  <2>1. call[t].kind = "request" /\ call[t].loads # TRUE
    <3>1. RTMC_DisConnect.model = NoModel
      BY DEF RTMC_DisConnect, Request
    <3>2. QED
      BY <1>1, <1>4, <1>6, <3>1, CallsAssumption
  <2>2. cache' = [cache EXCEPT !.model = call[t].model] /\ CacheShape
    BY <1>1, <1>6 DEF ClientInv, FormatDiscipline, FormatTypes
  <2>3. cache'.send = cache.send /\ cache'.recv = cache.recv /\ cache'.model = call[t].model
    BY <2>2 DEF CacheShape
  <2>4. Checked(call[t])'
    BY <1>2, <1>3, <2>1, <2>3 DEF Checked, App!Fits
  <2>5. CallInv' /\ UNCHANGED <<placeOf, call, ret, sessionOf, leaked>>
    BY <1>1, <1>3, <2>1, <2>4, Proceeded
  <2>6. App!Adopt(t)
    BY <1>2, <1>3, <1>6, <2>1, <2>3, <2>5 DEF App!Adopt, App!Fits
  <2>7. QED
    BY <2>5, <2>6 DEF CallStep, App!Next
<1>7. QED
  BY <1>5, <1>6

LEMMA BeginMaps ==
  ASSUME ClientInv, NEW t \in Threads, Begin(t)
  PROVE  CallInv' /\ CallStep
<1>1. CASE ReadRefused(t)
  <2>1. Busy(t) /\ ~Sent(t) /\ call[t].kind \in {"status", "position"} /\ cache' = cache
    BY <1>1 DEF ReadRefused, Same, Busy, Sent
  <2>2. CASE phase = "closed"
    <3>1. End(t, "CLIENT_COM_ERR", FALSE)
      BY <1>1, <2>2 DEF ReadRefused
    <3>2. /\ CallInv' /\ App!Leaves(t, "CLIENT_COM_ERR") /\ App!Nothing
          /\ placeOf[t] = "inside" /\ sessionOf = "none"
      BY <2>1, <2>2, <3>1, Stays DEF Held
    <3>3. App!Does(call[t], "CLIENT_COM_ERR")
      BY <2>1, <3>2 DEF App!Does, App!Consults, App!Serious, App!Loses, App!Nothing
    <3>4. QED
      BY <3>2, <3>3, Returned, KnownResults
  <2>3. CASE phase # "closed"
    <3>1. PICK code \in {"CLIENT_COM_ERR", "CLIENT_UNDEF_ERR"} : End(t, code, TRUE)
      BY <1>1, <2>3 DEF ReadRefused
    <3>2. QED
      BY <2>1, <2>3, <3>1, Dies DEF Checked
  <2>4. QED
    BY <2>2, <2>3
<1>2. CASE ReadErrorMessage(t)
  <2>1. /\ Busy(t) /\ pc[t] = "entered" /\ call[t].kind \in {"status", "position"} /\ cache' = cache
        /\ Proceed(t, ErrorMessage) /\ KeepConnection
    BY <1>2 DEF ReadErrorMessage, Same, Busy
  <2>2. Held' = Held /\ Checked(call[t])'
    BY <2>1 DEF KeepConnection, channel, Held, Proceed, Checked
  <2>3. QED
    BY <2>1, <2>2, Proceeded, Stutters
<1>3. CASE ReadNotice(t)
  BY <1>3, ReadMaps DEF ReadNotice, Busy
<1>4. QED
  BY <1>1, <1>2, <1>3, ConfigureMaps, ConnectMaps, RefuseMaps, PrepareMaps DEF Begin
--------------------------------------------------------------------------------
(* Sending, waiting and judging. *)

(* A call that has sent a request was checked, and has a connection.          *)
LEMMA Underway ==
  ASSUME ClientInv, NEW t \in Threads, Sent(t)
  PROVE  Busy(t) /\ Checked(call[t]) /\ phase # "closed" /\ Held # "none"
BY DEF ClientInv, FormatDiscipline, LockDiscipline, ObjectAlive, CallInv, Sent, Busy, Held

LEMMA AwaitMaps ==
  ASSUME ClientInv, NEW t \in Threads, Await(t)
  PROVE  CallInv' /\ CallStep
<1>1. Sent(t) /\ cache' = cache
  BY DEF Await, SendNotConnected, Send, SendFails, SendSucceeds, Sent, Same
<1>2. Busy(t) /\ Checked(call[t]) /\ phase # "closed"
  BY <1>1, Underway
<1>3. CASE SendNotConnected(t) \/ SendFails(t)
  <2>1. PICK code \in {"CLIENT_COM_ERR", "CLIENT_UNDEF_ERR"} : End(t, code, TRUE)
    BY <1>3 DEF SendNotConnected, SendFails
  <2>2. QED
    BY <1>1, <1>2, <2>1, Dies
<1>4. CASE Send(t) \/ SendSucceeds(t)
  <2>1. PICK place \in {"waiting", "answered"} : pc' = [pc EXCEPT ![t] = place]
    BY <1>4 DEF Send, SendSucceeds
  <2>2. /\ UNCHANGED <<owner, call, ret, leaked, established>>
        /\ phase' \in {"open", "called"}
    BY <1>4 DEF Send, SendSucceeds, Channel!Call, Channel!Succeed
  <2>3. Held' = Held
    BY <1>2, <2>2 DEF Held
  <2>4. Checked(call[t])'
    BY <1>1, <1>2, <2>2 DEF Checked, App!Fits
  <2>5. /\ CallInv' /\ placeOf' = placeOf
        /\ sessionOf' = IF call[t].kind = "connect" THEN "none" ELSE Held'
    BY <1>2, <2>1, <2>2, <2>4, Moved
  <2>6. sessionOf = IF call[t].kind = "connect" THEN "none" ELSE Held
    BY <1>1, <1>2, Alone
  <2>7. QED
    BY <1>1, <2>2, <2>3, <2>5, <2>6, Stutters
<1>5. QED
  BY <1>3, <1>4 DEF Await

(* What the answer to a request may mean. *)
LEMMA Meanings ==
  ASSUME NEW t, Answer(t) # "CLIENT_SUCCESS"
  PROVE  /\ Answer(t) \in Results /\ Answer(t) \notin {"CLIENT_COM_ERR", "CLIENT_ARG_ERR"}
         /\ Answer(t) # "CLIENT_UNDEF_ERR" => App!Refusal(Answer(t))
<1>1. Answer(t) \in AnswerCodes
  BY OutcomeCodes DEF Answer
<1>2. QED
  BY <1>1 DEF AnswerCodes, Returns, Results, App!Refusal, App!Serious

(* An answer that is no success. *)
LEMMA FailMaps ==
  ASSUME ClientInv, NEW t \in Threads, Fail(t)
  PROVE  CallInv' /\ CallStep
<1>1. /\ Sent(t) /\ cache' = cache /\ Answer(t) # "CLIENT_SUCCESS"
      /\ End(t, Answer(t), Drops(t, Answer(t)))
  BY DEF Fail, Sent, Same
<1>2. Busy(t) /\ Checked(call[t]) /\ phase # "closed" /\ Held # "none"
  BY <1>1, Underway
<1>3. placeOf[t] = "inside" /\ sessionOf = IF call[t].kind = "connect" THEN "none" ELSE Held
  BY <1>1, <1>2, Alone
<1>4. PICK code \in Results, drop \in BOOLEAN : code = Answer(t) /\ drop = Drops(t, Answer(t))
  BY <1>1, Meanings DEF Drops
<1>5. /\ End(t, code, drop) /\ code # "CLIENT_SUCCESS"
      /\ code \in Results /\ code \notin {"CLIENT_COM_ERR", "CLIENT_ARG_ERR"}
      /\ code # "CLIENT_UNDEF_ERR" => App!Refusal(code)
      /\ code = "CLIENT_UNDEF_ERR" => drop
      /\ call[t].kind = "disconnect" => drop
      /\ call[t].kind = "request" /\ drop => code = "CLIENT_UNDEF_ERR"
  BY <1>1, <1>4, Meanings DEF Drops
<1>6. CASE call[t].kind = "disconnect"
  <2>1. CallInv' /\ sessionOf' = "none" /\ App!Leaves(t, "CLIENT_ERR") /\ leaked'
    BY <1>2, <1>5, <1>6, EndedDisConnect
  <2>2. leaked' = TRUE
    BY <1>5, <1>6 DEF End, Finish, ReturnDisConnect
  <2>3. App!Does(call[t], "CLIENT_ERR")
    BY <1>1, <1>2, <1>3, <1>6, <2>1, <2>2 DEF App!Does, App!Disconnects
  <2>4. QED
    BY <1>3, <2>1, <2>3, Returned, KnownResults
<1>7. CASE call[t].kind # "disconnect"
  <2>1. /\ CallInv' /\ App!Leaves(t, code) /\ leaked' = leaked
        /\ sessionOf' = IF drop THEN "none" ELSE Held
    BY <1>2, <1>5, <1>7, Ended
  <2>2. App!Does(call[t], code)
    <3>1. CASE call[t].kind = "connect"
      <4>1. Held = "half"
        BY <1>2, <3>1 DEF Checked, Held
      <4>2. App!Connects(code)
        <5>1. CASE drop
          BY <1>1, <1>3, <1>5, <2>1, <3>1, <5>1 DEF App!Connects, App!Nothing
        <5>2. CASE ~drop
          BY <1>1, <1>3, <1>5, <2>1, <3>1, <4>1, <5>2 DEF App!Connects
        <5>3. QED
          BY <5>1, <5>2
      <4>3. QED
        BY <3>1, <4>2 DEF App!Does
    <3>2. CASE call[t].kind = "request"
      <4>1. CASE code = "CLIENT_UNDEF_ERR"
        BY <1>1, <1>5, <2>1, <3>2, <4>1 DEF App!Does, App!Requests, App!Serious, App!Loses
      <4>2. CASE code # "CLIENT_UNDEF_ERR"
        BY <1>1, <1>2, <1>3, <1>5, <2>1, <3>2, <4>2 DEF App!Does, App!Requests, App!Nothing
      <4>3. QED
        BY <4>1, <4>2
    <3>3. CASE call[t].kind \in {"status", "position"}
      <4>1. CASE code = "CLIENT_UNDEF_ERR"
        BY <1>1, <1>5, <2>1, <3>3, <4>1 DEF App!Does, App!Consults, App!Serious, App!Loses
      <4>2. CASE code # "CLIENT_UNDEF_ERR"
        BY <1>1, <1>2, <1>3, <1>5, <2>1, <3>3, <4>2
           DEF App!Does, App!Consults, App!Nothing, App!Loses
      <4>3. QED
        BY <4>1, <4>2
    <3>4. QED
      BY <1>2, <1>7, <3>1, <3>2, <3>3 DEF Checked
  <2>3. QED
    BY <1>3, <1>5, <2>1, <2>2, Returned
<1>8. QED
  BY <1>6, <1>7

LEMMA CalledRequests ==
  ASSUME ClientInv, NEW t \in Threads, Sent(t)
  PROVE  call[t] \in Calls /\ stage \in StagesOf(call[t])
<1>1. NoCall.kind = "config"
  BY DEF NoCall, Configuration, Request
<1>2. Checked(call[t]) /\ call[t] \in Calls \union {NoCall}
  BY Underway DEF ClientInv, FormatDiscipline, FormatTypes
<1>3. QED
  BY <1>1, <1>2 DEF Checked, ClientInv, FormatDiscipline, PipelineInv, Sent

(* Get_CurrentJA falls back on the notice, or a function that is like it.     *)
LEMMA FallBackMaps ==
  ASSUME ClientInv, NEW t \in Threads, FallBackOnNotice(t)
  PROVE  CallInv' /\ CallStep
<1>1. /\ Sent(t) /\ cache' = cache /\ stage.cmd = "REQ_GET_CURPOS_INFO"
      /\ End(t, "CLIENT_SUCCESS", FALSE) \/ End(t, "CLIENT_UNDEF_ERR", TRUE)
  BY DEF FallBackOnNotice, NoticeInstead, NoticePosition, Sent, Same
<1>2. Busy(t) /\ Checked(call[t]) /\ phase # "closed" /\ Held # "none"
  BY <1>1, Underway
<1>3. call[t].kind \in {"request", "status", "position"} /\ (call[t].kind = "request" => stage = call[t])
  <2>1. call[t] \in Calls /\ stage \in StagesOf(call[t])
    BY <1>1, CalledRequests
  <2>2. RTMC_DisConnect.cmd = "REQ_CONNECT" /\ RTMC_DisConnect.kind = "disconnect"
    BY DEF RTMC_DisConnect, Request
  <2>3. "REQ_GET_CURPOS_INFO" \notin {ConnectPosition.cmd, ConnectStatus.cmd, ErrorMessage.cmd,
                                    ConnectFormat.cmd}
    BY DEF ConnectPosition, ConnectStatus, ErrorMessage, ConnectFormat, Request
  <2>4. call[t].kind # "connect"
    BY <1>1, <2>1, <2>3, CallsAssumption DEF StagesOf
  <2>5. call[t].kind # "disconnect"
    BY <1>1, <2>1, <2>2, CallsAssumption DEF StagesOf
  <2>6. QED
    BY <1>2, <2>1, <2>4, <2>5 DEF Checked, StagesOf
<1>4. CASE End(t, "CLIENT_UNDEF_ERR", TRUE)
  BY <1>1, <1>2, <1>3, <1>4, Dies
<1>5. CASE End(t, "CLIENT_SUCCESS", FALSE)
  <2>1. /\ CallInv' /\ App!Leaves(t, "CLIENT_SUCCESS") /\ App!Nothing
        /\ placeOf[t] = "inside" /\ sessionOf = Held
    BY <1>1, <1>2, <1>3, <1>5, Stays
  <2>2. App!Does(call[t], "CLIENT_SUCCESS")
    <3>1. CASE call[t].kind = "request"
      <4>1. App!Changed(call[t]) = <<cache.send, cache.recv>>
        BY <1>1, <1>3, <3>1 DEF App!Changed
      <4>2. App!Fits(call[t])
        BY <1>2, <3>1 DEF Checked
      <4>3. QED
        BY <1>1, <1>2, <2>1, <3>1, <4>1, <4>2 DEF App!Does, App!Requests, App!Nothing
    <3>2. CASE call[t].kind \in {"status", "position"}
      BY <1>2, <2>1, <3>2 DEF App!Does, App!Consults
    <3>3. QED
      BY <1>3, <3>1, <3>2
  <2>3. QED
    BY <2>1, <2>2, Returned, KnownResults
<1>6. QED
  BY <1>1, <1>4, <1>5

(* The formats that a successful request leaves. *)
LEMMA SucceedMaps ==
  ASSUME ClientInv, NEW t \in Threads, Succeed(t)
  PROVE  CallInv' /\ CallStep
<1>1. /\ Sent(t) /\ call[t].kind \in {"request", "disconnect"} /\ cache' = SetFormat(stage, cache)
      /\ End(t, "CLIENT_SUCCESS", call[t].kind = "disconnect")
  BY DEF Succeed, Sent
<1>2. Busy(t) /\ Checked(call[t]) /\ phase # "closed" /\ Held # "none"
  BY <1>1, Underway
<1>3. placeOf[t] = "inside" /\ sessionOf = Held
  BY <1>1, <1>2, Alone
<1>4. stage = call[t] /\ call[t] \in Calls /\ CacheShape
  BY <1>1, CalledRequests DEF StagesOf, ClientInv, FormatDiscipline, FormatTypes
<1>5. CASE call[t].kind = "disconnect"
  <2>1. cache' = cache
    <3>1. RTMC_DisConnect.cmd = "REQ_CONNECT"
      BY DEF RTMC_DisConnect, Request
    <3>2. QED
      BY <1>1, <1>4, <1>5, <3>1, CallsAssumption DEF SetFormat
  <2>2. CallInv' /\ sessionOf' = "none" /\ App!Leaves(t, "CLIENT_SUCCESS") /\ leaked' = leaked
    BY <1>1, <1>2, <1>5, EndedDisConnect
  <2>3. App!Does(call[t], "CLIENT_SUCCESS")
    BY <1>2, <1>3, <1>5, <2>1, <2>2 DEF App!Does, App!Disconnects, App!Loses
  <2>4. QED
    BY <1>3, <2>2, <2>3, Returned, KnownResults
<1>6. CASE call[t].kind = "request"
  <2>1. End(t, "CLIENT_SUCCESS", FALSE)
    BY <1>1, <1>6
  <2>2. CallInv' /\ App!Leaves(t, "CLIENT_SUCCESS") /\ leaked' = leaked /\ sessionOf' = Held
    BY <1>2, <1>6, <2>1, Ended
  <2>3. /\ <<cache'.send, cache'.recv>> = App!Changed(call[t])
        /\ cache'.model = cache.model
    <3>1. CASE call[t].cmd = "REQ_SET_RTPOS_IO_FORM"
      BY <1>1, <1>4, <3>1 DEF SetFormat, App!Changed, CacheShape
    <3>2. CASE call[t].cmd = "REQ_SET_CURPOS_IO_FORM"
      BY <1>1, <1>4, <3>2 DEF SetFormat, App!Changed, CacheShape
    <3>3. CASE call[t].cmd \notin SetCommands
      BY <1>1, <1>4, <3>3 DEF SetFormat, App!Changed, SetCommands
    <3>4. QED
      BY <3>1, <3>2, <3>3 DEF SetCommands
  <2>4. App!Fits(call[t])
    BY <1>2, <1>6 DEF Checked
  <2>5. App!Does(call[t], "CLIENT_SUCCESS")
    BY <1>2, <1>3, <1>6, <2>2, <2>3, <2>4 DEF App!Does, App!Requests
  <2>6. QED
    BY <1>3, <2>2, <2>5, Returned, KnownResults
<1>7. QED
  BY <1>1, <1>5, <1>6

(* RTMC_Connect: the connection counts when the formats have been read.       *)
LEMMA ConnectsMap ==
  ASSUME ClientInv, NEW t \in Threads, ConnectContinues(t) \/ ConnectSucceeds(t)
  PROVE  CallInv' /\ CallStep
<1>1. Sent(t) /\ call[t].kind = "connect"
  BY DEF ConnectContinues, ConnectSucceeds, Sent
<1>2. Busy(t) /\ Checked(call[t]) /\ phase # "closed"
  BY <1>1, Underway
<1>3. placeOf[t] = "inside" /\ sessionOf = "none"
  BY <1>1, <1>2, Alone
<1>4. CASE ConnectContinues(t)
  <2>1. PICK next : Proceed(t, next)
    BY <1>4 DEF ConnectContinues
  <2>2. cache' = cache /\ Checked(call[t])'
    BY <1>1, <1>2, <1>4, <2>1 DEF ConnectContinues, KeepConnection, Same, Checked, Proceed
  <2>3. CallInv' /\ UNCHANGED <<placeOf, call, ret, sessionOf, leaked>>
    BY <1>1, <1>2, <2>1, <2>2, Proceeded
  <2>4. QED
    BY <2>2, <2>3, Stutters
<1>5. CASE ConnectSucceeds(t)
  <2>1. Return(t, "CLIENT_SUCCESS")
    BY <1>1, <1>5 DEF ConnectSucceeds, Finish
  <2>2. CallInv' /\ App!Leaves(t, "CLIENT_SUCCESS") /\ sessionOf' = Held'
    BY <1>2, <2>1, Left DEF Return
  <2>3. Held' = "established"
    BY <1>2, <1>5 DEF ConnectSucceeds, channel, Held
  <2>4. reply.formats \in Formats
    BY <1>5, OutcomeCodes DEF ConnectSucceeds, Answer, Acceptable
  <2>5. /\ <<cache'.send, cache'.recv>> \in App!Formats
        /\ cache'.model = NoModel
    <3>1. cache' = [send |-> reply.formats[1], recv |-> reply.formats[2], model |-> NoModel]
      BY <1>5 DEF ConnectSucceeds, Learn
    <3>2. reply.formats[1] \in {0, 1} /\ reply.formats[2] \in {0, 1}
      BY <2>4 DEF Formats
    <3>3. QED
      BY <3>1, <3>2 DEF App!Formats
  <2>6. App!Does(call[t], "CLIENT_SUCCESS")
    BY <1>1, <1>3, <2>1, <2>2, <2>3, <2>5 DEF App!Does, App!Connects, Return
  <2>7. QED
    BY <1>3, <2>2, <2>6, Returned, KnownResults
<1>6. QED
  BY <1>4, <1>5

LEMMA JudgeMaps ==
  ASSUME ClientInv, NEW t \in Threads, Judge(t)
  PROVE  CallInv' /\ CallStep
<1>1. CASE Reads(t)
  <2>1. Sent(t) /\ pc[t] = "answered" /\ call[t].kind \in {"status", "position"} /\ Same
    BY <1>1 DEF Reads, Sent
  <2>2. Busy(t) /\ phase = "open" /\ Held # "none"
    BY <2>1, Underway DEF ClientInv, FormatDiscipline, LockDiscipline, ObjectAlive
  <2>3. CASE Read(t)
    BY <2>1, <2>2, <2>3, ReadMaps
  <2>4. CASE End(t, "CLIENT_SUCCESS", FALSE)
    <3>1. /\ CallInv' /\ App!Leaves(t, "CLIENT_SUCCESS") /\ App!Nothing
          /\ placeOf[t] = "inside" /\ sessionOf = Held
      BY <2>1, <2>2, <2>4, Stays DEF Same
    <3>2. App!Does(call[t], "CLIENT_SUCCESS")
      BY <2>1, <2>2, <3>1 DEF App!Does, App!Consults
    <3>3. QED
      BY <3>1, <3>2, Returned, KnownResults
  <2>5. QED
    BY <1>1, <2>3, <2>4 DEF Reads
<1>2. QED
  BY <1>1, FailMaps, FallBackMaps, SucceedMaps, ConnectsMap DEF Judge
--------------------------------------------------------------------------------
(* Another client; the controller and the link, of which the application      *)
(* notices nothing between the returns.                                       *)
LEMMA NewClientMaps ==
  ASSUME ClientInv, NewClient
  PROVE  CallInv' /\ CallStep
<1>1. /\ \A t \in Threads : pc[t] = "idle"
      /\ leaked' = FALSE /\ cache' = NoCache /\ UNCHANGED <<pc, call, ret>>
  BY DEF NewClient
<1>2. phase' = "closed"
  BY DEF NewClient, KeepConnection, channel, DisconnectRC, Channel!Hangup
<1>3. \A t \in Threads : ~Busy(t) /\ ~Busy(t)' /\ ~Sent(t)'
  BY <1>1 DEF Busy, Sent
<1>4. CallInv'
  BY <1>1, <1>3 DEF CallInv
<1>5. /\ \A t \in Threads : placeOf[t] = "outside"
      /\ placeOf' = placeOf /\ sessionOf' = "none"
  BY <1>1, <1>2, <1>3 DEF placeOf, sessionOf
<1>6. App!NewClient
  BY <1>1, <1>5 DEF App!NewClient, NoCache
<1>7. QED
  BY <1>4, <1>6 DEF CallStep, App!Next

LEMMA UnseenMaps ==
  ASSUME ClientInv, UNCHANGED <<threads, cache, channel, established>>
  PROVE  CallInv' /\ CallStep
<1>1. UNCHANGED <<owner, pc, call, ret, leaked, cache, phase, established>>
  BY DEF threads, channel
<1>2. UNCHANGED <<placeOf, sessionOf>>
  BY <1>1 DEF placeOf, sessionOf, Busy, Connecting
<1>3. CallInv'
  BY <1>1 DEF ClientInv, CallInv, Sent, Busy, Checked, App!Fits
<1>4. QED
  BY <1>1, <1>2, <1>3, Stutters

LEMMA StepMaps ==
  ASSUME ClientInv, [Next]_vars
  PROVE  CallInv' /\ CallStep
<1>1. CASE UNCHANGED vars \/ Environment
  <2>1. UNCHANGED <<threads, cache, channel, established>>
    BY <1>1 DEF vars, Environment, RCExecutes, RCRefuses, RequestLost, LinkLost, RCRestarts
  <2>2. QED
    BY <2>1, UnseenMaps
<1>2. QED
  BY <1>1, EntersMap, BeginMaps, AwaitMaps, JudgeMaps, NewClientMaps DEF Next, Thread

(* Once the lock has been kept no function runs any more, and what a function  *)
(* was checked against holds until it returns.                                *)
THEOREM CallsStayChecked == Spec => []ClientInv
<1>1. Init => CallInv
  BY DEF Init, CallInv, Busy, Sent
<1>2. ClientInv /\ [Next]_vars => CallInv'
  BY StepMaps
<1>3. QED
  BY <1>1, <1>2, ClientTypesHold, PTL DEF Spec, ClientInv

(* The client implements ClientCalls: whatever the threads, the controller and *)
(* the link do, the functions take effect one at a time and as their codes     *)
(* say.                                                                       *)
THEOREM ClientCallsImplemented == Spec => OneAtATime
<1>1. Init => App!Init
  <2> SUFFICES ASSUME Init PROVE App!Init
    OBVIOUS
  <2>1. placeOf = [t \in Threads |-> "outside"]
    BY DEF Init, placeOf, Busy
  <2>2. sessionOf = "none"
    BY DEF Init, Channel!Init, sessionOf
  <2>3. QED
    BY <2>1, <2>2 DEF Init, NoCache, App!Init
<1>2. ClientInv /\ [Next]_vars => [App!Next]_(App!callVars)
  BY StepMaps DEF CallStep
<1>3. QED
  BY <1>1, <1>2, CallsStayChecked, PTL DEF Spec, OneAtATime, App!Spec
--------------------------------------------------------------------------------
(* The client uses the connection as RequestReply allows. *)

ChannelStep == Channel!Next \/ UNCHANGED Channel!rrVars

LEMMA ConnectionUses ==
  ASSUME KeepConnection \/ DisconnectRC \/ \E t, code, drop : End(t, code, drop)
  PROVE  ChannelStep
BY DEF End, KeepConnection, DisconnectRC, channel, Channel!Next, Channel!rrVars, ChannelStep

(* What a call sends is one of the commands of the library. *)
LEMMA SentCommands ==
  ASSUME ClientInv, NEW t \in Threads, Sent(t)
  PROVE  stage.cmd \in Commands
<1>1. call[t] \in Calls /\ stage \in StagesOf(call[t])
  BY CalledRequests
<1>2. Get_CurrentJA.cmd = "REQ_GET_CURPOS_INFO"
  BY DEF Get_CurrentJA, Request
<1>3. /\ ConnectPosition.cmd = "SYS_REQ_CURPOS_INFO"
      /\ ConnectStatus.cmd = "SYS_REQ_RC_STATUS"
      /\ ErrorMessage.cmd = "SYS_REQ_RC_ERRMSG"
      /\ ConnectFormat.cmd = "SYS_REQ_RTMC_FORMAT_INFO"
  BY DEF ConnectPosition, ConnectStatus, ErrorMessage, ConnectFormat, Request
<1>4. QED
  BY <1>1, <1>2, <1>3 DEF StagesOf, Commands

LEMMA ReadUses ==
  ASSUME NEW t, Read(t)
  PROVE  ChannelStep
BY ConnectionUses DEF Read, AskPosition, NoticePosition

LEMMA StepUses ==
  ASSUME ClientInv, [Next]_vars
  PROVE  ChannelStep
<1> USE DEF channel, ChannelStep, Channel!rrVars
<1>1. CASE UNCHANGED vars \/ Environment \/ NewClient
  BY <1>1, ConnectionUses
     DEF vars, NewClient, Environment, RCExecutes, RCRefuses, RequestLost, LinkLost, RCRestarts
<1>2. ASSUME NEW t \in Threads, Thread(t) \/ \E c \in Calls : Start(t, c)
      PROVE  ChannelStep
  <2>1. CASE Acquire(t) \/ LockTimeout(t) \/ \E c \in Calls : Start(t, c)
    BY <2>1 DEF Acquire, LockTimeout, Start
  <2>2. CASE Begin(t)
    <3>1. CASE Connected(t)
      BY <3>1 DEF Connected, Channel!Next
    <3>2. CASE ReadNotice(t)
      BY <3>2, ReadUses DEF ReadNotice
    <3>3. CASE ~Connected(t) /\ ~ReadNotice(t)
      BY <2>2, <3>3, ConnectionUses
         DEF Begin, Configure, ConnectRefused, ConnectCleans, ConnectFails, Refuse, Prepare,
             ReadRefused, ReadErrorMessage
    <3>4. QED
      BY <3>1, <3>2, <3>3
  <2>3. CASE Await(t)
    <3>1. CASE Send(t)
      <4>1. stage.cmd \in Commands
        BY <3>1, SentCommands DEF Send, Sent
      <4>2. QED
        BY <3>1, <4>1 DEF Send, Channel!Next
    <3>2. CASE SendSucceeds(t)
      BY <3>2 DEF SendSucceeds, Channel!Next
    <3>3. CASE SendNotConnected(t) \/ SendFails(t)
      BY <3>3, ConnectionUses DEF SendNotConnected, SendFails
    <3>4. QED
      BY <2>3, <3>1, <3>2, <3>3 DEF Await
  <2>4. CASE Judge(t)
    BY <2>4, ConnectionUses, ReadUses
       DEF Judge, Fail, FallBackOnNotice, NoticePosition, Succeed, Reads, ConnectContinues,
           ConnectSucceeds
  <2>5. QED
    BY <1>2, <2>1, <2>2, <2>3, <2>4 DEF Thread
<1>3. QED
  BY <1>1, <1>2 DEF Next

(* The client opens, uses and closes the connection in the order that          *)
(* RequestReply lays down, one request at a time: what DDSCommunication is     *)
(* proved to promise is all that the client needs of it.                       *)
THEOREM ConnectionUsedInOrder == Spec => Channel!Spec
<1>1. Init => Channel!Init
  BY DEF Init
<1>2. ClientInv /\ [Next]_vars => [Channel!Next]_(Channel!rrVars)
  BY StepUses DEF ChannelStep
<1>3. QED
  BY <1>1, <1>2, CallsStayChecked, PTL DEF Spec, Channel!Spec
--------------------------------------------------------------------------------
(* Every step of a thread inside a call brings the call nearer to its return. *)

(* The requests that may follow the one that was sent last. *)
Ahead == CASE stage.cmd = "REQ_CONNECT"         -> 4
           [] stage.cmd = "SYS_REQ_CURPOS_INFO" -> 3
           [] stage.cmd = "SYS_REQ_RC_STATUS"   -> 2
           [] stage.cmd = "SYS_REQ_RC_ERRMSG"   -> 1
           [] OTHER -> 0

(* The steps that the thread may still take in its call. *)
Distance(t) == CASE pc[t] = "locking"  -> 18
                 [] pc[t] = "entered"  -> IF phase = "closed" THEN 16 ELSE 17
                 [] pc[t] = "sending"  -> 3 * Ahead + 3
                 [] pc[t] = "waiting"  -> 3 * Ahead + 2
                 [] pc[t] = "answered" -> 3 * Ahead + 1
                 [] OTHER -> 0

LEMMA Distances ==
  ASSUME NEW t
  PROVE  /\ Ahead \in 0 .. 4 /\ Distance(t) \in 0 .. 18
         /\ pc[t] = "idle" => Distance(t) = 0
         /\ Busy(t) => Distance(t) \in 1 .. 17
         /\ Sent(t) => Distance(t) \in 3 * Ahead + 1 .. 15
<1>1. Ahead \in 0 .. 4
  BY DEF Ahead
<1>2. QED
  BY <1>1 DEF Distance, Busy, Sent

(* A call that ends is at its end. *)
LEMMA LeaveNears ==
  ASSUME ClientInv, NEW t \in Threads, Busy(t), NEW code, Leave(t, code)
  PROVE  Distance(t)' < Distance(t)
<1>1. pc'[t] = "idle"
  BY DEF Leave, ClientInv, FormatDiscipline, LockDiscipline, LockTypes
<1>2. Distance(t)' = 0
  BY <1>1 DEF Distance
<1>3. QED
  BY <1>2, Distances

LEMMA FinishNears ==
  ASSUME ClientInv, NEW t \in Threads, Busy(t), NEW code,
         Finish(t, code) \/ Return(t, code) \/ \E drop : End(t, code, drop)
  PROVE  Distance(t)' < Distance(t)
<1>1. PICK c : Leave(t, c)
  BY DEF End, Finish, ReturnDisConnect, Return
<1>2. QED
  BY <1>1, LeaveNears

(* A request at the beginning of a call, or one that comes later than the last. *)
LEMMA ProceedNears ==
  ASSUME ClientInv, NEW t \in Threads, Busy(t), NEW req, Proceed(t, req),
         pc[t] \in {"entered", "answered"}, pc[t] = "answered" => Ahead' < Ahead
  PROVE  Distance(t)' < Distance(t)
<1>1. pc'[t] = "sending"
  BY DEF Proceed, ClientInv, FormatDiscipline, LockDiscipline, LockTypes
<1>2. Ahead \in 0 .. 4 /\ Ahead' \in 0 .. 4
  BY DEF Ahead
<1>3. Distance(t)' = 3 * Ahead' + 3
  BY <1>1 DEF Distance
<1>4. CASE pc[t] = "entered"
  BY <1>2, <1>3, <1>4 DEF Distance
<1>5. CASE pc[t] = "answered"
  BY <1>2, <1>3, <1>5 DEF Distance
<1>6. QED
  BY <1>4, <1>5

LEMMA ReadNears ==
  ASSUME ClientInv, NEW t \in Threads, Busy(t), Read(t),
         pc[t] \in {"entered", "answered"}, pc[t] = "answered" => stage.cmd = "SYS_REQ_RC_ERRMSG"
  PROVE  Distance(t)' < Distance(t)
<1>1. CASE AskPosition(t)
  <2>1. Proceed(t, Get_CurrentJA) /\ stage' = Get_CurrentJA
    BY <1>1 DEF AskPosition, Proceed
  <2>2. Ahead' = 0
    BY <2>1 DEF Ahead, Get_CurrentJA, Request
  <2>3. stage.cmd = "SYS_REQ_RC_ERRMSG" => Ahead = 1
    BY DEF Ahead
  <2>4. QED
    BY <2>1, <2>2, <2>3, ProceedNears
<1>2. QED
  BY <1>1, FinishNears DEF Read, NoticePosition

LEMMA EnterNears ==
  ASSUME ClientInv, NEW t \in Threads, Acquire(t) \/ LockTimeout(t)
  PROVE  Distance(t)' < Distance(t)
<1>1. pc[t] = "locking" /\ pc'[t] \in {"entered", "idle"}
  BY DEF Acquire, LockTimeout, ClientInv, FormatDiscipline, LockDiscipline, LockTypes
<1>2. QED
  BY <1>1 DEF Distance

LEMMA BeginNears ==
  ASSUME ClientInv, NEW t \in Threads, Begin(t)
  PROVE  Distance(t)' < Distance(t)
<1>1. pc[t] = "entered" /\ Busy(t)
  BY DEF Begin, Configure, ConnectRefused, ConnectCleans, ConnectFails, Connected, Refuse,
         Prepare, ReadRefused, ReadErrorMessage, ReadNotice, Busy
<1>2. CASE ConnectCleans(t)
  <2>1. phase = "open" /\ phase' = "closed" /\ pc' = pc
    BY <1>2 DEF ConnectCleans, DisconnectRC, Channel!Hangup, threads
  <2>2. QED
    BY <1>1, <2>1 DEF Distance
<1>3. CASE Connected(t) \/ Prepare(t) \/ ReadErrorMessage(t)
  <2>1. PICK req : Proceed(t, req)
    BY <1>3 DEF Connected, Prepare, ReadErrorMessage
  <2>2. QED
    BY <1>1, <2>1, ProceedNears
<1>4. CASE ReadNotice(t)
  <2>1. Read(t)
    BY <1>4 DEF ReadNotice
  <2>2. QED
    BY <1>1, <2>1, ReadNears
<1>5. QED
  BY <1>1, <1>2, <1>3, <1>4, FinishNears
     DEF Begin, Configure, ConnectRefused, ConnectFails, Refuse, ReadRefused

LEMMA AwaitNears ==
  ASSUME ClientInv, NEW t \in Threads, Await(t)
  PROVE  Distance(t)' < Distance(t)
<1>1. Busy(t)
  BY DEF Await, SendNotConnected, Send, SendFails, SendSucceeds, Busy
<1>2. CASE Send(t) \/ SendSucceeds(t)
  <2>1. /\ Ahead' = Ahead /\ Ahead \in 0 .. 4
        /\ \/ pc[t] = "sending" /\ pc'[t] = "waiting"
           \/ pc[t] = "waiting" /\ pc'[t] = "answered"
    BY <1>2 DEF Send, SendSucceeds, Ahead, ClientInv, FormatDiscipline, LockDiscipline, LockTypes
  <2>2. QED
    BY <2>1 DEF Distance
<1>3. QED
  BY <1>1, <1>2, FinishNears DEF Await, SendNotConnected, SendFails

LEMMA JudgeNears ==
  ASSUME ClientInv, NEW t \in Threads, Judge(t)
  PROVE  Distance(t)' < Distance(t)
<1>1. pc[t] = "answered" /\ Busy(t)
  BY DEF Judge, Fail, FallBackOnNotice, Succeed, Reads, ConnectContinues, ConnectSucceeds, Busy
<1>2. CASE ConnectContinues(t)
  <2>1. PICK next \in Following(stage.cmd) : Proceed(t, next)
    BY <1>2 DEF ConnectContinues
  <2>2. stage' = next
    BY <2>1 DEF Proceed
  <2>3. /\ ConnectPosition.cmd = "SYS_REQ_CURPOS_INFO"
        /\ ConnectStatus.cmd = "SYS_REQ_RC_STATUS"
        /\ ErrorMessage.cmd = "SYS_REQ_RC_ERRMSG"
        /\ ConnectFormat.cmd = "SYS_REQ_RTMC_FORMAT_INFO"
    BY DEF ConnectPosition, ConnectStatus, ErrorMessage, ConnectFormat, Request
  <2>4. Ahead' < Ahead
    BY <2>1, <2>2, <2>3 DEF Following, Ahead
  <2>5. QED
    BY <1>1, <2>1, <2>4, ProceedNears
<1>3. CASE Reads(t)
  BY <1>1, <1>3, ReadNears, FinishNears DEF Reads
<1>4. QED
  BY <1>1, <1>2, <1>3, FinishNears
     DEF Judge, Fail, FallBackOnNotice, NoticePosition, Succeed, ConnectSucceeds

(* The step of one thread does not set back another one. *)
LEMMA OthersStay ==
  ASSUME ClientInv, NEW t \in Threads, Thread(t) \/ \E c \in Calls : Start(t, c),
         NEW u \in Threads \ {t}
  PROVE  Distance(u)' = Distance(u)
<1>1. \E place : pc' = [pc EXCEPT ![t] = place]
  <2>1. pc = [pc EXCEPT ![t] = pc[t]]
    BY DEF ClientInv, FormatDiscipline, LockDiscipline, LockTypes
  <2>2. QED
    BY <2>1
       DEF Thread, Start, Acquire, LockTimeout, Begin, Configure, ConnectRefused, ConnectCleans,
           ConnectFails, Connected, Refuse, Prepare, ReadRefused, ReadErrorMessage, ReadNotice,
           Await, SendNotConnected, Send, SendFails, SendSucceeds, Judge, Fail,
           FallBackOnNotice, Succeed, Reads, ConnectContinues, ConnectSucceeds, Read,
           AskPosition, NoticePosition, End, Finish, ReturnDisConnect, Return, Leave, Proceed,
           threads
<1>2. pc'[u] = pc[u]
  BY <1>1 DEF ClientInv, FormatDiscipline, LockDiscipline, LockTypes
<1>3. CASE Busy(t)
  <2>1. ~Busy(u)
    BY <1>3, Alone
  <2>2. QED
    BY <1>2, <2>1 DEF Distance, Busy
<1>4. CASE ~Busy(t)
  <2>1. Acquire(t) \/ LockTimeout(t) \/ \E c \in Calls : Start(t, c)
    BY <1>4
       DEF Thread, Begin, Configure, ConnectRefused, ConnectCleans, ConnectFails, Connected,
           Refuse, Prepare, ReadRefused, ReadErrorMessage, ReadNotice, Await, SendNotConnected,
           Send, SendFails, SendSucceeds, Judge, Fail, FallBackOnNotice, Succeed, Reads,
           ConnectContinues, ConnectSucceeds, Busy
  <2>2. stage' = stage /\ phase' = phase
    BY <2>1 DEF Acquire, LockTimeout, Start, channel
  <2>3. QED
    BY <1>2, <2>2 DEF Distance, Ahead
<1>5. QED
  BY <1>3, <1>4

(* Every step of a thread in its call brings the call nearer to its return,    *)
(* and no step of another thread, of the controller or of the link sets it    *)
(* back: a call takes at most 18 steps, whatever is answered.                  *)
CallsAdvance ==
  [][\A t \in Threads : /\ Thread(t) => Distance(t)' < Distance(t)
                        /\ pc[t] # "idle" => Distance(t)' <= Distance(t)]_vars

(* No call runs in circles: RTMC_Connect removes an old connection once and    *)
(* sends each of its requests once, and the functions that read ask at most    *)
(* twice.  This is what CallsReturn rests on beside fairness.                  *)
THEOREM CallsAdvanceToReturn == Spec => CallsAdvance
<1>1. ASSUME ClientInv, Next, NEW t \in Threads
      PROVE  /\ Thread(t) => Distance(t)' < Distance(t)
             /\ pc[t] # "idle" => Distance(t)' <= Distance(t)
  <2>1. Thread(t) => Distance(t)' < Distance(t)
    BY <1>1, EnterNears, BeginNears, AwaitNears, JudgeNears DEF Thread
  <2>2. ASSUME pc[t] # "idle" PROVE Distance(t)' <= Distance(t)
    <3>1. Distance(t) \in Nat /\ Distance(t)' \in Nat
      BY DEF Distance, Ahead
    <3>2. CASE Thread(t)
      BY <2>1, <3>1, <3>2
    <3>3. CASE \E u \in Threads \ {t} : Thread(u) \/ \E c \in Calls : Start(u, c)
      BY <1>1, <3>1, <3>3, OthersStay
    <3>4. CASE Environment
      <4>1. UNCHANGED <<pc, stage, phase>>
        BY <3>4 DEF Environment, RCExecutes, RCRefuses, RequestLost, LinkLost, RCRestarts,
                    threads, channel
      <4>2. QED
        BY <3>1, <4>1 DEF Distance, Ahead
    <3>5. QED
      BY <1>1, <2>2, <3>2, <3>3, <3>4 DEF Next, NewClient, Start
  <2>3. QED
    BY <2>1, <2>2
<1>2. ClientInv /\ [Next]_vars =>
        [\A t \in Threads : /\ Thread(t) => Distance(t)' < Distance(t)
                            /\ pc[t] # "idle" => Distance(t)' <= Distance(t)]_vars
  BY <1>1
<1>3. QED
  BY <1>2, CallsStayChecked, PTL DEF Spec, CallsAdvance
=================================================================================
