------------------------ MODULE DDSCommunication_proofs ------------------------
(***************************************************************************)
(* What DDSCommunication does for every set of commands and notices and     *)
(* every bound: its type and lock invariants, no lost wakeup, the freshness *)
(* of replies and the contract of RequestReply.                             *)
(***************************************************************************)
EXTENDS DDSCommunication, TLAPS

(* Request numbers stay in range when the next request is numbered. *)
LEMMA NextNumber ==
  ASSUME NEW n \in Nat, NEW S, S \subseteq 1 .. n
  PROVE  S \union {n + 1} \subseteq 1 .. n + 1 /\ S \subseteq 1 .. n + 1
  OBVIOUS

(* The initial state has the types. *)
LEMMA TypeInit == Init => TypeOK
<1> SUFFICES ASSUME Init PROVE TypeOK
  OBVIOUS
<1>1. /\ notice \in [Notices -> [version : Nat, new : BOOLEAN]]
      /\ seen \in [Notices -> Nat]
  BY DEF Init, NoNotice
<1>2. asked \in Seq(Cmds) /\ Len(asked) = 0
  BY DEF Init
<1>3. /\ pub \in [matched : BOOLEAN, disconnect : BOOLEAN]
      /\ sub \in [matched : BOOLEAN, disconnect : BOOLEAN]
      /\ result \in [request : 0 .. Len(asked), reply : 0 .. Len(asked)]
  BY <1>2 DEF Init, Unmatched, NoResult
<1>4. /\ requests \subseteq 1 .. Len(asked) /\ answers \subseteq 1 .. Len(asked)
      /\ cmdres \in 0 .. Len(asked) /\ hand \in 0 .. Len(asked)
      /\ first \in 1 .. Len(asked) + 1
  BY <1>2 DEF Init
<1>5. /\ pc \in PCs /\ failedGet \in BOOLEAN /\ mutexSig \in {"free", "caller"}
      /\ cond \in {"none", "waiting", "signalled", "expired"}
      /\ cmd \in IF pc \in InCall THEN Cmds ELSE {NoCmd}
      /\ news \subseteq Notices \X Nat /\ late \in BOOLEAN /\ lost \in BOOLEAN
      /\ sessions \in Nat /\ published \in Nat
  BY DEF Init, PCs, InCall
<1>6. /\ mutexRrd \in {"free", "caller", "listener"} /\ taken \subseteq Notices \X Nat
      /\ copy \in [kind : Notices \cup {NoCmd}, version : Nat, new : BOOLEAN]
      /\ pc \notin {"reading", "copied"}
  BY DEF Init, NoCopy
<1>7. QED
  BY <1>1, <1>2, <1>3, <1>4, <1>5, <1>6 DEF TypeOK

(* The steps of the object's life keep the types. *)
LEMMA TypeLife == TypeOK /\ Life => TypeOK'
<1> SUFFICES ASSUME TypeOK, Life PROVE TypeOK'
  OBVIOUS
<1> USE DEF TypeOK, PCs, InCall, object, board, network, history
<1>1. CASE Create
  <2>1. /\ notice' \in [Notices -> [version : Nat, new : BOOLEAN]]
        /\ seen' \in [Notices -> Nat]
    BY <1>1 DEF Create, NoNotice
  <2>2. /\ pub' \in [matched : BOOLEAN, disconnect : BOOLEAN]
        /\ sub' \in [matched : BOOLEAN, disconnect : BOOLEAN]
    BY <1>1 DEF Create, Unmatched
  <2>3. Len(asked) \in Nat /\ asked' = asked
    BY <1>1 DEF Create
  <2>4. /\ first' \in 1 .. Len(asked') + 1
        /\ cmdres' \in 0 .. Len(asked')
    BY <1>1, <2>3 DEF Create
  <2>10. /\ mutexRrd' \in {"free", "caller", "listener"} /\ taken' \subseteq Notices \X Nat
         /\ copy' \in [kind : Notices \cup {NoCmd}, version : Nat, new : BOOLEAN]
         /\ pc' \notin {"reading", "copied"}
    BY <1>1 DEF Create, NoCopy
  <2>5. /\ pc' \in PCs /\ failedGet' \in BOOLEAN /\ mutexSig' \in {"free", "caller"}
        /\ cond' \in {"none", "waiting", "signalled", "expired"}
        /\ late' \in BOOLEAN /\ lost' \in BOOLEAN
    BY <1>1 DEF Create
  <2>8. sessions' \in Nat
    BY <1>1 DEF Create
  <2>9. cmd' \in IF pc' \in InCall THEN Cmds ELSE {NoCmd}
    BY <1>1 DEF Create
  <2>6. /\ hand' \in 0 .. Len(asked')
        /\ requests' \subseteq 1 .. Len(asked') /\ answers' \subseteq 1 .. Len(asked')
        /\ result' \in [request : 0 .. Len(asked'), reply : 0 .. Len(asked')]
        /\ news' \subseteq Notices \X Nat /\ asked' \in Seq(Cmds) /\ published' \in Nat
    BY <1>1 DEF Create
  <2>7. QED
    BY <2>1, <2>2, <2>4, <2>5, <2>6, <2>8, <2>9, <2>10
<1>2. CASE InitFails
  BY <1>2 DEF InitFails
<1>3. CASE MatchBeforeInit
  BY <1>3 DEF MatchBeforeInit
<1>4. CASE InitListeners
  BY <1>4 DEF InitListeners
<1>5. CASE Connected
  BY <1>5 DEF Connected
<1>6. CASE ConnectTimeout
  BY <1>6 DEF ConnectTimeout, DisconnectRC, NoCallback, NoResult
<1>7. CASE CallerDisconnects
  BY <1>7 DEF CallerDisconnects, DisconnectRC, NoCallback, NoResult
<1>8. QED
  BY <1>1, <1>2, <1>3, <1>4, <1>5, <1>6, <1>7 DEF Life

(* The steps of the calling thread keep the types. *)
LEMMA TypeCalling == TypeOK /\ Calling => TypeOK'
<1> SUFFICES ASSUME TypeOK, Calling PROVE TypeOK'
  OBVIOUS
<1> USE DEF TypeOK, PCs, InCall, object, board, network, history
<1>1. CASE \E c \in Cmds : SendProc_Common(c)
  BY <1>1 DEF SendProc_Common
<1>2. CASE SendProcNotConnected
  BY <1>2 DEF SendProcNotConnected, DisconnectRC, NoCallback, NoResult
<1>3. CASE Lock
  BY <1>3 DEF Lock
<1>4. CASE Write
  <2>1. /\ asked' \in Seq(Cmds)
        /\ Len(asked') = Len(asked) + 1
        /\ Len(asked) \in Nat
    BY <1>4 DEF Write
  <2>2. requests' \subseteq 1 .. Len(asked') /\ answers' \subseteq 1 .. Len(asked')
    <3> HIDE DEF TypeOK
    <3>1. requests \subseteq 1 .. Len(asked) /\ answers \subseteq 1 .. Len(asked)
      BY DEF TypeOK
    <3>2. QED
      BY <1>4, <2>1, <3>1, NextNumber DEF Write
  <2>3. QED
    BY <1>4, <2>1, <2>2 DEF Write
<1>5. CASE WriteFails
  BY <1>5 DEF WriteFails
<1>6. CASE TimedWait
  BY <1>6 DEF TimedWait
<1>7. CASE Expire
  BY <1>7 DEF Expire
<1>8. CASE TimedOut
  BY <1>8 DEF TimedOut
<1>9. CASE Accept
  BY <1>9 DEF Accept
<1>10. CASE Reject
  BY <1>10 DEF Reject
<1>11. CASE SendProcFailed
  BY <1>11 DEF SendProcFailed, DisconnectRC, NoCallback, NoResult
<1>12. QED
  BY <1>1, <1>2, <1>3, <1>4, <1>5, <1>6, <1>7, <1>8, <1>9, <1>10, <1>11 DEF Calling

(* Reading a notice keeps the types. *)
LEMMA TypeReading == TypeOK /\ Reading => TypeOK'
<1> SUFFICES ASSUME TypeOK, Reading PROVE TypeOK'
  OBVIOUS
<1> USE DEF TypeOK, PCs, InCall, object, board, network, history
<1>1. ASSUME NEW k \in Notices, Get_NewStatus(k) PROVE TypeOK'
  <2>1. /\ copy' \in [kind : Notices \cup {NoCmd}, version : Nat, new : BOOLEAN]
        /\ copy'.kind \in Notices
    BY <1>1 DEF Get_NewStatus, NoCopy
  <2>2. QED
    BY <1>1, <2>1 DEF Get_NewStatus
<1>2. CASE CopyNotice
  <2>1. /\ copy' \in [kind : Notices \cup {NoCmd}, version : Nat, new : BOOLEAN]
        /\ copy'.kind \in Notices
    BY <1>2 DEF CopyNotice
  <2>2. QED
    BY <1>2, <2>1 DEF CopyNotice
<1>3. CASE ClearNotice
  <2>1. notice' \in [Notices -> [version : Nat, new : BOOLEAN]]
    BY <1>3 DEF ClearNotice
  <2>2. seen' \in [Notices -> Nat]
    BY <1>3 DEF ClearNotice
  <2>3. copy' \in [kind : Notices \cup {NoCmd}, version : Nat, new : BOOLEAN]
    BY <1>3 DEF ClearNotice, NoCopy
  <2>4. QED
    BY <1>3, <2>1, <2>2, <2>3 DEF ClearNotice
<1>4. CASE GetNewStatusFails
  BY <1>4 DEF GetNewStatusFails, DisconnectRC, NoCallback, NoResult
<1>5. QED
  BY <1>1, <1>2, <1>3, <1>4 DEF Reading

(* The steps of the listener thread keep the types. *)
LEMMA TypeListener == TypeOK /\ Listener => TypeOK'
<1> SUFFICES ASSUME TypeOK, Listener PROVE TypeOK'
  OBVIOUS
<1> USE DEF TypeOK, PCs, InCall, object, board, network, history
<1>1. ASSUME NEW change \in Changes, on_publication_matched(change) PROVE TypeOK'
  <2>1. pub' \in [matched : BOOLEAN, disconnect : BOOLEAN] /\ lost' \in BOOLEAN
    BY <1>1 DEF on_publication_matched, OnMatched
  <2>2. QED
    BY <1>1, <2>1 DEF on_publication_matched
<1>2. ASSUME NEW change \in Changes, on_subscription_matched(change) PROVE TypeOK'
  <2>1. sub' \in [matched : BOOLEAN, disconnect : BOOLEAN] /\ lost' \in BOOLEAN
    BY <1>2 DEF on_subscription_matched, OnMatched
  <2>2. QED
    BY <1>2, <2>1 DEF on_subscription_matched
<1>3. ASSUME NEW r \in answers, TakeAnswer(r) PROVE TypeOK'
  BY <1>3 DEF TakeAnswer, NoCallback
<1>4. CASE StoreAnswer
  BY <1>4 DEF StoreAnswer
<1>5. ASSUME NEW n \in news, TakeNotice(n) PROVE TypeOK'
  BY <1>5 DEF TakeNotice, NoCallback
<1>6. ASSUME NEW n \in taken, StoreNotice(n[1], n[2]) PROVE TypeOK'
  <2>1. n[1] \in Notices /\ n[2] \in Nat
    BY <1>6
  <2>2. notice' \in [Notices -> [version : Nat, new : BOOLEAN]]
    BY <1>6, <2>1 DEF StoreNotice
  <2>3. /\ mutexRrd' = "listener"
        /\ UNCHANGED <<pc, pub, sub, failedGet, mutexSig, cond, cmdres, cmd, hand, taken, copy,
                       network, history>>
    BY <1>6 DEF StoreNotice
  <2>4. /\ taken' \subseteq Notices \X Nat
        /\ news' \subseteq Notices \X Nat
    BY <2>3
  <2>5. QED
    BY <2>2, <2>3, <2>4, SMTT(40)
<1>7. ASSUME NEW n \in taken, MarkNotice(n[1], n[2]) PROVE TypeOK'
  <2>1. notice' \in [Notices -> [version : Nat, new : BOOLEAN]]
    BY <1>7 DEF MarkNotice
  <2>2. /\ mutexRrd' = "free" /\ taken' = {}
        /\ UNCHANGED <<pc, pub, sub, failedGet, mutexSig, cond, cmdres, cmd, hand, copy,
                       network, history>>
    BY <1>7 DEF MarkNotice
  <2>3. QED
    BY <2>1, <2>2, SMTT(40)
<1>8. CASE TakeFails
  BY <1>8 DEF TakeFails
<1>9. QED
  BY <1>1, <1>2, <1>3, <1>4, <1>5, <1>6, <1>7, <1>8 DEF Listener

(* The steps of the controller and of the network keep the types. *)
LEMMA TypeController == TypeOK /\ Controller => TypeOK'
<1> SUFFICES ASSUME TypeOK, Controller PROVE TypeOK'
  OBVIOUS
<1> USE DEF TypeOK, PCs, InCall, object, board, network, history
<1>1. ASSUME NEW r \in requests, RCAnswers(r) PROVE TypeOK'
  <2>1. requests' \subseteq 1 .. Len(asked') /\ answers' \subseteq 1 .. Len(asked')
    BY <1>1 DEF RCAnswers
  <2>2. late' \in BOOLEAN
    BY <1>1 DEF RCAnswers
  <2>3. QED
    BY <1>1, <2>1, <2>2 DEF RCAnswers
<1>2. ASSUME NEW r \in requests, RCIgnores(r) PROVE TypeOK'
  BY <1>2 DEF RCIgnores
<1>3. ASSUME NEW r \in answers, AnswerLost(r) PROVE TypeOK'
  BY <1>3 DEF AnswerLost
<1>4. ASSUME NEW n \in news, NoticeLost(n) PROVE TypeOK'
  BY <1>4, SMTT(40) DEF NoticeLost
<1>5. ASSUME NEW k \in Notices, RCNotifies(k) PROVE TypeOK'
  <2>1. published' \in Nat /\ news' \subseteq Notices \X Nat
    BY <1>5 DEF RCNotifies
  <2>2. UNCHANGED <<object, requests, answers, asked, first, result, seen, late, lost, sessions>>
    BY <1>5 DEF RCNotifies
  <2>3. QED
    BY <2>1, <2>2, SMTT(40)
<1>6. QED
  BY <1>1, <1>2, <1>3, <1>4, <1>5 DEF Controller

(* Every variable of the communication object keeps its type: in particular   *)
(* the response slot only ever holds the answer to a request that was written.*)
THEOREM TypeCorrect == Spec => []TypeOK
<1>1. Init => TypeOK
  BY TypeInit
<1>2. TypeOK /\ [Next]_vars => TypeOK'
  <2> SUFFICES ASSUME TypeOK, [Next]_vars PROVE TypeOK'
    OBVIOUS
  <2>1. CASE Next
    BY <2>1, TypeLife, TypeCalling, TypeReading, TypeListener, TypeController DEF Next
  <2>2. CASE UNCHANGED vars
    BY <2>2 DEF vars, object, board, network, history, TypeOK, InCall
  <2>3. QED
    BY <2>1, <2>2
<1>3. QED
  BY <1>1, <1>2, PTL DEF Spec

(* mutex_sig_ is held exactly from Lock to the wait, and no answer is stored then. *)
LEMMA LockInvStep ==
  TypeOK /\ LockInv /\ NoLostWakeup /\ [Next]_vars => LockInv' /\ NoLostWakeup'
<1> SUFFICES ASSUME TypeOK, LockInv, NoLostWakeup, [Next]_vars PROVE LockInv' /\ NoLostWakeup'
  OBVIOUS
<1> USE DEF TypeOK, PCs, LockInv, NoLostWakeup, InCall, object, board, network, history
<1>1. CASE Life
  <2>1. CASE Create
    BY <2>1 DEF Create, Unmatched, NoNotice
  <2>2. CASE InitFails
    BY <2>2 DEF InitFails
  <2>3. CASE MatchBeforeInit
    BY <2>3 DEF MatchBeforeInit
  <2>4. CASE InitListeners
    BY <2>4 DEF InitListeners
  <2>5. CASE Connected
    BY <2>5 DEF Connected
  <2>6. CASE ConnectTimeout
    BY <2>6 DEF ConnectTimeout, DisconnectRC, NoCallback, NoResult
  <2>7. CASE CallerDisconnects
    BY <2>7 DEF CallerDisconnects, DisconnectRC, NoCallback, NoResult
  <2>8. QED
    BY <1>1, <2>1, <2>2, <2>3, <2>4, <2>5, <2>6, <2>7 DEF Life
<1>2. CASE Calling
  <2>1. CASE \E c \in Cmds : SendProc_Common(c)
    BY <2>1 DEF SendProc_Common
  <2>2. CASE SendProcNotConnected
    BY <2>2 DEF SendProcNotConnected, DisconnectRC, NoCallback, NoResult
  <2>3. CASE Lock
    BY <2>3 DEF Lock
  <2>4. CASE Write
    BY <2>4 DEF Write
  <2>5. CASE WriteFails
    BY <2>5 DEF WriteFails
  <2>6. CASE TimedWait
    BY <2>6 DEF TimedWait
  <2>7. CASE Expire
    BY <2>7 DEF Expire
  <2>8. CASE TimedOut
    BY <2>8 DEF TimedOut
  <2>9. CASE Accept
    BY <2>9 DEF Accept, Check_cmdID, Woken, CanGetRRDData, NoResult
  <2>10. CASE Reject
    BY <2>10 DEF Reject, Woken
  <2>11. CASE SendProcFailed
    BY <2>11 DEF SendProcFailed, DisconnectRC, NoCallback, NoResult
  <2>12. QED
    BY <1>2, <2>1, <2>2, <2>3, <2>4, <2>5, <2>6, <2>7, <2>8, <2>9, <2>10, <2>11 DEF Calling
<1>3. CASE Reading
  <2>1. ASSUME NEW k \in Notices, Get_NewStatus(k) PROVE LockInv' /\ NoLostWakeup'
    BY <2>1 DEF Get_NewStatus
  <2>2. CASE CopyNotice
    BY <2>2 DEF CopyNotice
  <2>3. CASE ClearNotice
    BY <2>3 DEF ClearNotice
  <2>4. CASE GetNewStatusFails
    BY <2>4 DEF GetNewStatusFails, DisconnectRC, NoCallback, NoResult
  <2>5. QED
    BY <1>3, <2>1, <2>2, <2>3, <2>4 DEF Reading
<1>4. CASE Listener
  <2>1. ASSUME NEW change \in Changes, on_publication_matched(change) PROVE LockInv' /\ NoLostWakeup'
    BY <2>1 DEF on_publication_matched, OnMatched, Changes
  <2>2. ASSUME NEW change \in Changes, on_subscription_matched(change) PROVE LockInv' /\ NoLostWakeup'
    BY <2>2 DEF on_subscription_matched, OnMatched
  <2>3. ASSUME NEW r \in answers, TakeAnswer(r) PROVE LockInv' /\ NoLostWakeup'
    BY <2>3 DEF TakeAnswer, NoCallback
  <2>4. CASE StoreAnswer
    BY <2>4 DEF StoreAnswer
  <2>5. ASSUME NEW n \in news, TakeNotice(n) PROVE LockInv' /\ NoLostWakeup'
    BY <2>5 DEF TakeNotice, NoCallback
  <2>6. ASSUME NEW n \in taken, StoreNotice(n[1], n[2]) PROVE LockInv' /\ NoLostWakeup'
    BY <2>6 DEF StoreNotice
  <2>7. ASSUME NEW n \in taken, MarkNotice(n[1], n[2]) PROVE LockInv' /\ NoLostWakeup'
    BY <2>7 DEF MarkNotice
  <2>8. CASE TakeFails
    BY <2>8 DEF TakeFails
  <2>9. QED
    BY <1>4, <2>1, <2>2, <2>3, <2>4, <2>5, <2>6, <2>7, <2>8 DEF Listener
<1>5. CASE Controller
  <2>1. ASSUME NEW r \in requests, RCAnswers(r) PROVE LockInv' /\ NoLostWakeup'
    BY <2>1 DEF RCAnswers
  <2>2. ASSUME NEW r \in requests, RCIgnores(r) PROVE LockInv' /\ NoLostWakeup'
    BY <2>2 DEF RCIgnores
  <2>3. ASSUME NEW r \in answers, AnswerLost(r) PROVE LockInv' /\ NoLostWakeup'
    BY <2>3 DEF AnswerLost
  <2>4. ASSUME NEW n \in news, NoticeLost(n) PROVE LockInv' /\ NoLostWakeup'
    BY <2>4 DEF NoticeLost
  <2>5. ASSUME NEW k \in Notices, RCNotifies(k) PROVE LockInv' /\ NoLostWakeup'
    BY <2>5 DEF RCNotifies
  <2>6. QED
    BY <1>5, <2>1, <2>2, <2>3, <2>4, <2>5 DEF Controller
<1>6. CASE UNCHANGED vars
  BY <1>6 DEF vars
<1>7. QED
  BY <1>1, <1>2, <1>3, <1>4, <1>5, <1>6 DEF Next


(* mutex_sig_ is held where the code says it is, and the caller never waits   *)
(* for an answer that the response slot already holds.                        *)
THEOREM LockCorrect == Spec => [](LockInv /\ NoLostWakeup)
<1>1. Init => LockInv /\ NoLostWakeup
  BY DEF Init, LockInv, NoLostWakeup, InCall, NoResult
<1>2. QED
  BY <1>1, LockInvStep, TypeCorrect, PTL DEF Spec

(* The mutex is held exactly while the request is written, and the slot does  *)
(* not hold its answer before the wait begins.                                *)
THEOREM LockHolds == Spec => []LockInv
BY LockCorrect, PTL

(* Every step keeps the outstanding answers where FreshInv says they are. *)
LEMMA FreshStep ==
  TypeOK /\ TypeOK' /\ LockInv /\ FreshInv /\ [Next]_vars => FreshInv'
<1> SUFFICES ASSUME TypeOK, TypeOK', LockInv, FreshInv, [Next]_vars PROVE FreshInv'
  OBVIOUS
<1> USE DEF TypeOK, PCs, LockInv, FreshInv, Outstanding, Clean, InCall, object, board, network, history
<1>1. CASE Life
  <2>1. CASE Create
    BY <2>1 DEF Create, Unmatched, NoNotice
  <2>2. CASE InitFails
    BY <2>2 DEF InitFails
  <2>3. CASE MatchBeforeInit
    BY <2>3 DEF MatchBeforeInit
  <2>4. CASE InitListeners
    BY <2>4 DEF InitListeners
  <2>5. CASE Connected
    BY <2>5 DEF Connected
  <2>6. CASE ConnectTimeout
    BY <2>6 DEF ConnectTimeout, DisconnectRC, NoCallback, NoResult
  <2>7. CASE CallerDisconnects
    BY <2>7 DEF CallerDisconnects, DisconnectRC, NoCallback, NoResult
  <2>8. QED
    BY <1>1, <2>1, <2>2, <2>3, <2>4, <2>5, <2>6, <2>7 DEF Life
<1>2. CASE Calling
  <2>1. CASE \E c \in Cmds : SendProc_Common(c)
    BY <2>1 DEF SendProc_Common
  <2>2. CASE SendProcNotConnected
    BY <2>2 DEF SendProcNotConnected, DisconnectRC, NoCallback, NoResult
  <2>3. CASE Lock
    BY <2>3 DEF Lock
  <2>4. CASE Write
    BY <2>4 DEF Write
  <2>5. CASE WriteFails
    BY <2>5 DEF WriteFails
  <2>6. CASE TimedWait
    BY <2>6 DEF TimedWait
  <2>7. CASE Expire
    BY <2>7 DEF Expire
  <2>8. CASE TimedOut
    BY <2>8 DEF TimedOut
  <2>9. CASE Accept
    BY <2>9 DEF Accept, Check_cmdID, Woken, CanGetRRDData, NoResult
  <2>10. CASE Reject
    BY <2>10 DEF Reject, Woken
  <2>11. CASE SendProcFailed
    BY <2>11 DEF SendProcFailed, DisconnectRC, NoCallback, NoResult
  <2>12. QED
    BY <1>2, <2>1, <2>2, <2>3, <2>4, <2>5, <2>6, <2>7, <2>8, <2>9, <2>10, <2>11 DEF Calling
<1>3. CASE Reading
  <2>1. ASSUME NEW k \in Notices, Get_NewStatus(k) PROVE FreshInv'
    BY <2>1 DEF Get_NewStatus
  <2>2. CASE CopyNotice
    BY <2>2 DEF CopyNotice
  <2>3. CASE ClearNotice
    BY <2>3 DEF ClearNotice
  <2>4. CASE GetNewStatusFails
    BY <2>4 DEF GetNewStatusFails, DisconnectRC, NoCallback, NoResult
  <2>5. QED
    BY <1>3, <2>1, <2>2, <2>3, <2>4 DEF Reading
<1>4. CASE Listener
  <2>1. ASSUME NEW change \in Changes, on_publication_matched(change) PROVE FreshInv'
    BY <2>1 DEF on_publication_matched, OnMatched, Changes
  <2>2. ASSUME NEW change \in Changes, on_subscription_matched(change) PROVE FreshInv'
    BY <2>2 DEF on_subscription_matched, OnMatched
  <2>3. ASSUME NEW r \in answers, TakeAnswer(r) PROVE FreshInv'
    BY <2>3 DEF TakeAnswer, NoCallback
  <2>4. CASE StoreAnswer
    BY <2>4 DEF StoreAnswer
  <2>5. ASSUME NEW n \in news, TakeNotice(n) PROVE FreshInv'
    BY <2>5 DEF TakeNotice, NoCallback
  <2>6. ASSUME NEW n \in taken, StoreNotice(n[1], n[2]) PROVE FreshInv'
    BY <2>6 DEF StoreNotice
  <2>7. ASSUME NEW n \in taken, MarkNotice(n[1], n[2]) PROVE FreshInv'
    BY <2>7 DEF MarkNotice
  <2>8. CASE TakeFails
    BY <2>8 DEF TakeFails
  <2>9. QED
    BY <1>4, <2>1, <2>2, <2>3, <2>4, <2>5, <2>6, <2>7, <2>8 DEF Listener
<1>5. CASE Controller
  <2>1. ASSUME NEW r \in requests, RCAnswers(r) PROVE FreshInv'
    <3>1. CASE Ready /\ sub.matched
      <4>1. /\ requests' = requests \ {r} /\ answers' = answers \union {r}
            /\ Outstanding' = Outstanding /\ hand' = hand
        BY <2>1, <3>1 DEF RCAnswers
      <4>2. late' = (late \/ r < first)
        BY <2>1, <3>1 DEF RCAnswers
      <4>3. QED
        BY <2>1, <3>1, <4>1, <4>2 DEF RCAnswers, Ready
    <3>2. CASE ~(Ready /\ sub.matched)
      BY <2>1, <3>2 DEF RCAnswers
    <3>3. QED
      BY <3>1, <3>2
  <2>2. ASSUME NEW r \in requests, RCIgnores(r) PROVE FreshInv'
    BY <2>2 DEF RCIgnores
  <2>3. ASSUME NEW r \in answers, AnswerLost(r) PROVE FreshInv'
    BY <2>3 DEF AnswerLost
  <2>4. ASSUME NEW n \in news, NoticeLost(n) PROVE FreshInv'
    BY <2>4 DEF NoticeLost
  <2>5. ASSUME NEW k \in Notices, RCNotifies(k) PROVE FreshInv'
    BY <2>5 DEF RCNotifies
  <2>6. QED
    BY <1>5, <2>1, <2>2, <2>3, <2>4, <2>5 DEF Controller
<1>6. CASE UNCHANGED vars
  BY <1>6 DEF vars
<1>7. QED
  BY <1>1, <1>2, <1>3, <1>4, <1>5, <1>6 DEF Next


(* Every step keeps the result of the last call fresh. *)
LEMMA ReplyStep ==
  TypeOK /\ LockInv /\ FreshInv /\ FreshUnlessLate /\ [Next]_vars => FreshUnlessLate'
<1> SUFFICES ASSUME TypeOK, LockInv, FreshInv, FreshUnlessLate, [Next]_vars PROVE FreshUnlessLate'
  OBVIOUS
<1> USE DEF TypeOK, PCs, LockInv, FreshInv, FreshUnlessLate, Clean, InCall, object, board, network, history
<1>1. CASE Life
  <2>1. CASE Create
    BY <2>1 DEF Create, Unmatched, NoNotice
  <2>2. CASE InitFails
    BY <2>2 DEF InitFails
  <2>3. CASE MatchBeforeInit
    BY <2>3 DEF MatchBeforeInit
  <2>4. CASE InitListeners
    BY <2>4 DEF InitListeners
  <2>5. CASE Connected
    BY <2>5 DEF Connected
  <2>6. CASE ConnectTimeout
    BY <2>6 DEF ConnectTimeout, DisconnectRC, NoCallback, NoResult
  <2>7. CASE CallerDisconnects
    BY <2>7 DEF CallerDisconnects, DisconnectRC, NoCallback, NoResult
  <2>8. QED
    BY <1>1, <2>1, <2>2, <2>3, <2>4, <2>5, <2>6, <2>7 DEF Life
<1>2. CASE Calling
  <2>1. CASE \E c \in Cmds : SendProc_Common(c)
    BY <2>1 DEF SendProc_Common
  <2>2. CASE SendProcNotConnected
    BY <2>2 DEF SendProcNotConnected, DisconnectRC, NoCallback, NoResult
  <2>3. CASE Lock
    BY <2>3 DEF Lock
  <2>4. CASE Write
    BY <2>4 DEF Write
  <2>5. CASE WriteFails
    BY <2>5 DEF WriteFails
  <2>6. CASE TimedWait
    BY <2>6 DEF TimedWait
  <2>7. CASE Expire
    BY <2>7 DEF Expire
  <2>8. CASE TimedOut
    BY <2>8 DEF TimedOut
  <2>9. CASE Accept
    BY <2>9 DEF Accept, Check_cmdID, Woken, CanGetRRDData, NoResult
  <2>10. CASE Reject
    BY <2>10 DEF Reject, Woken
  <2>11. CASE SendProcFailed
    BY <2>11 DEF SendProcFailed, DisconnectRC, NoCallback, NoResult
  <2>12. QED
    BY <1>2, <2>1, <2>2, <2>3, <2>4, <2>5, <2>6, <2>7, <2>8, <2>9, <2>10, <2>11 DEF Calling
<1>3. CASE Reading
  <2>1. ASSUME NEW k \in Notices, Get_NewStatus(k) PROVE FreshUnlessLate'
    BY <2>1 DEF Get_NewStatus
  <2>2. CASE CopyNotice
    BY <2>2 DEF CopyNotice
  <2>3. CASE ClearNotice
    BY <2>3 DEF ClearNotice
  <2>4. CASE GetNewStatusFails
    BY <2>4 DEF GetNewStatusFails, DisconnectRC, NoCallback, NoResult
  <2>5. QED
    BY <1>3, <2>1, <2>2, <2>3, <2>4 DEF Reading
<1>4. CASE Listener
  <2>1. ASSUME NEW change \in Changes, on_publication_matched(change) PROVE FreshUnlessLate'
    BY <2>1 DEF on_publication_matched, OnMatched, Changes
  <2>2. ASSUME NEW change \in Changes, on_subscription_matched(change) PROVE FreshUnlessLate'
    BY <2>2 DEF on_subscription_matched, OnMatched
  <2>3. ASSUME NEW r \in answers, TakeAnswer(r) PROVE FreshUnlessLate'
    BY <2>3 DEF TakeAnswer, NoCallback
  <2>4. CASE StoreAnswer
    BY <2>4 DEF StoreAnswer
  <2>5. ASSUME NEW n \in news, TakeNotice(n) PROVE FreshUnlessLate'
    BY <2>5 DEF TakeNotice, NoCallback
  <2>6. ASSUME NEW n \in taken, StoreNotice(n[1], n[2]) PROVE FreshUnlessLate'
    BY <2>6 DEF StoreNotice
  <2>7. ASSUME NEW n \in taken, MarkNotice(n[1], n[2]) PROVE FreshUnlessLate'
    BY <2>7 DEF MarkNotice
  <2>8. CASE TakeFails
    BY <2>8 DEF TakeFails
  <2>9. QED
    BY <1>4, <2>1, <2>2, <2>3, <2>4, <2>5, <2>6, <2>7, <2>8 DEF Listener
<1>5. CASE Controller
  <2>1. ASSUME NEW r \in requests, RCAnswers(r) PROVE FreshUnlessLate'
    BY <2>1 DEF RCAnswers
  <2>2. ASSUME NEW r \in requests, RCIgnores(r) PROVE FreshUnlessLate'
    BY <2>2 DEF RCIgnores
  <2>3. ASSUME NEW r \in answers, AnswerLost(r) PROVE FreshUnlessLate'
    BY <2>3 DEF AnswerLost
  <2>4. ASSUME NEW n \in news, NoticeLost(n) PROVE FreshUnlessLate'
    BY <2>4 DEF NoticeLost
  <2>5. ASSUME NEW k \in Notices, RCNotifies(k) PROVE FreshUnlessLate'
    BY <2>5 DEF RCNotifies
  <2>6. QED
    BY <1>5, <2>1, <2>2, <2>3, <2>4, <2>5 DEF Controller
<1>6. CASE UNCHANGED vars
  BY <1>6 DEF vars
<1>7. QED
  BY <1>1, <1>2, <1>3, <1>4, <1>5, <1>6 DEF Next

(* Whatever the numbers of commands, requests and sessions, a successful call *)
(* returns the answer to its own request unless the wait woke up unsignalled  *)
(* or a late answer to an earlier session came in.                            *)
THEOREM ReplyFresh == Spec => []FreshUnlessLate
<1>1. Init => FreshInv /\ FreshUnlessLate
  BY DEF Init, FreshInv, FreshUnlessLate, Outstanding, NoResult
<1>2. QED
  BY <1>1, FreshStep, ReplyStep, TypeCorrect, LockCorrect, PTL DEF Spec

(* In a session without a late answer or an unsignalled wakeup the only answer *)
(* that can still come is the one to the last request.                        *)
THEOREM OutstandingFresh == Spec => []FreshInv
<1>1. Init => FreshInv
  BY DEF Init, FreshInv, Outstanding, NoResult
<1>2. QED
  BY <1>1, FreshStep, TypeCorrect, LockCorrect, PTL DEF Spec


(* Every step keeps the last stored notice of a kind marked, or handed over. *)
LEMMA NoticeStep ==
  TypeOK /\ NoticeInv /\ LatestNoticeKept /\ [Next]_vars => NoticeInv' /\ LatestNoticeKept'
<1> SUFFICES ASSUME TypeOK, NoticeInv, LatestNoticeKept, [Next]_vars
             PROVE  NoticeInv' /\ LatestNoticeKept'
  OBVIOUS
<1> USE DEF TypeOK, NoticeInv, LatestNoticeKept, BeingStored, NoCallback, object, board, network, history
<1>1. CASE Life
  <2>1. CASE Create
    BY <2>1 DEF Create, Unmatched, NoNotice
  <2>2. CASE InitFails
    BY <2>2 DEF InitFails
  <2>3. CASE MatchBeforeInit
    BY <2>3 DEF MatchBeforeInit
  <2>4. CASE InitListeners
    BY <2>4 DEF InitListeners
  <2>5. CASE Connected
    BY <2>5 DEF Connected
  <2>6. CASE ConnectTimeout
    BY <2>6 DEF ConnectTimeout, DisconnectRC, NoCallback, NoResult
  <2>7. CASE CallerDisconnects
    BY <2>7 DEF CallerDisconnects, DisconnectRC, NoCallback, NoResult
  <2>8. QED
    BY <1>1, <2>1, <2>2, <2>3, <2>4, <2>5, <2>6, <2>7 DEF Life
<1>2. CASE Calling
  <2>1. CASE \E c \in Cmds : SendProc_Common(c)
    BY <2>1 DEF SendProc_Common
  <2>2. CASE SendProcNotConnected
    BY <2>2 DEF SendProcNotConnected, DisconnectRC, NoCallback, NoResult
  <2>3. CASE Lock
    BY <2>3 DEF Lock
  <2>4. CASE Write
    BY <2>4 DEF Write
  <2>5. CASE WriteFails
    BY <2>5 DEF WriteFails
  <2>6. CASE TimedWait
    BY <2>6 DEF TimedWait
  <2>7. CASE Expire
    BY <2>7 DEF Expire
  <2>8. CASE TimedOut
    BY <2>8 DEF TimedOut
  <2>9. CASE Accept
    BY <2>9 DEF Accept, Check_cmdID, Woken, CanGetRRDData, NoResult
  <2>10. CASE Reject
    BY <2>10 DEF Reject, Woken
  <2>11. CASE SendProcFailed
    BY <2>11 DEF SendProcFailed, DisconnectRC, NoCallback, NoResult
  <2>12. QED
    BY <1>2, <2>1, <2>2, <2>3, <2>4, <2>5, <2>6, <2>7, <2>8, <2>9, <2>10, <2>11 DEF Calling
<1>3. CASE Reading
  <2>1. ASSUME NEW k \in Notices, Get_NewStatus(k) PROVE NoticeInv' /\ LatestNoticeKept'
    BY <2>1 DEF Get_NewStatus
  <2>2. CASE CopyNotice
    BY <2>2 DEF CopyNotice
  <2>3. CASE ClearNotice
    BY <2>3 DEF ClearNotice
  <2>4. CASE GetNewStatusFails
    BY <2>4 DEF GetNewStatusFails, DisconnectRC, NoCallback, NoResult
  <2>5. QED
    BY <1>3, <2>1, <2>2, <2>3, <2>4 DEF Reading
<1>4. CASE Listener
  <2>1. ASSUME NEW change \in Changes, on_publication_matched(change) PROVE NoticeInv' /\ LatestNoticeKept'
    BY <2>1 DEF on_publication_matched, OnMatched, Changes
  <2>2. ASSUME NEW change \in Changes, on_subscription_matched(change) PROVE NoticeInv' /\ LatestNoticeKept'
    BY <2>2 DEF on_subscription_matched, OnMatched
  <2>3. ASSUME NEW r \in answers, TakeAnswer(r) PROVE NoticeInv' /\ LatestNoticeKept'
    BY <2>3 DEF TakeAnswer, NoCallback
  <2>4. CASE StoreAnswer
    BY <2>4 DEF StoreAnswer
  <2>5. ASSUME NEW n \in news, TakeNotice(n) PROVE NoticeInv' /\ LatestNoticeKept'
    BY <2>5 DEF TakeNotice, Ready
  <2>6. ASSUME NEW n \in taken, StoreNotice(n[1], n[2]) PROVE NoticeInv' /\ LatestNoticeKept'
    <3>1. /\ mutexRrd = "free" /\ mutexRrd' = "listener" /\ taken' = taken /\ pc' = pc
          /\ hand' = hand /\ seen' = seen /\ copy' = copy
          /\ notice' = [notice EXCEPT ![n[1]].version = n[2]]
      BY <2>6 DEF StoreNotice
    <3>2. NoticeInv'
      BY <2>6, <3>1
    <3>3. ASSUME NEW k \in Notices, ~notice'[k].new, ~BeingStored(k)'
          PROVE  notice'[k].version = seen'[k]
      <4>1. k # n[1]
        <5>1. n = <<n[1], n[2]>> /\ n[1] \in Notices
          BY <2>6
        <5>2. notice'[n[1]].version = n[2]
          BY <3>1, <5>1
        <5>3. QED
          BY <2>6, <3>1, <3>3, <5>1, <5>2
      <4>2. notice'[k] = notice[k]
        BY <3>1, <4>1
      <4>3. QED
        BY <3>1, <3>3, <4>2
    <3>4. QED
      BY <3>2, <3>3
  <2>7. ASSUME NEW n \in taken, MarkNotice(n[1], n[2]) PROVE NoticeInv' /\ LatestNoticeKept'
    <3>1. /\ mutexRrd = "listener" /\ mutexRrd' = "free" /\ taken' = {} /\ pc' = pc
          /\ hand' = hand /\ seen' = seen /\ copy' = copy
          /\ notice' = [notice EXCEPT ![n[1]].new = TRUE]
      BY <2>7 DEF MarkNotice
    <3>2. NoticeInv'
      BY <2>7, <3>1
    <3>3. ASSUME NEW k \in Notices, ~notice'[k].new
          PROVE  notice'[k].version = seen'[k]
      <4>1. k # n[1]
        BY <3>1, <3>3
      <4>2. notice'[k] = notice[k]
        BY <3>1, <4>1
      <4>3. ~BeingStored(k)
        BY <2>7, <4>1
      <4>4. QED
        BY <3>1, <3>3, <4>2, <4>3
    <3>4. QED
      BY <3>2, <3>3
  <2>8. CASE TakeFails
    BY <2>8 DEF TakeFails
  <2>9. QED
    BY <1>4, <2>1, <2>2, <2>3, <2>4, <2>5, <2>6, <2>7, <2>8 DEF Listener
<1>5. CASE Controller
  <2>1. ASSUME NEW r \in requests, RCAnswers(r) PROVE NoticeInv' /\ LatestNoticeKept'
    BY <2>1 DEF RCAnswers
  <2>2. ASSUME NEW r \in requests, RCIgnores(r) PROVE NoticeInv' /\ LatestNoticeKept'
    BY <2>2 DEF RCIgnores
  <2>3. ASSUME NEW r \in answers, AnswerLost(r) PROVE NoticeInv' /\ LatestNoticeKept'
    BY <2>3 DEF AnswerLost
  <2>4. ASSUME NEW n \in news, NoticeLost(n) PROVE NoticeInv' /\ LatestNoticeKept'
    BY <2>4 DEF NoticeLost
  <2>5. ASSUME NEW k \in Notices, RCNotifies(k) PROVE NoticeInv' /\ LatestNoticeKept'
    BY <2>5 DEF RCNotifies
  <2>6. QED
    BY <1>5, <2>1, <2>2, <2>3, <2>4, <2>5 DEF Controller
<1>6. CASE UNCHANGED vars
  BY <1>6 DEF vars
<1>7. QED
  BY <1>1, <1>2, <1>3, <1>4, <1>5, <1>6 DEF Next

(* For any set of notices the last one stored is handed over or still marked   *)
(* new.  That the mark cleared is that of the notice copied needs NoticeInv:   *)
(* while the caller is between its copy and the clearing, nothing is stored.   *)
THEOREM NoticesKept == Spec => [](NoticeInv /\ LatestNoticeKept)
<1>1. Init => NoticeInv /\ LatestNoticeKept
  BY DEF Init, NoticeInv, LatestNoticeKept, NoNotice
<1>2. QED
  BY <1>1, NoticeStep, TypeCorrect, PTL DEF Spec

(* A lost match stays visible in the flags for the life of the object.        *)
LossInv == lost => pub.disconnect \/ sub.disconnect


(* Every step keeps a lost match visible. *)
LEMMA LossStep ==
  TypeOK /\ LossInv /\ [Next]_vars => LossInv'
<1> SUFFICES ASSUME TypeOK, LossInv, [Next]_vars PROVE LossInv'
  OBVIOUS
<1> USE DEF TypeOK, LossInv, object, board, network, history
<1>1. CASE Life
  <2>1. CASE Create
    BY <2>1 DEF Create, Unmatched, NoNotice
  <2>2. CASE InitFails
    BY <2>2 DEF InitFails
  <2>3. CASE MatchBeforeInit
    BY <2>3 DEF MatchBeforeInit
  <2>4. CASE InitListeners
    BY <2>4 DEF InitListeners
  <2>5. CASE Connected
    BY <2>5 DEF Connected
  <2>6. CASE ConnectTimeout
    BY <2>6 DEF ConnectTimeout, DisconnectRC, NoCallback, NoResult
  <2>7. CASE CallerDisconnects
    BY <2>7 DEF CallerDisconnects, DisconnectRC, NoCallback, NoResult
  <2>8. QED
    BY <1>1, <2>1, <2>2, <2>3, <2>4, <2>5, <2>6, <2>7 DEF Life
<1>2. CASE Calling
  <2>1. CASE \E c \in Cmds : SendProc_Common(c)
    BY <2>1 DEF SendProc_Common
  <2>2. CASE SendProcNotConnected
    BY <2>2 DEF SendProcNotConnected, DisconnectRC, NoCallback, NoResult
  <2>3. CASE Lock
    BY <2>3 DEF Lock
  <2>4. CASE Write
    BY <2>4 DEF Write
  <2>5. CASE WriteFails
    BY <2>5 DEF WriteFails
  <2>6. CASE TimedWait
    BY <2>6 DEF TimedWait
  <2>7. CASE Expire
    BY <2>7 DEF Expire
  <2>8. CASE TimedOut
    BY <2>8 DEF TimedOut
  <2>9. CASE Accept
    BY <2>9 DEF Accept, Check_cmdID, Woken, CanGetRRDData, NoResult
  <2>10. CASE Reject
    BY <2>10 DEF Reject, Woken
  <2>11. CASE SendProcFailed
    BY <2>11 DEF SendProcFailed, DisconnectRC, NoCallback, NoResult
  <2>12. QED
    BY <1>2, <2>1, <2>2, <2>3, <2>4, <2>5, <2>6, <2>7, <2>8, <2>9, <2>10, <2>11 DEF Calling
<1>3. CASE Reading
  <2>1. ASSUME NEW k \in Notices, Get_NewStatus(k) PROVE LossInv'
    BY <2>1 DEF Get_NewStatus
  <2>2. CASE CopyNotice
    BY <2>2 DEF CopyNotice
  <2>3. CASE ClearNotice
    BY <2>3 DEF ClearNotice
  <2>4. CASE GetNewStatusFails
    BY <2>4 DEF GetNewStatusFails, DisconnectRC, NoCallback, NoResult
  <2>5. QED
    BY <1>3, <2>1, <2>2, <2>3, <2>4 DEF Reading
<1>4. CASE Listener
  <2>1. ASSUME NEW change \in Changes, on_publication_matched(change) PROVE LossInv'
    BY <2>1 DEF on_publication_matched, OnMatched, Changes
  <2>2. ASSUME NEW change \in Changes, on_subscription_matched(change) PROVE LossInv'
    BY <2>2 DEF on_subscription_matched, OnMatched
  <2>3. ASSUME NEW r \in answers, TakeAnswer(r) PROVE LossInv'
    BY <2>3 DEF TakeAnswer, NoCallback
  <2>4. CASE StoreAnswer
    BY <2>4 DEF StoreAnswer
  <2>5. ASSUME NEW n \in news, TakeNotice(n) PROVE LossInv'
    BY <2>5 DEF TakeNotice, NoCallback
  <2>6. ASSUME NEW n \in taken, StoreNotice(n[1], n[2]) PROVE LossInv'
    BY <2>6 DEF StoreNotice
  <2>7. ASSUME NEW n \in taken, MarkNotice(n[1], n[2]) PROVE LossInv'
    BY <2>7 DEF MarkNotice
  <2>8. CASE TakeFails
    BY <2>8 DEF TakeFails
  <2>9. QED
    BY <1>4, <2>1, <2>2, <2>3, <2>4, <2>5, <2>6, <2>7, <2>8 DEF Listener
<1>5. CASE Controller
  <2>1. ASSUME NEW r \in requests, RCAnswers(r) PROVE LossInv'
    BY <2>1 DEF RCAnswers
  <2>2. ASSUME NEW r \in requests, RCIgnores(r) PROVE LossInv'
    BY <2>2 DEF RCIgnores
  <2>3. ASSUME NEW r \in answers, AnswerLost(r) PROVE LossInv'
    BY <2>3 DEF AnswerLost
  <2>4. ASSUME NEW n \in news, NoticeLost(n) PROVE LossInv'
    BY <2>4 DEF NoticeLost
  <2>5. ASSUME NEW k \in Notices, RCNotifies(k) PROVE LossInv'
    BY <2>5 DEF RCNotifies
  <2>6. QED
    BY <1>5, <2>1, <2>2, <2>3, <2>4, <2>5 DEF Controller
<1>6. CASE UNCHANGED vars
  BY <1>6 DEF vars
<1>7. QED
  BY <1>1, <1>2, <1>3, <1>4, <1>5, <1>6 DEF Next

(* Once a match is lost the object never starts another request, however often*)
(* the endpoints match again.                                                 *)
THEOREM LossIsFinal == Spec => NoCallAfterLoss
<1>1. Init => LossInv
  BY DEF Init, LossInv
<1>2. TypeOK /\ LossInv /\ [Next]_vars => [lost /\ pc = "open" => pc' # "locking"]_vars
  <2> SUFFICES ASSUME LossInv, [Next]_vars, lost, pc = "open", pc' = "locking" PROVE FALSE
    OBVIOUS
  <2>1. ~DDSConnection
    BY DEF LossInv, DDSConnection, publisher_connection, subscriber_connection
  <2> USE DEF object, board, network, history
  <2>2. ~Life
    BY DEF Life, Create, InitFails, MatchBeforeInit, InitListeners, Connected,
           ConnectTimeout, CallerDisconnects, DisconnectRC
  <2>3. ~Calling
    BY <2>1 DEF Calling, SendProc_Common, SendProcNotConnected, Lock, Write, WriteFails,
           TimedWait, Expire, TimedOut, Accept, Reject, SendProcFailed, DisconnectRC
  <2>4. ~Reading
    BY DEF Reading, Get_NewStatus, CopyNotice, ClearNotice, GetNewStatusFails, DisconnectRC
  <2>5. ~Listener
    BY DEF Listener, on_publication_matched, on_subscription_matched, TakeAnswer,
           StoreAnswer, TakeNotice, StoreNotice, MarkNotice,
           TakeFails
  <2>6. ~Controller
    BY DEF Controller, RCAnswers, RCIgnores, AnswerLost, NoticeLost, RCNotifies
  <2>7. ~UNCHANGED vars
    BY DEF vars
  <2>8. QED
    BY <2>2, <2>3, <2>4, <2>5, <2>6, <2>7 DEF Next
<1>3. QED
  BY <1>1, <1>2, LossStep, TypeCorrect, PTL DEF Spec, NoCallAfterLoss


(* Every step is a step of the contract or leaves it as it is. *)
LEMMA ContractStep ==
  TypeOK /\ TypeOK' /\ LockInv /\ [Next]_vars => [RR!Next]_(RR!rrVars)
<1> SUFFICES ASSUME TypeOK, TypeOK', LockInv, [Next]_vars PROVE [RR!Next]_(RR!rrVars)
  OBVIOUS
<1> USE DEF TypeOK, PCs, LockInv, InCall, phaseOf, answeredOf, NoResult, object, board, network, history,
           RR!Next, RR!Open, RR!Call, RR!Succeed, RR!Hangup, RR!rrVars
<1>1. CASE Life
  <2>1. CASE Create
    BY <2>1 DEF Create, Unmatched, NoNotice
  <2>2. CASE InitFails
    BY <2>2 DEF InitFails
  <2>3. CASE MatchBeforeInit
    BY <2>3 DEF MatchBeforeInit
  <2>4. CASE InitListeners
    BY <2>4 DEF InitListeners
  <2>5. CASE Connected
    BY <2>5 DEF Connected
  <2>6. CASE ConnectTimeout
    BY <2>6 DEF ConnectTimeout, DisconnectRC, NoCallback, NoResult
  <2>7. CASE CallerDisconnects
    BY <2>7 DEF CallerDisconnects, DisconnectRC, NoCallback, NoResult
  <2>8. QED
    BY <1>1, <2>1, <2>2, <2>3, <2>4, <2>5, <2>6, <2>7 DEF Life
<1>2. CASE Calling
  <2>1. CASE \E c \in Cmds : SendProc_Common(c)
    BY <2>1 DEF SendProc_Common
  <2>2. CASE SendProcNotConnected
    BY <2>2 DEF SendProcNotConnected, DisconnectRC, NoCallback, NoResult
  <2>3. CASE Lock
    BY <2>3 DEF Lock
  <2>4. CASE Write
    BY <2>4 DEF Write
  <2>5. CASE WriteFails
    BY <2>5 DEF WriteFails
  <2>6. CASE TimedWait
    BY <2>6 DEF TimedWait
  <2>7. CASE Expire
    BY <2>7 DEF Expire
  <2>8. CASE TimedOut
    BY <2>8 DEF TimedOut
  <2>9. CASE Accept
    BY <2>9 DEF Accept, Check_cmdID, Woken, CanGetRRDData, NoResult
  <2>10. CASE Reject
    BY <2>10 DEF Reject, Woken
  <2>11. CASE SendProcFailed
    BY <2>11 DEF SendProcFailed, DisconnectRC, NoCallback, NoResult
  <2>12. QED
    BY <1>2, <2>1, <2>2, <2>3, <2>4, <2>5, <2>6, <2>7, <2>8, <2>9, <2>10, <2>11 DEF Calling
<1>3. CASE Reading
  <2>1. ASSUME NEW k \in Notices, Get_NewStatus(k) PROVE [RR!Next]_(RR!rrVars)
    BY <2>1 DEF Get_NewStatus
  <2>2. CASE CopyNotice
    BY <2>2 DEF CopyNotice
  <2>3. CASE ClearNotice
    BY <2>3 DEF ClearNotice
  <2>4. CASE GetNewStatusFails
    BY <2>4 DEF GetNewStatusFails, DisconnectRC, NoCallback, NoResult
  <2>5. QED
    BY <1>3, <2>1, <2>2, <2>3, <2>4 DEF Reading
<1>4. CASE Listener
  <2>1. ASSUME NEW change \in Changes, on_publication_matched(change) PROVE [RR!Next]_(RR!rrVars)
    BY <2>1 DEF on_publication_matched, OnMatched, Changes
  <2>2. ASSUME NEW change \in Changes, on_subscription_matched(change) PROVE [RR!Next]_(RR!rrVars)
    BY <2>2 DEF on_subscription_matched, OnMatched
  <2>3. ASSUME NEW r \in answers, TakeAnswer(r) PROVE [RR!Next]_(RR!rrVars)
    BY <2>3 DEF TakeAnswer, NoCallback
  <2>4. CASE StoreAnswer
    BY <2>4 DEF StoreAnswer
  <2>5. ASSUME NEW n \in news, TakeNotice(n) PROVE [RR!Next]_(RR!rrVars)
    BY <2>5 DEF TakeNotice, NoCallback
  <2>6. ASSUME NEW n \in taken, StoreNotice(n[1], n[2]) PROVE [RR!Next]_(RR!rrVars)
    BY <2>6 DEF StoreNotice
  <2>7. ASSUME NEW n \in taken, MarkNotice(n[1], n[2]) PROVE [RR!Next]_(RR!rrVars)
    BY <2>7 DEF MarkNotice
  <2>8. CASE TakeFails
    BY <2>8 DEF TakeFails
  <2>9. QED
    BY <1>4, <2>1, <2>2, <2>3, <2>4, <2>5, <2>6, <2>7, <2>8 DEF Listener
<1>5. CASE Controller
  <2>1. ASSUME NEW r \in requests, RCAnswers(r) PROVE [RR!Next]_(RR!rrVars)
    BY <2>1 DEF RCAnswers
  <2>2. ASSUME NEW r \in requests, RCIgnores(r) PROVE [RR!Next]_(RR!rrVars)
    BY <2>2 DEF RCIgnores
  <2>3. ASSUME NEW r \in answers, AnswerLost(r) PROVE [RR!Next]_(RR!rrVars)
    BY <2>3 DEF AnswerLost
  <2>4. ASSUME NEW n \in news, NoticeLost(n) PROVE [RR!Next]_(RR!rrVars)
    BY <2>4 DEF NoticeLost
  <2>5. ASSUME NEW k \in Notices, RCNotifies(k) PROVE [RR!Next]_(RR!rrVars)
    BY <2>5 DEF RCNotifies
  <2>6. QED
    BY <1>5, <2>1, <2>2, <2>3, <2>4, <2>5 DEF Controller
<1>6. CASE UNCHANGED vars
  BY <1>6 DEF vars
<1>7. QED
  BY <1>1, <1>2, <1>3, <1>4, <1>5, <1>6 DEF Next

(* The detailed object implements the contract on which the client API is     *)
(* written, for every set of commands and every bound.                        *)
THEOREM Implements == Spec => Contract
<1>1. Init => RR!Init
  BY DEF Init, RR!Init, phaseOf, answeredOf, NoResult
<1>2. QED
  BY <1>1, ContractStep, TypeCorrect, LockCorrect, PTL DEF Spec, Contract, RR!Spec

(* The steps that the call may still take. *)
Remaining == CASE pc = "locking" -> 6
               [] pc = "locked"  -> 5
               [] pc = "sent"    -> 4
               [] pc = "waiting" -> IF cond = "waiting" THEN 3 ELSE 2
               [] pc = "failed"  -> 1
               [] OTHER -> 0

StepOfCall == \/ Lock \/ Write \/ WriteFails \/ TimedWait \/ Expire \/ TimedOut
              \/ Accept \/ Reject \/ SendProcFailed

(* Each step of DDS_Send, the end of its wait included, brings it nearer to    *)
(* its return, and nothing that the listener, the controller or the network   *)
(* does sets it back; nor does the caller ever wait for a mutex that nobody   *)
(* is about to release.                                                       *)
RequestAdvances ==
  [][/\ StepOfCall => Remaining' < Remaining
     /\ pc \in InCall => Remaining' <= Remaining
     /\ pc \in {"locking", "waiting"} => mutexSig = "free"]_vars

LEMMA OwnSteps == TypeOK /\ LockInv /\ StepOfCall => Remaining' < Remaining
<1> SUFFICES ASSUME TypeOK, LockInv, StepOfCall PROVE Remaining' < Remaining
  OBVIOUS
<1> USE DEF Remaining
<1>1. CASE Lock
  BY <1>1 DEF Lock
<1>2. CASE Write \/ WriteFails
  BY <1>2 DEF Write, WriteFails
<1>3. CASE TimedWait
  BY <1>3 DEF TimedWait
<1>4. CASE Expire
  <2>1. pc = "waiting" /\ pc' = pc
    BY <1>4 DEF Expire, LockInv
  <2>2. QED
    BY <1>4, <2>1 DEF Expire
<1>5. CASE TimedOut
  BY <1>5 DEF TimedOut
<1>6. CASE Accept \/ Reject
  BY <1>6 DEF Accept, Reject
<1>7. CASE SendProcFailed
  BY <1>7 DEF SendProcFailed, DisconnectRC
<1>8. QED
  BY <1>1, <1>2, <1>3, <1>4, <1>5, <1>6, <1>7 DEF StepOfCall

(* The other steps leave a call where it is; an answer ends its wait. *)
LEMMA OtherSteps ==
  TypeOK /\ LockInv /\ [Next]_vars /\ ~StepOfCall /\ pc \in InCall => Remaining' <= Remaining
<1> SUFFICES ASSUME LockInv, [Next]_vars, ~StepOfCall, pc \in InCall
             PROVE  Remaining' <= Remaining
  OBVIOUS
<1>1. ~Life /\ ~Calling /\ ~Reading
  BY DEF InCall, StepOfCall, Life, Create, InitFails, MatchBeforeInit, InitListeners, Connected,
         ConnectTimeout, CallerDisconnects, Calling, SendProc_Common, SendProcNotConnected,
         Reading, Get_NewStatus, CopyNotice, ClearNotice, GetNewStatusFails
<1>2. CASE Listener
  <2>1. pc' = pc /\ (cond' = "waiting" => cond = "waiting")
    BY <1>2 DEF Listener, on_publication_matched, on_subscription_matched, TakeAnswer,
                StoreAnswer, TakeNotice, StoreNotice, MarkNotice,
           TakeFails
  <2>2. QED
    BY <2>1 DEF Remaining
<1>3. CASE Controller
  <2>1. pc' = pc /\ cond' = cond
    BY <1>3 DEF Controller, RCAnswers, RCIgnores, AnswerLost, NoticeLost, RCNotifies, object
  <2>2. QED
    BY <2>1 DEF Remaining
<1>4. CASE UNCHANGED vars
  BY <1>4 DEF Remaining, vars, object
<1>5. QED
  BY <1>1, <1>2, <1>3, <1>4 DEF Next

(* A request takes at most six steps, and no order of callbacks, losses and    *)
(* answers makes it more.  CallReturns rests on this and on fairness.          *)
THEOREM RequestReturns == Spec => RequestAdvances
<1>1. TypeOK /\ LockInv /\ [Next]_vars =>
        [/\ StepOfCall => Remaining' < Remaining
         /\ pc \in InCall => Remaining' <= Remaining
         /\ pc \in {"locking", "waiting"} => mutexSig = "free"]_vars
  <2>1. ASSUME TypeOK, LockInv, [Next]_vars
        PROVE  /\ StepOfCall => Remaining' < Remaining
               /\ pc \in InCall => Remaining' <= Remaining
               /\ pc \in {"locking", "waiting"} => mutexSig = "free"
    <3>1. Remaining \in Nat /\ Remaining' \in Nat
      BY DEF Remaining
    <3>2. pc \in {"locking", "waiting"} => mutexSig = "free"
      BY <2>1 DEF TypeOK, LockInv
    <3>3. QED
      BY <2>1, <3>1, <3>2, OwnSteps, OtherSteps
  <2>2. QED
    BY <2>1
<1>2. QED
  BY <1>1, TypeCorrect, LockHolds, PTL DEF Spec, RequestAdvances

=================================================================================
