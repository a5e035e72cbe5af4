---------------------------- MODULE RCStatus_proofs ----------------------------
(***************************************************************************)
(* The copies of the status and the position, for any numbers, additional   *)
(* information, length of the controller's history and any interleaving of  *)
(* calls, answers and notices.                                               *)
(***************************************************************************)
EXTENDS RCStatus, TLAPS

(* The controller has a status, and the object was made in its time.          *)
Times == /\ log # << >>
         /\ open => base.log \in 1 .. Len(log) /\ base.pos \in 0 .. pos

(* What a sample says the controller said since the object was made.          *)
Recent(topic, at) == IF topic = "status" THEN base.log <= at /\ at <= Len(log)
                     ELSE base.pos <= at /\ at <= pos

(* A positive answer is as recent as its request, and to a request for a      *)
(* position as recent as the call.                                            *)
RecentAnswer(sample) ==
  sample.ok => IF stage = "SYS_REQ_RC_STATUS" THEN Recent("status", sample.at)
               ELSE Recent("position", sample.at) /\ begun <= sample.at

Samples ==
  /\ reader.topic \in Topics => Recent(reader.topic, reader.at)
  /\ reader.topic = "answer" => pc = "waiting" /\ ~pending /\ RecentAnswer(reader)
  /\ slot # NoSample => /\ pc = "waiting" /\ ~pending /\ reader.topic # "answer"
                        /\ RecentAnswer(slot)
  /\ pending => pc = "waiting"
  /\ \A t \in Topics : notice[t].new => Recent(t, notice[t].at)

(* The place a call has reached, with its request.                            *)
ConnectStages == {"REQ_CONNECT", "SYS_REQ_CURPOS_INFO", "SYS_REQ_RC_STATUS",
     "SYS_REQ_RC_ERRMSG",
                  "SYS_REQ_RTMC_FORMAT_INFO"}

Places ==
  /\ pc = "idle" => call = "none" /\ stage = "none"
  /\ pc = "entered" => call # "none" /\ stage = "none" /\ ret = "none"
  /\ pc = "updated" => call \in {"status", "position"} /\ stage = "none" /\ open /\ ret = "none"
  /\ pc = "reading" => call = "position" /\ stage \in {"none",
       "REQ_GET_CURPOS_INFO"} /\ open /\ ret = "none"
  /\ pc \in {"sending", "waiting"} =>
       /\ open /\ ret = "none"
       /\ \/ call = "connect" /\ stage \in ConnectStages
          \/ call \in {"status", "position"} /\ stage = "SYS_REQ_RC_ERRMSG"
          \/ call = "position" /\ stage = "REQ_GET_CURPOS_INFO"
          \/ call = "exec" /\ stage = "REQ_EXEC_RTPOS"

(* In a connection the position is copied first and the status next.          *)
Learned ==
  /\ open /\ stage \notin {"REQ_CONNECT", "SYS_REQ_CURPOS_INFO"} => learned
  /\ open /\ stage \notin {"REQ_CONNECT", "SYS_REQ_CURPOS_INFO",
       "SYS_REQ_RC_STATUS"} => known # 0
  /\ learned \/ known # 0 => open
  /\ learned => base.pos <= ja

IInv == /\ TypeOK /\ Times /\ Samples /\ Places /\ Learned
        /\ Snapshot /\ InfoOfNumber /\ MessageOfNumber /\ CurrentFromAnswer
----------------------------------------------------------------------------------
CacheSet == [mode : Modes, num : [Kinds -> Numbers], info : [Kinds -> Infos],
     msg : [Kinds -> Numbers]]

(* A status of the controller that is copied leaves every number with its      *)
(* additional information, whatever was copied before.                         *)
LEMMA AbsorbKeeps ==
  ASSUME TypeOK, NEW v \in 1 .. Len(log), cache' = Absorb(log[v]), log' = log
  PROVE  /\ cache' \in CacheSet
         /\ cache'.mode = log[v].mode /\ cache'.num = log[v].num /\ cache'.msg = cache.msg
         /\ InfoOfNumber => InfoOfNumber'
<1>1. log[v] \in Status /\ cache \in CacheSet
  BY DEF TypeOK, CacheSet
<1>2. /\ log[v] \in [mode : Modes, num : [Kinds -> Numbers], info : [Kinds -> Infos]]
      /\ \A k \in Kinds : log[v].num[k] = 0 => log[v].info[k] = 0
  BY <1>1 DEF Status
<1>3. /\ cache'.mode = log[v].mode /\ cache'.num = log[v].num /\ cache'.msg = cache.msg
      /\ \A k \in Kinds : cache'.info[k] = IF cache.num[k] # log[v].num[k] THEN log[v].info[k]
                                                                         ELSE cache.info[k]
  BY <1>1 DEF Absorb, CacheSet
<1>4. cache' \in CacheSet
  BY <1>1, <1>2 DEF Absorb, CacheSet
<1>5. ASSUME InfoOfNumber PROVE InfoOfNumber'
  <2>1. SUFFICES ASSUME NEW k \in Kinds
                 PROVE  IF cache'.num[k] = 0 THEN cache'.info[k] = 0
                        ELSE \E w \in 1 .. Len(log) :
                               log[w].num[k] = cache'.num[k] /\ log[w].info[k] = cache'.info[k]
    BY DEF InfoOfNumber
  <2>2. CASE cache.num[k] # log[v].num[k]
    BY <1>2, <1>3, <2>2
  <2>3. CASE cache.num[k] = log[v].num[k]
    BY <1>3, <1>5, <2>3 DEF InfoOfNumber
  <2>4. QED
    BY <2>2, <2>3
<1>6. QED
  BY <1>3, <1>4, <1>5

(* Every step keeps the types. *)
LEMMA TypeStep == IInv /\ [Next]_vars => TypeOK'
<1> SUFFICES ASSUME IInv, [Next]_vars PROVE TypeOK'
  OBVIOUS
<1> USE DEF IInv, TypeOK, Return, Ask, Goto, Keep, Use, Drop, DisconnectRC, Answered,
     client, copies, connection, delivery, robot, Others, vars
<1>1. CASE UNCHANGED vars
  BY <1>1 DEF vars
<1>2. CASE \E c \in Calls : Start(c)
  BY <1>2 DEF Start, Calls
<1>3. CASE OtherCallDisconnects
  BY <1>3 DEF OtherCallDisconnects, NoSample, NoNotice, NoBase, NoNotices, Topics, SampleSet
<1>4. CASE AlreadyConnected
  BY <1>4 DEF AlreadyConnected, Stages
<1>5. CASE ConnectCleans
  BY <1>5 DEF ConnectCleans, NoSample, NoNotice, NoBase, NoNotices, Topics, SampleSet
<1>6. CASE ConnectFails
  BY <1>6 DEF ConnectFails, Stages
<1>7. CASE Connected
  BY <1>7 DEF Connected, Stages, NoBase
<1>8. CASE ConnectionAccepted
  BY <1>8 DEF ConnectionAccepted, Stages, NoSample, SampleSet
<1>9. CASE ConnectPosition
  BY <1>9 DEF ConnectPosition, Stages, NoSample, SampleSet, Samples, RecentAnswer, Recent, Times
<1>10. CASE ConnectStatus
  <2>1. slot.at \in 1 .. Len(log) /\ cache' = Absorb(log[slot.at]) /\ known' = slot.at
    <3>1. slot # NoSample /\ slot.ok /\ stage = "SYS_REQ_RC_STATUS" /\ pc = "waiting"
      BY <1>10 DEF ConnectStatus
    <3>2. slot.at \in Nat /\ open
      BY <3>1 DEF SampleSet, Places
    <3>3. slot.at \in 1 .. Len(log)
      BY <3>1, <3>2 DEF Samples, RecentAnswer, Recent, Times
    <3>4. QED
      BY <1>10, <3>3 DEF ConnectStatus, Update_RCSts_Core
  <2>2. UNCHANGED <<call, ret, ja, open, link, reader, notice, pending, log, pos, base,
       begun, learned, missed>>
    BY <1>10 DEF ConnectStatus, Update_RCSts_Core
  <2>3. pc' = "sending" /\ stage' \in Stages
    BY <1>10 DEF ConnectStatus, Update_RCSts_Core, Stages
  <2>4. slot' = NoSample /\ slot' \in SampleSet
    BY <1>10 DEF ConnectStatus, NoSample, SampleSet
  <2>5. known' \in Nat /\ cache' \in CacheSet
    BY <2>1, <2>2, AbsorbKeeps DEF CacheSet
  <2>6. QED
    BY <2>2, <2>3, <2>4, <2>5 DEF CacheSet
<1>11. CASE ConnectSucceeds
  BY <1>11 DEF ConnectSucceeds, Stages, NoSample, SampleSet
<1>12. CASE NotConnected
  BY <1>12 DEF NotConnected, Stages
<1>13. CASE Disconnected
  BY <1>13 DEF Disconnected, NoSample, NoNotice, NoBase, NoNotices, Topics, SampleSet,
       Stages, Fetching
<1>14. CASE Update_RCSts
  <2>1. IF notice["status"].new
          THEN /\ notice["status"].at \in 1 .. Len(log)
               /\ cache' = Absorb(log[notice["status"].at]) /\ known' = notice["status"].at
          ELSE UNCHANGED <<cache, known>>
    BY <1>14 DEF Update_RCSts, Update_RCSts_Core, Samples, Recent, Times, Topics
  <2>2. UNCHANGED <<call, ret, ja, open, link, reader, slot, pending, log, pos, base, begun,
       learned, missed>>
    BY <1>14 DEF Update_RCSts, Update_RCSts_Core
  <2>3. pc' \in {"sending", "updated"} /\ stage' \in Stages
    BY <1>14 DEF Update_RCSts, Update_RCSts_Core, Stages
  <2>4. open /\ notice' \in [Topics -> [at : Nat, new : BOOLEAN]]
    BY <1>14 DEF Update_RCSts, Topics, NoNotice
  <2>5. known' \in Nat /\ cache' \in CacheSet
    BY <2>1, <2>2, AbsorbKeeps DEF CacheSet
  <2>6. QED
    BY <2>2, <2>3, <2>4, <2>5 DEF CacheSet
<1>15. CASE UpdateFails
  BY <1>15 DEF UpdateFails, NoSample, NoNotice, NoBase, NoNotices, Topics, SampleSet,
       Stages, Fetching
<1>16. CASE Get_RCStatus
  BY <1>16 DEF Get_RCStatus, Stages
<1>17. CASE Get_CurrentJA
  BY <1>17 DEF Get_CurrentJA, Stages
<1>18. CASE Update_CurJA
  BY <1>18 DEF Update_CurJA, Stages, Samples, Recent, Places, Topics, NoNotice, Times
<1>19. CASE Exec_RTMC
  BY <1>19 DEF Exec_RTMC, Stages
<1>20. CASE Send
  BY <1>20 DEF Send, Places
<1>21. CASE SendNotConnected
  BY <1>21 DEF SendNotConnected, NoSample, NoNotice, NoBase, NoNotices, Topics, SampleSet,
       Stages, Fetching
<1>22. CASE SendFails
  BY <1>22 DEF SendFails, NoSample, NoNotice, NoBase, NoNotices, Topics, SampleSet, Stages,
       Fetching
<1>23. CASE Refused
  <2>1. CASE Drops
    <3>1. /\ UNCHANGED <<cache, ja, log, pos, begun>>
          /\ pc' = "idle" /\ call' = "none" /\ stage' = "none" /\ ret' = "none"
      BY <1>23, <2>1 DEF Refused
    <3>2. /\ open' = FALSE /\ link' = FALSE /\ pending' = FALSE /\ known' = 0 /\ learned' = FALSE
          /\ base' = NoBase /\ reader' = NoSample /\ slot' = NoSample /\ notice' = NoNotices
          /\ missed' = (missed \/ Fetching)
      BY <1>23, <2>1 DEF Refused
    <3>3. NoSample \in SampleSet /\ NoNotices \in [Topics -> [at : Nat, new : BOOLEAN]]
      BY DEF NoSample, SampleSet, NoNotices, NoNotice
    <3>4. QED
      BY <3>1, <3>2, <3>3 DEF NoBase, NoNotices, Stages
  <2>2. CASE ~Drops
    <3>1. UNCHANGED <<cache, ja, open, link, reader, notice, pending, log, pos, base, begun,
         known, learned>>
      BY <1>23, <2>2 DEF Refused
    <3>2. pc' = "idle" /\ call' = "none" /\ stage' = "none" /\ ret' = "none"
      BY <1>23, <2>2 DEF Refused
    <3>3. slot' = NoSample
      BY <1>23, <2>2 DEF Refused
    <3>4. missed' = (missed \/ Fetching)
      BY <1>23, <2>2 DEF Refused
    <3>5. NoSample \in SampleSet
      BY DEF NoSample, SampleSet
    <3>6. QED
      BY <3>1, <3>2, <3>3, <3>4, <3>5 DEF Stages
  <2>3. QED
    BY <2>1, <2>2
<1>24. CASE FallBack
  BY <1>24 DEF FallBack, FallsBack, NoSample, SampleSet
<1>25. CASE MessagesCome
  <2>1. UNCHANGED <<call, ret, ja, open, link, reader, notice, pending, log, pos, base,
       begun, known, learned>>
    BY <1>25 DEF MessagesCome
  <2>2. pc' \in {"sending", "updated"} /\ stage' \in Stages /\ ~missed' /\ missed' \in BOOLEAN
    BY <1>25 DEF MessagesCome, Stages
  <2>3. slot' = NoSample /\ slot' \in SampleSet
    BY <1>25 DEF MessagesCome, NoSample, SampleSet
  <2>4. cache' \in CacheSet
    BY <1>25 DEF MessagesCome, Messages, CacheSet
  <2>5. QED
    BY <2>1, <2>2, <2>3, <2>4 DEF CacheSet
<1>26. CASE PositionComes
  BY <1>26 DEF PositionComes, AnsweredPosition, Stages, NoSample, SampleSet, Samples,
       RecentAnswer, Recent, Times, Places
<1>27. CASE StoreAnswer
  BY <1>27 DEF StoreAnswer, NoSample, SampleSet
<1>28. CASE StoreNotice
  BY <1>28 DEF StoreNotice, NoSample, SampleSet, Topics
<1>29. CASE \E t \in Topics : RCNotifies(t)
  BY <1>29 DEF RCNotifies, Current, SampleSet, Topics
<1>30. CASE RCAnswers
  <2>1. UNCHANGED <<pc, call, stage, ret, cache, ja, open, link, slot, notice, log, pos,
       base, begun, known, learned, missed>>
    BY <1>30 DEF RCAnswers
  <2>2. pending /\ open
    BY <1>30 DEF RCAnswers
  <2>3. ~pending' /\ pending' \in BOOLEAN
    BY <1>30 DEF RCAnswers
  <2>4. reader' \in SampleSet
    BY <1>30 DEF RCAnswers, Asked, SampleSet
  <2>5. QED
    BY <2>1, <2>2, <2>3, <2>4
<1>31. CASE RCRefuses
  <2>1. UNCHANGED <<pc, call, stage, ret, cache, ja, open, link, slot, notice, log, pos,
       base, begun, known, learned, missed>>
    BY <1>31 DEF RCRefuses
  <2>2. pending /\ open
    BY <1>31 DEF RCRefuses
  <2>3. ~pending' /\ pending' \in BOOLEAN
    BY <1>31 DEF RCRefuses
  <2>4. reader' \in SampleSet
    BY <1>31 DEF RCRefuses, SampleSet
  <2>5. QED
    BY <2>1, <2>2, <2>3, <2>4
<1>32. CASE SampleLost
  BY <1>32 DEF SampleLost, NoSample, SampleSet
<1>33. CASE LinkLost
  <2>1. UNCHANGED <<pc, call, stage, ret, cache, ja, open, reader, slot, notice, pending,
       log, pos, base, begun, known, learned, missed>>
    BY <1>33 DEF LinkLost
  <2>2. ~link' /\ link' \in BOOLEAN
    BY <1>33 DEF LinkLost
  <2>3. QED
    BY <2>1, <2>2
<1>34. CASE RCChanges
  BY <1>34 DEF RCChanges
<1>35. CASE RobotMoves
  BY <1>35 DEF RobotMoves
<1>36. QED
  BY <1>1, <1>2, <1>3, <1>4, <1>5, <1>6, <1>7, <1>8, <1>9, <1>10, <1>11, <1>12, <1>13,
       <1>14, <1>15, <1>16, <1>17, <1>18, <1>19, <1>20, <1>21, <1>22, <1>23, <1>24, <1>25,
            <1>26, <1>27, <1>28, <1>29, <1>30, <1>31, <1>32, <1>33, <1>34, <1>35
     DEF Next, Connecting, Reading, Asking, Listener, Controller

(* The controller's history only grows. *)
LEMMA TimesStep == IInv /\ [Next]_vars => Times'
<1> SUFFICES ASSUME IInv, [Next]_vars PROVE Times'
  OBVIOUS
<1> USE DEF IInv, TypeOK, Times, NoBase, Return, Ask, Goto, Keep, Use, Drop, DisconnectRC,
     Answered, client, copies, connection, delivery, robot, Others, vars
<1>1. CASE UNCHANGED vars
  BY <1>1 DEF vars
<1>2. CASE \E c \in Calls : Start(c)
  BY <1>2 DEF Start
<1>3. CASE OtherCallDisconnects
  BY <1>3 DEF OtherCallDisconnects
<1>4. CASE AlreadyConnected
  BY <1>4 DEF AlreadyConnected
<1>5. CASE ConnectCleans
  BY <1>5 DEF ConnectCleans
<1>6. CASE ConnectFails
  BY <1>6 DEF ConnectFails
<1>7. CASE Connected
  BY <1>7 DEF Connected
<1>8. CASE ConnectionAccepted
  BY <1>8 DEF ConnectionAccepted
<1>9. CASE ConnectPosition
  BY <1>9 DEF ConnectPosition
<1>10. CASE ConnectStatus
  BY <1>10 DEF ConnectStatus, Update_RCSts_Core
<1>11. CASE ConnectSucceeds
  BY <1>11 DEF ConnectSucceeds
<1>12. CASE NotConnected
  BY <1>12 DEF NotConnected
<1>13. CASE Disconnected
  BY <1>13 DEF Disconnected
<1>14. CASE Update_RCSts
  BY <1>14 DEF Update_RCSts, Update_RCSts_Core
<1>15. CASE UpdateFails
  BY <1>15 DEF UpdateFails
<1>16. CASE Get_RCStatus
  BY <1>16 DEF Get_RCStatus
<1>17. CASE Get_CurrentJA
  BY <1>17 DEF Get_CurrentJA
<1>18. CASE Update_CurJA
  BY <1>18 DEF Update_CurJA
<1>19. CASE Exec_RTMC
  BY <1>19 DEF Exec_RTMC
<1>20. CASE Send
  BY <1>20 DEF Send
<1>21. CASE SendNotConnected
  BY <1>21 DEF SendNotConnected
<1>22. CASE SendFails
  BY <1>22 DEF SendFails
<1>23. CASE Refused
  BY <1>23 DEF Refused, Drops, FallsBack
<1>24. CASE FallBack
  BY <1>24 DEF FallBack, FallsBack
<1>25. CASE MessagesCome
  BY <1>25 DEF MessagesCome, Messages
<1>26. CASE PositionComes
  BY <1>26 DEF PositionComes, AnsweredPosition
<1>27. CASE StoreAnswer
  BY <1>27 DEF StoreAnswer
<1>28. CASE StoreNotice
  BY <1>28 DEF StoreNotice
<1>29. CASE \E t \in Topics : RCNotifies(t)
  BY <1>29 DEF RCNotifies, Current
<1>30. CASE RCAnswers
  BY <1>30 DEF RCAnswers, Asked
<1>31. CASE RCRefuses
  BY <1>31 DEF RCRefuses
<1>32. CASE SampleLost
  BY <1>32 DEF SampleLost
<1>33. CASE LinkLost
  BY <1>33 DEF LinkLost
<1>34. CASE RCChanges
  BY <1>34 DEF RCChanges
<1>35. CASE RobotMoves
  BY <1>35 DEF RobotMoves
<1>36. QED
  BY <1>1, <1>2, <1>3, <1>4, <1>5, <1>6, <1>7, <1>8, <1>9, <1>10, <1>11, <1>12, <1>13,
       <1>14, <1>15, <1>16, <1>17, <1>18, <1>19, <1>20, <1>21, <1>22, <1>23, <1>24, <1>25,
            <1>26, <1>27, <1>28, <1>29, <1>30, <1>31, <1>32, <1>33, <1>34, <1>35
     DEF Next, Connecting, Reading, Asking, Listener, Controller

(* Each place of a call is reached with the requests of that call only. *)
LEMMA PlacesStep == IInv /\ [Next]_vars => Places'
<1> SUFFICES ASSUME IInv, [Next]_vars PROVE Places'
  OBVIOUS
<1> USE DEF IInv, TypeOK, Places, ConnectStages, Calls, Fetching, Return, Ask, Goto, Keep,
     Use, Drop, DisconnectRC, Answered, client, copies, connection, delivery, robot, Others,
          vars
<1>1. CASE UNCHANGED vars
  BY <1>1 DEF vars
<1>2. CASE \E c \in Calls : Start(c)
  BY <1>2 DEF Start
<1>3. CASE OtherCallDisconnects
  BY <1>3 DEF OtherCallDisconnects
<1>4. CASE AlreadyConnected
  BY <1>4 DEF AlreadyConnected
<1>5. CASE ConnectCleans
  BY <1>5 DEF ConnectCleans
<1>6. CASE ConnectFails
  BY <1>6 DEF ConnectFails
<1>7. CASE Connected
  BY <1>7 DEF Connected
<1>8. CASE ConnectionAccepted
  BY <1>8 DEF ConnectionAccepted
<1>9. CASE ConnectPosition
  BY <1>9 DEF ConnectPosition
<1>10. CASE ConnectStatus
  BY <1>10 DEF ConnectStatus, Update_RCSts_Core
<1>11. CASE ConnectSucceeds
  BY <1>11 DEF ConnectSucceeds
<1>12. CASE NotConnected
  BY <1>12 DEF NotConnected
<1>13. CASE Disconnected
  BY <1>13 DEF Disconnected
<1>14. CASE Update_RCSts
  BY <1>14 DEF Update_RCSts, Update_RCSts_Core
<1>15. CASE UpdateFails
  BY <1>15 DEF UpdateFails
<1>16. CASE Get_RCStatus
  BY <1>16 DEF Get_RCStatus
<1>17. CASE Get_CurrentJA
  BY <1>17 DEF Get_CurrentJA
<1>18. CASE Update_CurJA
  BY <1>18 DEF Update_CurJA
<1>19. CASE Exec_RTMC
  BY <1>19 DEF Exec_RTMC
<1>20. CASE Send
  BY <1>20 DEF Send
<1>21. CASE SendNotConnected
  BY <1>21 DEF SendNotConnected
<1>22. CASE SendFails
  BY <1>22 DEF SendFails
<1>23. CASE Refused
  BY <1>23 DEF Refused, Drops, FallsBack
<1>24. CASE FallBack
  BY <1>24 DEF FallBack, FallsBack
<1>25. CASE MessagesCome
  BY <1>25 DEF MessagesCome, Messages
<1>26. CASE PositionComes
  BY <1>26 DEF PositionComes, AnsweredPosition
<1>27. CASE StoreAnswer
  BY <1>27 DEF StoreAnswer
<1>28. CASE StoreNotice
  BY <1>28 DEF StoreNotice
<1>29. CASE \E t \in Topics : RCNotifies(t)
  BY <1>29 DEF RCNotifies, Current
<1>30. CASE RCAnswers
  BY <1>30 DEF RCAnswers, Asked
<1>31. CASE RCRefuses
  BY <1>31 DEF RCRefuses
<1>32. CASE SampleLost
  BY <1>32 DEF SampleLost
<1>33. CASE LinkLost
  BY <1>33 DEF LinkLost
<1>34. CASE RCChanges
  BY <1>34 DEF RCChanges
<1>35. CASE RobotMoves
  BY <1>35 DEF RobotMoves
<1>36. QED
  BY <1>1, <1>2, <1>3, <1>4, <1>5, <1>6, <1>7, <1>8, <1>9, <1>10, <1>11, <1>12, <1>13,
       <1>14, <1>15, <1>16, <1>17, <1>18, <1>19, <1>20, <1>21, <1>22, <1>23, <1>24, <1>25,
            <1>26, <1>27, <1>28, <1>29, <1>30, <1>31, <1>32, <1>33, <1>34, <1>35
     DEF Next, Connecting, Reading, Asking, Listener, Controller

(* No call leaves a connection without a position and a status. *)
LEMMA LearnedStep == IInv /\ [Next]_vars => Learned'
<1> SUFFICES ASSUME IInv, [Next]_vars PROVE Learned'
  OBVIOUS
<1> USE DEF IInv, TypeOK, Times, Samples, Places, Learned, Recent, RecentAnswer,
     ConnectStages, Topics, NoSample, Fetching, Return, Ask, Goto, Keep, Use, Drop,
          DisconnectRC, Answered, client, copies, connection, delivery, robot, Others, vars
<1>1. CASE UNCHANGED vars
  BY <1>1 DEF vars
<1>2. CASE \E c \in Calls : Start(c)
  BY <1>2 DEF Start
<1>3. CASE OtherCallDisconnects
  BY <1>3 DEF OtherCallDisconnects
<1>4. CASE AlreadyConnected
  BY <1>4 DEF AlreadyConnected
<1>5. CASE ConnectCleans
  BY <1>5 DEF ConnectCleans
<1>6. CASE ConnectFails
  BY <1>6 DEF ConnectFails
<1>7. CASE Connected
  BY <1>7 DEF Connected
<1>8. CASE ConnectionAccepted
  BY <1>8 DEF ConnectionAccepted
<1>9. CASE ConnectPosition
  BY <1>9 DEF ConnectPosition
<1>10. CASE ConnectStatus
  BY <1>10 DEF ConnectStatus, Update_RCSts_Core
<1>11. CASE ConnectSucceeds
  BY <1>11 DEF ConnectSucceeds
<1>12. CASE NotConnected
  BY <1>12 DEF NotConnected
<1>13. CASE Disconnected
  BY <1>13 DEF Disconnected
<1>14. CASE Update_RCSts
  BY <1>14 DEF Update_RCSts, Update_RCSts_Core
<1>15. CASE UpdateFails
  BY <1>15 DEF UpdateFails
<1>16. CASE Get_RCStatus
  BY <1>16 DEF Get_RCStatus
<1>17. CASE Get_CurrentJA
  BY <1>17 DEF Get_CurrentJA
<1>18. CASE Update_CurJA
  BY <1>18 DEF Update_CurJA
<1>19. CASE Exec_RTMC
  BY <1>19 DEF Exec_RTMC
<1>20. CASE Send
  BY <1>20 DEF Send
<1>21. CASE SendNotConnected
  BY <1>21 DEF SendNotConnected
<1>22. CASE SendFails
  BY <1>22 DEF SendFails
<1>23. CASE Refused
  BY <1>23 DEF Refused, Drops, FallsBack
<1>24. CASE FallBack
  BY <1>24 DEF FallBack, FallsBack
<1>25. CASE MessagesCome
  BY <1>25 DEF MessagesCome, Messages
<1>26. CASE PositionComes
  BY <1>26 DEF PositionComes, AnsweredPosition
<1>27. CASE StoreAnswer
  BY <1>27 DEF StoreAnswer
<1>28. CASE StoreNotice
  BY <1>28 DEF StoreNotice
<1>29. CASE \E t \in Topics : RCNotifies(t)
  BY <1>29 DEF RCNotifies, Current
<1>30. CASE RCAnswers
  BY <1>30 DEF RCAnswers, Asked
<1>31. CASE RCRefuses
  BY <1>31 DEF RCRefuses
<1>32. CASE SampleLost
  BY <1>32 DEF SampleLost
<1>33. CASE LinkLost
  BY <1>33 DEF LinkLost
<1>34. CASE RCChanges
  BY <1>34 DEF RCChanges
<1>35. CASE RobotMoves
  BY <1>35 DEF RobotMoves
<1>36. QED
  BY <1>1, <1>2, <1>3, <1>4, <1>5, <1>6, <1>7, <1>8, <1>9, <1>10, <1>11, <1>12, <1>13,
       <1>14, <1>15, <1>16, <1>17, <1>18, <1>19, <1>20, <1>21, <1>22, <1>23, <1>24, <1>25,
            <1>26, <1>27, <1>28, <1>29, <1>30, <1>31, <1>32, <1>33, <1>34, <1>35
     DEF Next, Connecting, Reading, Asking, Listener, Controller

(* Samples stay recent: they are dropped with the object they were made for.  *)
LEMMA SamplesStep == IInv /\ [Next]_vars => Samples'
<1> SUFFICES ASSUME IInv, [Next]_vars PROVE Samples'
  OBVIOUS
<1> USE DEF IInv, TypeOK, Times, Samples, Places, Recent, RecentAnswer, ConnectStages,
     Topics, NoSample, NoNotice, NoBase, NoNotices, Fetching, SampleSet, Return, Ask, Goto,
          Keep, Use, Drop, DisconnectRC, Answered, client, copies, connection, delivery,
               robot, Others, vars
<1>1. CASE UNCHANGED vars
  BY <1>1 DEF vars
<1>2. CASE \E c \in Calls : Start(c)
  BY <1>2 DEF Start
<1>3. CASE OtherCallDisconnects
  BY <1>3 DEF OtherCallDisconnects
<1>4. CASE AlreadyConnected
  BY <1>4 DEF AlreadyConnected
<1>5. CASE ConnectCleans
  BY <1>5 DEF ConnectCleans
<1>6. CASE ConnectFails
  BY <1>6 DEF ConnectFails
<1>7. CASE Connected
  BY <1>7 DEF Connected
<1>8. CASE ConnectionAccepted
  BY <1>8 DEF ConnectionAccepted
<1>9. CASE ConnectPosition
  BY <1>9 DEF ConnectPosition
<1>10. CASE ConnectStatus
  BY <1>10 DEF ConnectStatus, Update_RCSts_Core
<1>11. CASE ConnectSucceeds
  BY <1>11 DEF ConnectSucceeds
<1>12. CASE NotConnected
  BY <1>12 DEF NotConnected
<1>13. CASE Disconnected
  BY <1>13 DEF Disconnected
<1>14. CASE Update_RCSts
  BY <1>14 DEF Update_RCSts, Update_RCSts_Core
<1>15. CASE UpdateFails
  BY <1>15 DEF UpdateFails
<1>16. CASE Get_RCStatus
  BY <1>16 DEF Get_RCStatus
<1>17. CASE Get_CurrentJA
  BY <1>17 DEF Get_CurrentJA
<1>18. CASE Update_CurJA
  BY <1>18 DEF Update_CurJA
<1>19. CASE Exec_RTMC
  BY <1>19 DEF Exec_RTMC
<1>20. CASE Send
  BY <1>20 DEF Send
<1>21. CASE SendNotConnected
  BY <1>21 DEF SendNotConnected
<1>22. CASE SendFails
  BY <1>22 DEF SendFails
<1>23. CASE Refused
  <2>1. CASE Drops
    BY <1>23, <2>1 DEF Refused
  <2>2. CASE ~Drops
    BY <1>23, <2>2 DEF Refused
  <2>3. QED
    BY <2>1, <2>2
<1>24. CASE FallBack
  BY <1>24 DEF FallBack, FallsBack
<1>25. CASE MessagesCome
  BY <1>25 DEF MessagesCome, Messages
<1>26. CASE PositionComes
  BY <1>26 DEF PositionComes, AnsweredPosition
<1>27. CASE StoreAnswer
  BY <1>27 DEF StoreAnswer
<1>28. CASE StoreNotice
  BY <1>28 DEF StoreNotice
<1>29. CASE \E t \in Topics : RCNotifies(t)
  BY <1>29 DEF RCNotifies, Current
<1>30. CASE RCAnswers
  BY <1>30 DEF RCAnswers, Asked
<1>31. CASE RCRefuses
  BY <1>31 DEF RCRefuses
<1>32. CASE SampleLost
  BY <1>32 DEF SampleLost
<1>33. CASE LinkLost
  BY <1>33 DEF LinkLost
<1>34. CASE RCChanges
  BY <1>34 DEF RCChanges
<1>35. CASE RobotMoves
  BY <1>35 DEF RobotMoves
<1>36. QED
  BY <1>1, <1>2, <1>3, <1>4, <1>5, <1>6, <1>7, <1>8, <1>9, <1>10, <1>11, <1>12, <1>13,
       <1>14, <1>15, <1>16, <1>17, <1>18, <1>19, <1>20, <1>21, <1>22, <1>23, <1>24, <1>25,
            <1>26, <1>27, <1>28, <1>29, <1>30, <1>31, <1>32, <1>33, <1>34, <1>35
     DEF Next, Connecting, Reading, Asking, Listener, Controller

(* The status in the cache stays one of the statuses since the connection.    *)
LEMMA SnapshotStep == IInv /\ [Next]_vars => Snapshot'
<1> SUFFICES ASSUME IInv, [Next]_vars PROVE Snapshot'
  OBVIOUS
<1> USE DEF IInv, TypeOK, Times, Samples, Places, Learned, Snapshot, Recent, RecentAnswer,
     NoSample, Topics, ConnectStages, Return, Ask, Goto, Keep, Use, Drop, DisconnectRC,
          Answered, client, copies, connection, delivery, robot, Others, vars
<1>1. CASE UNCHANGED vars
  BY <1>1 DEF vars
<1>2. CASE \E c \in Calls : Start(c)
  BY <1>2 DEF Start
<1>3. CASE OtherCallDisconnects
  BY <1>3 DEF OtherCallDisconnects
<1>4. CASE AlreadyConnected
  BY <1>4 DEF AlreadyConnected
<1>5. CASE ConnectCleans
  BY <1>5 DEF ConnectCleans
<1>6. CASE ConnectFails
  BY <1>6 DEF ConnectFails
<1>7. CASE Connected
  BY <1>7 DEF Connected
<1>8. CASE ConnectionAccepted
  BY <1>8 DEF ConnectionAccepted
<1>9. CASE ConnectPosition
  BY <1>9 DEF ConnectPosition
<1>10. CASE ConnectStatus
  BY <1>10 DEF ConnectStatus, Update_RCSts_Core, Absorb, Changed
<1>11. CASE ConnectSucceeds
  BY <1>11 DEF ConnectSucceeds
<1>12. CASE NotConnected
  BY <1>12 DEF NotConnected
<1>13. CASE Disconnected
  BY <1>13 DEF Disconnected
<1>14. CASE Update_RCSts
  BY <1>14 DEF Update_RCSts, Update_RCSts_Core, Absorb, Changed
<1>15. CASE UpdateFails
  BY <1>15 DEF UpdateFails
<1>16. CASE Get_RCStatus
  BY <1>16 DEF Get_RCStatus
<1>17. CASE Get_CurrentJA
  BY <1>17 DEF Get_CurrentJA
<1>18. CASE Update_CurJA
  BY <1>18 DEF Update_CurJA
<1>19. CASE Exec_RTMC
  BY <1>19 DEF Exec_RTMC
<1>20. CASE Send
  BY <1>20 DEF Send
<1>21. CASE SendNotConnected
  BY <1>21 DEF SendNotConnected
<1>22. CASE SendFails
  BY <1>22 DEF SendFails
<1>23. CASE Refused
  BY <1>23 DEF Refused, Drops, FallsBack
<1>24. CASE FallBack
  BY <1>24 DEF FallBack, FallsBack
<1>25. CASE MessagesCome
  BY <1>25 DEF MessagesCome, Messages
<1>26. CASE PositionComes
  BY <1>26 DEF PositionComes, AnsweredPosition
<1>27. CASE StoreAnswer
  BY <1>27 DEF StoreAnswer
<1>28. CASE StoreNotice
  BY <1>28 DEF StoreNotice
<1>29. CASE \E t \in Topics : RCNotifies(t)
  BY <1>29 DEF RCNotifies, Current
<1>30. CASE RCAnswers
  BY <1>30 DEF RCAnswers, Asked
<1>31. CASE RCRefuses
  BY <1>31 DEF RCRefuses
<1>32. CASE SampleLost
  BY <1>32 DEF SampleLost
<1>33. CASE LinkLost
  BY <1>33 DEF LinkLost
<1>34. CASE RCChanges
  BY <1>34 DEF RCChanges
<1>35. CASE RobotMoves
  BY <1>35 DEF RobotMoves
<1>36. QED
  BY <1>1, <1>2, <1>3, <1>4, <1>5, <1>6, <1>7, <1>8, <1>9, <1>10, <1>11, <1>12, <1>13,
       <1>14, <1>15, <1>16, <1>17, <1>18, <1>19, <1>20, <1>21, <1>22, <1>23, <1>24, <1>25,
            <1>26, <1>27, <1>28, <1>29, <1>30, <1>31, <1>32, <1>33, <1>34, <1>35
     DEF Next, Connecting, Reading, Asking, Listener, Controller

(* The additional information stays with its number. *)
LEMMA InfoStep == IInv /\ [Next]_vars => InfoOfNumber'
<1> SUFFICES ASSUME IInv, [Next]_vars PROVE InfoOfNumber'
  OBVIOUS
<1> USE DEF IInv, TypeOK, InfoOfNumber, Return, Ask, Goto, Keep, Use, Drop, DisconnectRC,
     Answered, client, copies, connection, delivery, robot, Others, vars
<1>1. CASE UNCHANGED vars
  BY <1>1 DEF vars
<1>2. CASE \E c \in Calls : Start(c)
  BY <1>2 DEF Start
<1>3. CASE OtherCallDisconnects
  BY <1>3 DEF OtherCallDisconnects
<1>4. CASE AlreadyConnected
  BY <1>4 DEF AlreadyConnected
<1>5. CASE ConnectCleans
  BY <1>5 DEF ConnectCleans
<1>6. CASE ConnectFails
  BY <1>6 DEF ConnectFails
<1>7. CASE Connected
  BY <1>7 DEF Connected
<1>8. CASE ConnectionAccepted
  BY <1>8 DEF ConnectionAccepted
<1>9. CASE ConnectPosition
  BY <1>9 DEF ConnectPosition
<1>10. CASE ConnectStatus
  <2>1. slot.at \in 1 .. Len(log) /\ cache' = Absorb(log[slot.at]) /\ known' = slot.at
    <3>1. slot # NoSample /\ slot.ok /\ stage = "SYS_REQ_RC_STATUS" /\ pc = "waiting"
      BY <1>10 DEF ConnectStatus
    <3>2. slot.at \in Nat /\ open
      BY <3>1 DEF SampleSet, Places
    <3>3. slot.at \in 1 .. Len(log)
      BY <3>1, <3>2 DEF Samples, RecentAnswer, Recent, Times
    <3>4. QED
      BY <1>10, <3>3 DEF ConnectStatus, Update_RCSts_Core
  <2>2. log' = log
    BY <1>10 DEF ConnectStatus
  <2>3. QED
    BY <2>1, <2>2, AbsorbKeeps
<1>11. CASE ConnectSucceeds
  BY <1>11 DEF ConnectSucceeds
<1>12. CASE NotConnected
  BY <1>12 DEF NotConnected
<1>13. CASE Disconnected
  BY <1>13 DEF Disconnected
<1>14. CASE Update_RCSts
  <2>1. IF notice["status"].new
          THEN /\ notice["status"].at \in 1 .. Len(log)
               /\ cache' = Absorb(log[notice["status"].at]) /\ known' = notice["status"].at
          ELSE UNCHANGED <<cache, known>>
    BY <1>14 DEF Update_RCSts, Update_RCSts_Core, Samples, Recent, Times, Topics
  <2>2. log' = log
    BY <1>14 DEF Update_RCSts
  <2>3. QED
    BY <2>1, <2>2, AbsorbKeeps
<1>15. CASE UpdateFails
  BY <1>15 DEF UpdateFails
<1>16. CASE Get_RCStatus
  BY <1>16 DEF Get_RCStatus
<1>17. CASE Get_CurrentJA
  BY <1>17 DEF Get_CurrentJA
<1>18. CASE Update_CurJA
  BY <1>18 DEF Update_CurJA
<1>19. CASE Exec_RTMC
  BY <1>19 DEF Exec_RTMC
<1>20. CASE Send
  BY <1>20 DEF Send
<1>21. CASE SendNotConnected
  BY <1>21 DEF SendNotConnected
<1>22. CASE SendFails
  BY <1>22 DEF SendFails
<1>23. CASE Refused
  <2>1. UNCHANGED <<cache, log>>
    BY <1>23 DEF Refused
  <2>2. QED
    BY <2>1
<1>24. CASE FallBack
  BY <1>24 DEF FallBack, FallsBack
<1>25. CASE MessagesCome
  BY <1>25 DEF MessagesCome, Messages
<1>26. CASE PositionComes
  BY <1>26 DEF PositionComes, AnsweredPosition
<1>27. CASE StoreAnswer
  BY <1>27 DEF StoreAnswer
<1>28. CASE StoreNotice
  BY <1>28 DEF StoreNotice
<1>29. CASE \E t \in Topics : RCNotifies(t)
  BY <1>29 DEF RCNotifies, Current
<1>30. CASE RCAnswers
  BY <1>30 DEF RCAnswers, Asked
<1>31. CASE RCRefuses
  BY <1>31 DEF RCRefuses
<1>32. CASE SampleLost
  BY <1>32 DEF SampleLost
<1>33. CASE LinkLost
  BY <1>33 DEF LinkLost
<1>34. CASE RCChanges
  BY <1>34 DEF RCChanges
<1>35. CASE RobotMoves
  BY <1>35 DEF RobotMoves
<1>36. QED
  BY <1>1, <1>2, <1>3, <1>4, <1>5, <1>6, <1>7, <1>8, <1>9, <1>10, <1>11, <1>12, <1>13,
       <1>14, <1>15, <1>16, <1>17, <1>18, <1>19, <1>20, <1>21, <1>22, <1>23, <1>24, <1>25,
            <1>26, <1>27, <1>28, <1>29, <1>30, <1>31, <1>32, <1>33, <1>34, <1>35
     DEF Next, Connecting, Reading, Asking, Listener, Controller

(* The messages follow the numbers or are known to be missed. *)
LEMMA MessageStep == IInv /\ [Next]_vars => MessageOfNumber'
<1> SUFFICES ASSUME IInv, [Next]_vars PROVE MessageOfNumber'
  OBVIOUS
<1> USE DEF IInv, TypeOK, Places, MessageOfNumber, Fetching, ConnectStages, Return, Ask,
     Goto, Keep, Use, Drop, DisconnectRC, Answered, client, copies, connection, delivery,
          robot, Others, vars
<1>1. CASE UNCHANGED vars
  BY <1>1 DEF vars
<1>2. CASE \E c \in Calls : Start(c)
  BY <1>2 DEF Start
<1>3. CASE OtherCallDisconnects
  BY <1>3 DEF OtherCallDisconnects
<1>4. CASE AlreadyConnected
  BY <1>4 DEF AlreadyConnected
<1>5. CASE ConnectCleans
  BY <1>5 DEF ConnectCleans
<1>6. CASE ConnectFails
  BY <1>6 DEF ConnectFails
<1>7. CASE Connected
  BY <1>7 DEF Connected
<1>8. CASE ConnectionAccepted
  BY <1>8 DEF ConnectionAccepted
<1>9. CASE ConnectPosition
  BY <1>9 DEF ConnectPosition
<1>10. CASE ConnectStatus
  BY <1>10 DEF ConnectStatus, Update_RCSts_Core, Absorb, Changed
<1>11. CASE ConnectSucceeds
  BY <1>11 DEF ConnectSucceeds
<1>12. CASE NotConnected
  BY <1>12 DEF NotConnected
<1>13. CASE Disconnected
  BY <1>13 DEF Disconnected
<1>14. CASE Update_RCSts
  BY <1>14 DEF Update_RCSts, Update_RCSts_Core, Absorb, Changed
<1>15. CASE UpdateFails
  BY <1>15 DEF UpdateFails
<1>16. CASE Get_RCStatus
  BY <1>16 DEF Get_RCStatus
<1>17. CASE Get_CurrentJA
  BY <1>17 DEF Get_CurrentJA
<1>18. CASE Update_CurJA
  BY <1>18 DEF Update_CurJA
<1>19. CASE Exec_RTMC
  BY <1>19 DEF Exec_RTMC
<1>20. CASE Send
  BY <1>20 DEF Send
<1>21. CASE SendNotConnected
  BY <1>21 DEF SendNotConnected
<1>22. CASE SendFails
  BY <1>22 DEF SendFails
<1>23. CASE Refused
  BY <1>23 DEF Refused, Drops, FallsBack
<1>24. CASE FallBack
  BY <1>24 DEF FallBack, FallsBack
<1>25. CASE MessagesCome
  BY <1>25 DEF MessagesCome, Messages
<1>26. CASE PositionComes
  BY <1>26 DEF PositionComes, AnsweredPosition
<1>27. CASE StoreAnswer
  BY <1>27 DEF StoreAnswer
<1>28. CASE StoreNotice
  BY <1>28 DEF StoreNotice
<1>29. CASE \E t \in Topics : RCNotifies(t)
  BY <1>29 DEF RCNotifies, Current
<1>30. CASE RCAnswers
  BY <1>30 DEF RCAnswers, Asked
<1>31. CASE RCRefuses
  BY <1>31 DEF RCRefuses
<1>32. CASE SampleLost
  BY <1>32 DEF SampleLost
<1>33. CASE LinkLost
  BY <1>33 DEF LinkLost
<1>34. CASE RCChanges
  BY <1>34 DEF RCChanges
<1>35. CASE RobotMoves
  BY <1>35 DEF RobotMoves
<1>36. QED
  BY <1>1, <1>2, <1>3, <1>4, <1>5, <1>6, <1>7, <1>8, <1>9, <1>10, <1>11, <1>12, <1>13,
       <1>14, <1>15, <1>16, <1>17, <1>18, <1>19, <1>20, <1>21, <1>22, <1>23, <1>24, <1>25,
            <1>26, <1>27, <1>28, <1>29, <1>30, <1>31, <1>32, <1>33, <1>34, <1>35
     DEF Next, Connecting, Reading, Asking, Listener, Controller

(* A position that came with an answer stays as recent as the call. *)
LEMMA CurrentStep == IInv /\ [Next]_vars => CurrentFromAnswer'
<1> SUFFICES ASSUME IInv, [Next]_vars PROVE CurrentFromAnswer'
  OBVIOUS
<1> USE DEF IInv, TypeOK, Samples, Places, CurrentFromAnswer, RecentAnswer, Recent,
     NoSample, Return, Ask, Goto, Keep, Use, Drop, DisconnectRC, Answered, client, copies,
          connection, delivery, robot, Others, vars
<1>1. CASE UNCHANGED vars
  BY <1>1 DEF vars
<1>2. CASE \E c \in Calls : Start(c)
  BY <1>2 DEF Start
<1>3. CASE OtherCallDisconnects
  BY <1>3 DEF OtherCallDisconnects
<1>4. CASE AlreadyConnected
  BY <1>4 DEF AlreadyConnected
<1>5. CASE ConnectCleans
  BY <1>5 DEF ConnectCleans
<1>6. CASE ConnectFails
  BY <1>6 DEF ConnectFails
<1>7. CASE Connected
  BY <1>7 DEF Connected
<1>8. CASE ConnectionAccepted
  BY <1>8 DEF ConnectionAccepted
<1>9. CASE ConnectPosition
  BY <1>9 DEF ConnectPosition
<1>10. CASE ConnectStatus
  BY <1>10 DEF ConnectStatus, Update_RCSts_Core
<1>11. CASE ConnectSucceeds
  BY <1>11 DEF ConnectSucceeds
<1>12. CASE NotConnected
  BY <1>12 DEF NotConnected
<1>13. CASE Disconnected
  BY <1>13 DEF Disconnected
<1>14. CASE Update_RCSts
  BY <1>14 DEF Update_RCSts, Update_RCSts_Core
<1>15. CASE UpdateFails
  BY <1>15 DEF UpdateFails
<1>16. CASE Get_RCStatus
  BY <1>16 DEF Get_RCStatus
<1>17. CASE Get_CurrentJA
  BY <1>17 DEF Get_CurrentJA
<1>18. CASE Update_CurJA
  BY <1>18 DEF Update_CurJA
<1>19. CASE Exec_RTMC
  BY <1>19 DEF Exec_RTMC
<1>20. CASE Send
  BY <1>20 DEF Send
<1>21. CASE SendNotConnected
  BY <1>21 DEF SendNotConnected
<1>22. CASE SendFails
  BY <1>22 DEF SendFails
<1>23. CASE Refused
  BY <1>23 DEF Refused, Drops, FallsBack
<1>24. CASE FallBack
  BY <1>24 DEF FallBack, FallsBack
<1>25. CASE MessagesCome
  BY <1>25 DEF MessagesCome, Messages
<1>26. CASE PositionComes
  BY <1>26 DEF PositionComes, AnsweredPosition
<1>27. CASE StoreAnswer
  BY <1>27 DEF StoreAnswer
<1>28. CASE StoreNotice
  BY <1>28 DEF StoreNotice
<1>29. CASE \E t \in Topics : RCNotifies(t)
  BY <1>29 DEF RCNotifies, Current
<1>30. CASE RCAnswers
  BY <1>30 DEF RCAnswers, Asked
<1>31. CASE RCRefuses
  BY <1>31 DEF RCRefuses
<1>32. CASE SampleLost
  BY <1>32 DEF SampleLost
<1>33. CASE LinkLost
  BY <1>33 DEF LinkLost
<1>34. CASE RCChanges
  BY <1>34 DEF RCChanges
<1>35. CASE RobotMoves
  BY <1>35 DEF RobotMoves
<1>36. QED
  BY <1>1, <1>2, <1>3, <1>4, <1>5, <1>6, <1>7, <1>8, <1>9, <1>10, <1>11, <1>12, <1>13,
       <1>14, <1>15, <1>16, <1>17, <1>18, <1>19, <1>20, <1>21, <1>22, <1>23, <1>24, <1>25,
            <1>26, <1>27, <1>28, <1>29, <1>30, <1>31, <1>32, <1>33, <1>34, <1>35
     DEF Next, Connecting, Reading, Asking, Listener, Controller

----------------------------------------------------------------------------------
LEMMA InitInv == Init => IInv
<1> SUFFICES ASSUME Init PROVE IInv
  OBVIOUS
<1>1. PICK m \in Modes : log = <<[mode |-> m, num |-> None, info |-> None]>>
  BY DEF Init
<1>2. /\ None \in [Kinds -> Numbers] /\ None \in [Kinds -> Infos]
      /\ \A k \in Kinds : None[k] = 0
  BY NumbersAssumption DEF None
<1>3. [mode |-> m, num |-> None, info |-> None] \in Status
  BY <1>2 DEF Status
<1>4. log \in Seq(Status) /\ log # << >> /\ Len(log) = 1
  BY <1>1, <1>3
<1>5. cache \in [mode : Modes, num : [Kinds -> Numbers], info : [Kinds -> Infos], msg : [Kinds -> Numbers]]
  BY <1>2 DEF Init, Modes
<1>6. TypeOK
  <2>1. NoSample \in SampleSet /\ [t \in Topics |-> NoNotice] \in [Topics -> [at : Nat,
       new : BOOLEAN]]
    BY DEF NoSample, SampleSet, NoNotice
  <2>2. reader = NoSample /\ slot = NoSample /\ notice = [t \in Topics |-> NoNotice]
    BY DEF Init
  <2>3. /\ pc = "idle" /\ call = "none" /\ stage = "none" /\ ret = "none" /\ ja = 0 /\ pos = 0
        /\ begun = 0 /\ known = 0 /\ learned = FALSE /\ missed = FALSE
        /\ open = FALSE /\ link = FALSE /\ pending = FALSE
        /\ base = [log |-> 1, pos |-> 0]
    BY DEF Init, NoBase
  <2>4. /\ log \in Seq(Status) /\ pos \in Nat /\ ja \in 0 .. pos /\ begun \in 0 .. pos
        /\ base \in [log : Nat, pos : Nat] /\ known \in Nat
        /\ reader \in SampleSet /\ slot \in SampleSet
        /\ notice \in [Topics -> [at : Nat, new : BOOLEAN]]
    BY <1>4, <2>1, <2>2, <2>3
  <2>5. \A t \in Topics : notice[t] = NoNotice
    BY <2>2
  <2>6. QED
    BY <1>5, <2>2, <2>3, <2>4, <2>5 DEF TypeOK, Stages
<1>7. Times /\ Samples /\ Places /\ Learned
  BY <1>4 DEF Times, Samples, Places, Learned, Init, NoSample, NoNotice, Topics
<1>8. Snapshot /\ InfoOfNumber /\ MessageOfNumber /\ CurrentFromAnswer
  BY <1>2 DEF Snapshot, InfoOfNumber, MessageOfNumber, CurrentFromAnswer, Init
<1>9. QED
  BY <1>6, <1>7, <1>8 DEF IInv

LEMMA StepInv == IInv /\ [Next]_vars => IInv'
BY TypeStep, TimesStep, PlacesStep, LearnedStep, SamplesStep, SnapshotStep, InfoStep,
     MessageStep,
   CurrentStep DEF IInv

LEMMA Invariance == Spec => []IInv
BY InitInv, StepInv, PTL DEF Spec

(* The types hold for any numbers, additional information and history.         *)
THEOREM TypeCorrect == Spec => []TypeOK
<1>1. IInv => TypeOK
  BY DEF IInv
<1>2. QED
  BY <1>1, Invariance, PTL

(* Update_RCSts_Core never mixes two statuses, and never keeps a status of an   *)
(* earlier connection.                                                         *)
THEOREM SnapshotTheorem == Spec => []Snapshot
<1>1. IInv => Snapshot
  BY DEF IInv
<1>2. QED
  BY <1>1, Invariance, PTL

(* The additional information is always one the controller reported with the    *)
(* number beside it, across any number of changes and reconnections.            *)
THEOREM InfoTheorem == Spec => []InfoOfNumber
<1>1. IInv => InfoOfNumber
  BY DEF IInv
<1>2. QED
  BY <1>1, Invariance, PTL

(* A message that is not that of its number is one whose request failed.        *)
THEOREM MessageTheorem == Spec => []MessageOfNumber
<1>1. IInv => MessageOfNumber
  BY DEF IInv
<1>2. QED
  BY <1>1, Invariance, PTL

(* Between two calls a connection has a status and a position of its own.       *)
THEOREM SessionTheorem == Spec => []NoStaleSession
<1>1. IInv => NoStaleSession
  BY DEF IInv, NoStaleSession, Places, Learned
<1>2. QED
  BY <1>1, Invariance, PTL

(* A position from an answer is as recent as its call.                          *)
THEOREM CurrentTheorem == Spec => []CurrentFromAnswer
<1>1. IInv => CurrentFromAnswer
  BY DEF IInv
<1>2. QED
  BY <1>1, Invariance, PTL
=================================================================================
