------------------------- MODULE PayloadAnswers_proofs -------------------------
(***************************************************************************)
(* What a successful call returns is what the controller told: Understood,  *)
(* for any numbers, loads, models and byte order, and for answers of any     *)
(* size.                                                                     *)
(*                                                                          *)
(* An answer is a vector of fields that do not overlap (Laid); each of them  *)
(* is read as its value (NumberRead, ByteRead, TextRead), and each decoder    *)
(* looks where the controller has put them.                                  *)
(***************************************************************************)
EXTENDS Payload_proofs, FiniteSetTheorems

(* The fields are between two places, each beside the others. *)
Laid(low, high, fields) ==
  \A f \in fields :
    /\ f.at \in Nat /\ f.size \in Nat \ {0} /\ low <= f.at /\ f.at + f.size <= high
    /\ \A g \in fields : g = f \/ g.at + g.size <= f.at \/ f.at + f.size <= g.at

LEMMA FieldBytes ==
  ASSUME NEW n \in Nat, NEW fields, Laid(0, n, fields), NEW f \in fields
  PROVE  Part(Wire(n, fields), f.size, f.at) = Memory(f.value, f.size, "little")
<1>1. f.at \in Nat /\ f.size \in Nat \ {0} /\ f.at + f.size <= n
  BY DEF Laid
<1>2. ASSUME NEW i \in Bytes(f.size)
      PROVE  f.at + i \in DOMAIN Wire(n, fields) /\ Wire(n, fields)[f.at + i] = <<f.value, i>>
  <2>1. f.at + i \in Bytes(n) /\ (f.at + i) - f.at = i /\ i \in Int
    BY <1>1 DEF Bytes
  <2>2. ASSUME NEW g \in fields, (f.at + i) - g.at \in Bytes(g.size) PROVE g = f
    <3>1. g.at \in Nat /\ g.size \in Nat
      BY DEF Laid
    <3>2. ~ (g.at + g.size <= f.at) /\ ~ (f.at + f.size <= g.at)
      BY <1>1, <2>1, <2>2, <3>1 DEF Bytes
    <3> QED BY <3>2 DEF Laid
  <2>3. Wire(n, fields)[f.at + i] = <<f.value, (f.at + i) - f.at>>
    BY <2>1, <2>2, Covered
  <2>4. DOMAIN Wire(n, fields) = Bytes(n)
    BY DEF Wire
  <2> QED BY <2>1, <2>3, <2>4
<1>3. Part(Wire(n, fields), f.size, f.at) = [i \in Bytes(f.size) |-> <<f.value, i>>]
  BY <1>2 DEF Part
<1> QED BY <1>3 DEF Memory

LEMMA NumberRead ==
  ASSUME NEW n \in Nat, NEW fields, Laid(0, n, fields), NEW h \in Hosts,
         NEW at, NEW size, NEW value, Field(at, size, value) \in fields
  PROVE  Uint82Number(Wire(n, fields), size, at, h) = value
<1> DEFINE f == Field(at, size, value)
<1>1. f.at = at /\ f.size = size /\ f.value = value
  BY FieldParts
<1> HIDE DEF f
<1>2. f \in fields
  BY DEF f
<1>3. at \in Nat /\ size \in Nat \ {0}
  BY <1>1, <1>2 DEF Laid
<1>4. Part(Wire(n, fields), size, at) = Memory(value, size, "little")
  BY <1>1, <1>2, FieldBytes
<1> QED BY <1>3, <1>4, Reading

(* Bytes that are copied one by one are the same on every host. *)
LEMMA TextRead ==
  ASSUME NEW n \in Nat, NEW fields, Laid(0, n, fields),
         NEW at, NEW size, NEW value, Field(at, size, value) \in fields
  PROVE  Seen(Part(Wire(n, fields), size, at), size, "little") = value
<1> DEFINE f == Field(at, size, value)
<1>1. f.at = at /\ f.size = size /\ f.value = value
  BY FieldParts
<1> HIDE DEF f
<1>2. f \in fields
  BY DEF f
<1>3. at \in Nat /\ size \in Nat \ {0}
  BY <1>1, <1>2 DEF Laid
<1>4. Part(Wire(n, fields), size, at) = Memory(value, size, "little")
  BY <1>1, <1>2, FieldBytes
<1>5. Memory(value, size, "little")[0][1] = value
  BY <1>3 DEF Memory, Bytes
<1> QED BY <1>4, <1>5 DEF Seen
--------------------------------------------------------------------------------
(* The layouts. *)

LEMMA OneLaid ==
  ASSUME NEW at \in Nat, NEW size \in Nat \ {0}, NEW value
  PROVE  Laid(at, at + size, {Field(at, size, value)})
<1> DEFINE f == Field(at, size, value)
<1>1. f.at = at /\ f.size = size
  BY FieldParts
<1> HIDE DEF f
<1>2. Laid(at, at + size, {f})
  BY <1>1 DEF Laid
<1> QED BY <1>2 DEF f

(* One behind the other. *)
LEMMA Behind ==
  ASSUME NEW low \in Nat, NEW mid \in Nat, NEW high \in Nat, low <= mid, mid <= high,
         NEW first, NEW second, Laid(low, mid, first), Laid(mid, high, second)
  PROVE  Laid(low, high, first \union second)
<1>1. \A f \in first, g \in second : f.at + f.size <= g.at
  BY DEF Laid
<1>2. \A f \in first \union second :
        f.at \in Nat /\ f.size \in Nat \ {0} /\ low <= f.at /\ f.at + f.size <= high
  BY DEF Laid
<1>3. ASSUME NEW f \in first \union second, NEW g \in first \union second
      PROVE  g = f \/ g.at + g.size <= f.at \/ f.at + f.size <= g.at
  <2>1. CASE f \in first
    BY <1>1, <2>1 DEF Laid
  <2>2. CASE f \in second
    BY <1>1, <2>2 DEF Laid
  <2> QED BY <2>1, <2>2
<1> QED BY <1>2, <1>3 DEF Laid

LEMMA Wider ==
  ASSUME NEW low \in Nat, NEW high \in Nat, NEW fields, Laid(low, high, fields),
         NEW below \in Nat, NEW above \in Nat, below <= low, high <= above
  PROVE  Laid(below, above, fields)
BY DEF Laid

LEMMA JointsLaid ==
  ASSUME NEW joints, NEW base \in Nat
  PROVE  Laid(base, base + 48, SixDoubles(base, joints))
<1> DEFINE six == SixDoubles(base, joints)
           J(i) == Field(base + 8 * i, Double, joints[i])
<1>1. \A f \in six : \E i \in Joints : f = J(i)
  BY DEF SixDoubles
<1>2. \A i \in Joints : J(i).at = base + 8 * i /\ J(i).size = 8
  BY FieldParts DEF Double
<1> HIDE DEF six, J
<1>3. \A f \in six : f.at \in Nat /\ f.size = 8 /\ base <= f.at /\ f.at + 8 <= base + 48
  BY <1>1, <1>2 DEF Joints
<1>4. ASSUME NEW f \in six, NEW g \in six, g # f
      PROVE  g.at + g.size <= f.at \/ f.at + f.size <= g.at
  <2>1. PICK i \in Joints : f = J(i)
    BY <1>1
  <2>2. PICK k \in Joints : g = J(k)
    BY <1>1
  <2>3. i \in 0 .. 5 /\ k \in 0 .. 5 /\ i # k
    BY <1>4, <2>1, <2>2 DEF Joints
  <2> QED BY <1>2, <2>1, <2>2, <2>3
<1>5. Laid(base, base + 48, six)
  BY <1>3, <1>4 DEF Laid
<1> QED BY <1>5 DEF six

(* The additional information of an error or a warning. *)
ThreeInts(base, info) == {Field(base + 4 * i, UInt, info[i]) : i \in 0 .. 2}

LEMMA InfoLaid ==
  ASSUME NEW info, NEW base \in Nat
  PROVE  Laid(base, base + 12, ThreeInts(base, info))
<1> DEFINE three == ThreeInts(base, info)
           J(i) == Field(base + 4 * i, UInt, info[i])
<1>1. \A f \in three : \E i \in 0 .. 2 : f = J(i)
  BY DEF ThreeInts
<1>2. \A i \in 0 .. 2 : J(i).at = base + 4 * i /\ J(i).size = 4
  BY FieldParts DEF UInt
<1> HIDE DEF three, J
<1>3. \A f \in three : f.at \in Nat /\ f.size = 4 /\ base <= f.at /\ f.at + 4 <= base + 12
  BY <1>1, <1>2
<1>4. ASSUME NEW f \in three, NEW g \in three, g # f
      PROVE  g.at + g.size <= f.at \/ f.at + f.size <= g.at
  <2>1. PICK i \in 0 .. 2 : f = J(i)
    BY <1>1
  <2>2. PICK k \in 0 .. 2 : g = J(k)
    BY <1>1
  <2>3. i # k
    BY <1>4, <2>1, <2>2
  <2> QED BY <1>2, <2>1, <2>2, <2>3
<1>5. Laid(base, base + 12, three)
  BY <1>3, <1>4 DEF Laid
<1> QED BY <1>5 DEF three
--------------------------------------------------------------------------------
(* The answers, command by command. *)

ExecAnswer(t) == SixDoubles(8, t.curpos) \union {Field(0, Char, t.bufstatus), Field(56, UInt, t.digitalIn)}

LEMMA ExecRead ==
  ASSUME NEW t \in [bufstatus : {0, 1}, curpos : Positions, digitalIn : Words], NEW h \in Hosts
  PROVE  Uint82Rrd_cur_pos(Wire(64, ExecAnswer(t)), h) = t
<1> DEFINE b == Field(0, Char, t.bufstatus)
           d == Field(56, UInt, t.digitalIn)
           six == SixDoubles(8, t.curpos)
           fields == ExecAnswer(t)
<1>1. Laid(0, 64, fields)
  <2>1. Laid(0, 1, {b}) /\ Laid(8, 56, six) /\ Laid(56, 60, {d})
    BY OneLaid, JointsLaid DEF Char, UInt
  <2> HIDE DEF b, d, six
  <2>2. Laid(0, 8, {b}) /\ Laid(56, 64, {d})
    BY <2>1, Wider
  <2>3. Laid(0, 56, {b} \union six)
    BY <2>1, <2>2, Behind
  <2>4. Laid(0, 64, ({b} \union six) \union {d})
    BY <2>2, <2>3, Behind
  <2>5. fields = ({b} \union six) \union {d}
    BY DEF b, d, six, ExecAnswer
  <2> QED BY <2>4, <2>5
<1>2. b \in fields /\ d \in fields /\ \A i \in Joints : Field(8 + 8 * i, Double, t.curpos[i]) \in fields
  BY DEF ExecAnswer, SixDoubles
<1> HIDE DEF fields
<1>3. Uint8At(Wire(64, fields), 0) = t.bufstatus
  BY <1>1, <1>2, TextRead DEF Uint8At
<1>4. Uint82Uint(Wire(64, fields), 56, h) = t.digitalIn
  BY <1>1, <1>2, NumberRead DEF Uint82Uint
<1>5. \A i \in Joints : Uint82Double(Wire(64, fields), 8 + i * 8, h) = t.curpos[i]
  <2> SUFFICES ASSUME NEW i \in Joints PROVE Uint82Double(Wire(64, fields), 8 + i * 8, h) = t.curpos[i]
    OBVIOUS
  <2>1. 8 + i * 8 = 8 + 8 * i
    BY DEF Joints
  <2>2. Uint82Number(Wire(64, fields), Double, 8 + 8 * i, h) = t.curpos[i]
    BY <1>1, <1>2, NumberRead
  <2> QED BY <2>1, <2>2 DEF Uint82Double
<1>6. t = [bufstatus |-> t.bufstatus, curpos |-> t.curpos, digitalIn |-> t.digitalIn]
  OBVIOUS
<1>7. t.curpos = [i \in Joints |-> t.curpos[i]]
  BY DEF Positions, Joined
<1>8. [i \in Joints |-> Uint82Double(Wire(64, fields), 8 + i * 8, h)] = t.curpos
  BY <1>5, <1>7
<1>9. Uint82Rrd_cur_pos(Wire(64, fields), h) = t
  BY <1>3, <1>4, <1>6, <1>8 DEF Uint82Rrd_cur_pos, OFFSET_RRD_CUR_POS_RB, OFFSET_RRD_CUR_POS_IO
<1> QED BY <1>9 DEF fields

LEMMA PositionRead ==
  ASSUME NEW t \in Positions, NEW h \in Hosts
  PROVE  CurrentJA(Wire(48, SixDoubles(0, t)), h) = t
<1> DEFINE fields == SixDoubles(0, t)
<1>1. Laid(0, 48, fields)
  BY JointsLaid
<1>2. \A i \in Joints : Field(0 + 8 * i, Double, t[i]) \in fields
  BY DEF SixDoubles
<1> HIDE DEF fields
<1>3. \A i \in Joints : Uint82Double(Wire(48, fields), i * 8, h) = t[i]
  <2> SUFFICES ASSUME NEW i \in Joints PROVE Uint82Double(Wire(48, fields), i * 8, h) = t[i]
    OBVIOUS
  <2>1. i * 8 = 0 + 8 * i
    BY DEF Joints
  <2>2. Uint82Number(Wire(48, fields), Double, 0 + 8 * i, h) = t[i]
    BY <1>1, <1>2, NumberRead
  <2> QED BY <2>1, <2>2 DEF Uint82Double
<1>4. t = [i \in Joints |-> t[i]]
  BY DEF Positions, Joined
<1>5. [i \in Joints |-> Uint82Double(Wire(48, fields), i * 8, h)] = t
  BY <1>3, <1>4
<1> QED BY <1>5 DEF CurrentJA, fields

(* The status: five members, and three numbers for each of error and warning. *)
StatusHead(t) ==
  {Field(0, Char, t.safeGuard), Field(1, Char, t.eStop), Field(2, Short, t.operation_mode),
   Field(4, Short, t.err_num), Field(6, Short, t.wrn_num)}
StatusAnswer(t) ==
  StatusHead(t) \union {Field(8 + 4 * i, UInt, t.err_info[i]) : i \in 0 .. 2}
                \union {Field(20 + 4 * i, UInt, t.wrn_info[i]) : i \in 0 .. 2}
Statuses ==
  [safeGuard : {0}, eStop : {1}, operation_mode : {2}, err_num : Numbers \union {0},
   wrn_num : Numbers \union {0}, err_info : Infos, wrn_info : {[i \in 0 .. 2 |-> 50 + i]}]

LEMMA StatusLaid ==
  ASSUME NEW t
  PROVE  Laid(0, 32, StatusAnswer(t))
<1> DEFINE a == Field(0, Char, t.safeGuard)
           b == Field(1, Char, t.eStop)
           c == Field(2, Short, t.operation_mode)
           d == Field(4, Short, t.err_num)
           e == Field(6, Short, t.wrn_num)
           err == ThreeInts(8, t.err_info)
           wrn == ThreeInts(20, t.wrn_info)
<1>1. /\ Laid(0, 1, {a}) /\ Laid(1, 2, {b}) /\ Laid(2, 4, {c}) /\ Laid(4, 6, {d}) /\ Laid(6, 8, {e})
      /\ Laid(8, 20, err) /\ Laid(20, 32, wrn)
  <2>1. Laid(0, 0 + 1, {a}) /\ Laid(1, 1 + 1, {b})
    BY OneLaid DEF Char
  <2>2. Laid(2, 2 + 2, {c}) /\ Laid(4, 4 + 2, {d}) /\ Laid(6, 6 + 2, {e})
    BY OneLaid DEF Short
  <2>3. Laid(8, 8 + 12, err) /\ Laid(20, 20 + 12, wrn)
    BY InfoLaid
  <2> HIDE DEF a, b, c, d, e, err, wrn
  <2> QED BY <2>1, <2>2, <2>3
<1> HIDE DEF a, b, c, d, e, err, wrn
<1>2. Laid(0, 2, {a} \union {b})
  BY <1>1, Behind
<1>3. Laid(0, 4, ({a} \union {b}) \union {c})
  BY <1>1, <1>2, Behind
<1>4. Laid(0, 6, (({a} \union {b}) \union {c}) \union {d})
  BY <1>1, <1>3, Behind
<1>5. Laid(0, 8, ((({a} \union {b}) \union {c}) \union {d}) \union {e})
  BY <1>1, <1>4, Behind
<1>6. StatusHead(t) = ((({a} \union {b}) \union {c}) \union {d}) \union {e}
  BY DEF StatusHead, a, b, c, d, e
<1>7. Laid(0, 20, StatusHead(t) \union err)
  BY <1>1, <1>5, <1>6, Behind
<1>8. Laid(0, 32, (StatusHead(t) \union err) \union wrn)
  BY <1>1, <1>7, Behind
<1>9. StatusAnswer(t) = (StatusHead(t) \union err) \union wrn
  BY DEF StatusAnswer, err, wrn, ThreeInts
<1> QED BY <1>8, <1>9

LearnableStatus(t) ==
  [t EXCEPT !.err_info = IF t.err_num = 0 THEN NoInfo ELSE @,
            !.wrn_info = IF t.wrn_num = 0 THEN NoInfo ELSE @]

LEMMA InfoReplaced ==
  ASSUME NEW t \in Statuses, NEW err_info, NEW wrn_info
  PROVE  [t EXCEPT !.err_info = err_info, !.wrn_info = wrn_info] =
           [safeGuard |-> t.safeGuard, eStop |-> t.eStop, operation_mode |-> t.operation_mode,
            err_num |-> t.err_num, wrn_num |-> t.wrn_num,
            err_info |-> err_info, wrn_info |-> wrn_info]
<1> DEFINE new == [t EXCEPT !.err_info = err_info, !.wrn_info = wrn_info]
<1>1. DOMAIN t = {"safeGuard", "eStop", "operation_mode", "err_num", "wrn_num", "err_info", "wrn_info"}
  BY DEF Statuses
<1>2. new = [x \in DOMAIN t |-> IF x = "wrn_info" THEN wrn_info
                                ELSE IF x = "err_info" THEN err_info ELSE t[x]]
  BY <1>1
<1> QED BY <1>1, <1>2

LEMMA StatusRead ==
  ASSUME NEW t \in Statuses, NEW h \in Hosts
  PROVE  Uint82Rc_status(Wire(32, StatusAnswer(t)), temp_rc_status, h) = LearnableStatus(t)
<1> DEFINE fields == StatusAnswer(t)
           wire   == Wire(32, fields)
           Info(first) == [i \in 0 .. 2 |-> Uint82Int(wire, first + 4 * i, h)]
           words  == [i \in 0 .. 2 |-> Uint82Ushort(wire, 2 + 2 * i, h)]
<1>1. Laid(0, 32, fields)
  BY StatusLaid
<1>2. /\ Field(0, Char, t.safeGuard) \in fields /\ Field(1, Char, t.eStop) \in fields
      /\ Field(2, Short, t.operation_mode) \in fields
      /\ Field(4, Short, t.err_num) \in fields /\ Field(6, Short, t.wrn_num) \in fields
  BY DEF StatusAnswer, StatusHead
<1>3. \A i \in 0 .. 2 : /\ Field(8 + 4 * i, UInt, t.err_info[i]) \in fields
                        /\ Field(20 + 4 * i, UInt, t.wrn_info[i]) \in fields
  BY DEF StatusAnswer
<1> HIDE DEF fields
<1>4. Uint8At(wire, 0) = t.safeGuard /\ Uint8At(wire, 1) = t.eStop
  BY <1>1, <1>2, TextRead DEF Uint8At
<1>5. /\ Uint82Ushort(wire, 2, h) = t.operation_mode
      /\ Uint82Ushort(wire, 4, h) = t.err_num /\ Uint82Ushort(wire, 6, h) = t.wrn_num
  BY <1>1, <1>2, NumberRead DEF Uint82Ushort
<1>6. \A i \in 0 .. 2 : /\ Uint82Int(wire, 8 + 4 * i, h) = t.err_info[i]
                        /\ Uint82Int(wire, 20 + 4 * i, h) = t.wrn_info[i]
  BY <1>1, <1>3, NumberRead DEF Uint82Int
<1> HIDE DEF wire
<1>7. words[0] = t.operation_mode /\ words[1] = t.err_num /\ words[2] = t.wrn_num
  BY <1>5
<1>8. /\ t.err_info = [i \in 0 .. 2 |-> t.err_info[i]]
      /\ t.wrn_info = [i \in 0 .. 2 |-> t.wrn_info[i]]
      /\ t = [safeGuard |-> t.safeGuard, eStop |-> t.eStop, operation_mode |-> t.operation_mode,
              err_num |-> t.err_num, wrn_num |-> t.wrn_num,
              err_info |-> t.err_info, wrn_info |-> t.wrn_info]
  BY DEF Statuses, Infos
<1>9. Info(8) = t.err_info /\ Info(20) = t.wrn_info
  BY <1>6, <1>8
<1>10. Uint82Rc_status(wire, temp_rc_status, h) =
         [safeGuard |-> Uint8At(wire, 0), eStop |-> Uint8At(wire, 1),
          operation_mode |-> words[0], err_num |-> words[1], wrn_num |-> words[2],
          err_info |-> IF 0 # words[1] THEN Info(8) ELSE NoInfo,
          wrn_info |-> IF 0 # words[2] THEN Info(20) ELSE NoInfo]
  BY Zenon DEF Uint82Rc_status, temp_rc_status
<1> HIDE DEF words, Info
<1>11. Uint82Rc_status(wire, temp_rc_status, h) =
         [safeGuard |-> t.safeGuard, eStop |-> t.eStop, operation_mode |-> t.operation_mode,
          err_num |-> t.err_num, wrn_num |-> t.wrn_num,
          err_info |-> IF t.err_num = 0 THEN NoInfo ELSE t.err_info,
          wrn_info |-> IF t.wrn_num = 0 THEN NoInfo ELSE t.wrn_info]
  BY <1>4, <1>7, <1>9, <1>10
<1> QED BY <1>11, InfoReplaced DEF LearnableStatus, wire, fields

(* The two messages, each with its size before it; 0 and nothing for no message. *)
MessageTexts == Numbers \union {NoText}
Room(text) == IF text = NoText THEN 2 ELSE 12

LEMMA MessageLaid ==
  ASSUME NEW at \in Nat, NEW text
  PROVE  Laid(at, at + Room(text), Message(at, text))
<1> DEFINE f == Field(at, Short, IF text = NoText THEN 0 ELSE NameSize + 1)
           g == Field(at + 2, NameSize, text)
<1>1. Laid(at, at + 2, {f}) /\ Laid(at + 2, (at + 2) + 9, {g})
  BY OneLaid DEF Short, NameSize
<1>2. Message(at, text) = IF text = NoText THEN {f} ELSE {f} \union {g}
  BY DEF Message
<1> HIDE DEF f, g
<1>3. CASE text = NoText
  BY <1>1, <1>2, <1>3 DEF Room
<1>4. CASE text # NoText
  <2>1. Laid(at, (at + 2) + 9, {f} \union {g})
    BY <1>1, Behind
  <2>2. Laid(at, at + 12, {f} \union {g})
    BY <2>1, Wider
  <2> QED BY <1>2, <1>4, <2>2 DEF Room
<1> QED BY <1>3, <1>4

LEMMA MessageRead ==
  ASSUME NEW n \in Nat, NEW fields, Laid(0, n, fields), NEW at \in Nat, NEW text, NEW h \in Hosts,
         Message(at, text) \subseteq fields
  PROVE  /\ Uint82Ushort(Wire(n, fields), at, h) = IF text = NoText THEN 0 ELSE 10
         /\ text # NoText => Uint82String(Wire(n, fields), at + 2, 9) = text
<1>1. Field(at, Short, IF text = NoText THEN 0 ELSE NameSize + 1) \in fields
  BY DEF Message
<1>2. Uint82Number(Wire(n, fields), Short, at, h) = IF text = NoText THEN 0 ELSE NameSize + 1
  BY <1>1, NumberRead
<1>3. ASSUME text # NoText PROVE Uint82String(Wire(n, fields), at + 2, 9) = text
  <2>1. Field(at + 2, 9, text) \in fields
    BY <1>3 DEF Message, NameSize
  <2>2. Seen(Part(Wire(n, fields), 9, at + 2), 9, "little") = text
    BY <2>1, TextRead
  <2> QED BY <2>2 DEF Uint82String
<1> QED BY <1>2, <1>3 DEF Uint82Ushort, NameSize

MessageAnswer(t) == Message(0, t.wrn_msg) \union Message(Room(t.wrn_msg), t.err_msg)

LEMMA MessagesRead ==
  ASSUME NEW t \in [wrn_msg : MessageTexts, err_msg : MessageTexts], NEW h \in Hosts
  PROVE  Uint82Rrd_ErrWrnMsg_Info(Wire(Room(t.wrn_msg) + 12, MessageAnswer(t)), h) = t
<1> DEFINE second == Room(t.wrn_msg)
           fields == MessageAnswer(t)
           wire   == Wire(second + 12, fields)
           wrn_size == Uint82Ushort(wire, 0, h)
           Text(size, index) == IF size > 0 THEN Uint82String(wire, index, size - 1) ELSE NoText
<1>1. second \in Nat /\ second + 12 \in Nat
  BY DEF Room
<1>2. Laid(0, second + 12, fields)
  <2>1. Laid(0, 0 + second, Message(0, t.wrn_msg))
    BY MessageLaid
  <2>2. Laid(second, second + Room(t.err_msg), Message(second, t.err_msg))
    BY <1>1, MessageLaid
  <2>3. Room(t.err_msg) \in Nat /\ Room(t.err_msg) <= 12
    BY DEF Room
  <2> HIDE DEF second
  <2>4. Laid(second, second + 12, Message(second, t.err_msg))
    BY <1>1, <2>2, <2>3, Wider
  <2>5. Laid(0, second, Message(0, t.wrn_msg))
    BY <1>1, <2>1
  <2>6. Laid(0, second + 12, Message(0, t.wrn_msg) \union Message(second, t.err_msg))
    BY <1>1, <2>4, <2>5, Behind
  <2> QED BY <2>6 DEF MessageAnswer, second
<1>3. Message(0, t.wrn_msg) \subseteq fields /\ Message(second, t.err_msg) \subseteq fields
  BY DEF MessageAnswer
<1> HIDE DEF fields
<1>4. /\ wrn_size = IF t.wrn_msg = NoText THEN 0 ELSE 10
      /\ t.wrn_msg # NoText => Uint82String(wire, 0 + 2, 9) = t.wrn_msg
  <2> HIDE DEF second
  <2> QED BY <1>1, <1>2, <1>3, MessageRead
<1>5. /\ Uint82Ushort(wire, second, h) = IF t.err_msg = NoText THEN 0 ELSE 10
      /\ t.err_msg # NoText => Uint82String(wire, second + 2, 9) = t.err_msg
  <2> HIDE DEF second
  <2> QED BY <1>1, <1>2, <1>3, MessageRead
<1> HIDE DEF wire
<1>6. 2 + wrn_size = second
  BY <1>4 DEF Room
<1>7. Text(wrn_size, 2) = t.wrn_msg
  BY <1>4
<1>8. Text(Uint82Ushort(wire, second, h), second + 2) = t.err_msg
  BY <1>5
<1>9. Uint82Rrd_ErrWrnMsg_Info(wire, h) =
        [wrn_msg |-> Text(wrn_size, 2),
         err_msg |-> Text(Uint82Ushort(wire, 2 + wrn_size, h), (2 + wrn_size) + 2)]
  BY DEF Uint82Rrd_ErrWrnMsg_Info
<1> HIDE DEF wrn_size, Text, second
<1>10. t = [wrn_msg |-> t.wrn_msg, err_msg |-> t.err_msg]
  OBVIOUS
<1>11. Uint82Rrd_ErrWrnMsg_Info(wire, h) = t
  BY <1>6, <1>7, <1>8, <1>9, <1>10
<1> QED BY <1>11 DEF wire, second, fields

(* One number. *)
LEMMA ValueRead ==
  ASSUME NEW t, NEW size \in Nat \ {0}, NEW h \in Hosts
  PROVE  Uint82Number(Wire(size, {Field(0, size, t)}), size, 0, h) = t
<1>1. Laid(0, 0 + size, {Field(0, size, t)})
  BY OneLaid
<1>2. Laid(0, size, {Field(0, size, t)})
  BY <1>1
<1> QED BY <1>2, NumberRead

(* Two formats of one byte each. *)
LEMMA FormatsRead ==
  ASSUME NEW s, NEW r
  PROVE  LET wire == Wire(2, {Field(0, Char, s), Field(1, Char, r)})
         IN Uint8At(wire, 0) = s /\ Uint8At(wire, 1) = r
<1> DEFINE f == Field(0, Char, s)
           g == Field(1, Char, r)
<1>1. Laid(0, 0 + 1, {f}) /\ Laid(1, 1 + 1, {g})
  BY OneLaid DEF Char
<1> HIDE DEF f, g
<1>2. Laid(0, 2, {f} \union {g}) /\ {f} \union {g} = {f, g}
  BY <1>1, Behind
<1>3. Laid(0, 2, {f, g})
  BY <1>2
<1> USE DEF f, g
<1>4. Uint8At(Wire(2, {f, g}), 0) = s /\ Uint8At(Wire(2, {f, g}), 1) = r
  BY <1>3, TextRead DEF Uint8At
<1> QED BY <1>4

(* The inertia and the eccentricity, with room behind them. *)
LEMMA InertiaRead ==
  ASSUME NEW x, NEW y, NEW h \in Hosts
  PROVE  LET wire == Wire(16, {Field(0, Double, x), Field(8, Short, y)})
         IN Uint82Double(wire, 0, h) = x /\ Uint82Ushort(wire, Double, h) = y
<1> DEFINE f == Field(0, 8, x)
           g == Field(8, 2, y)
<1>1. Laid(0, 0 + 8, {f}) /\ Laid(8, 8 + 2, {g})
  BY OneLaid
<1> HIDE DEF f, g
<1>2. Laid(0, 10, {f} \union {g}) /\ {f} \union {g} = {f, g}
  BY <1>1, Behind
<1>3. Laid(0, 16, {f, g})
  BY <1>2, Wider
<1> USE DEF f, g
<1>4. Uint82Number(Wire(16, {f, g}), 8, 0, h) = x /\ Uint82Number(Wire(16, {f, g}), 2, 8, h) = y
  BY <1>3, NumberRead
<1> QED BY <1>4 DEF Uint82Double, Uint82Ushort, Double, Short

LEMMA ByteCount == \A size \in Nat : Cardinality(Bytes(size)) = size
<1> SUFFICES ASSUME NEW size \in Nat PROVE Cardinality(0 .. size - 1) = size
  BY DEF Bytes
<1>1. Cardinality(0 .. size - 1) = IF 0 > size - 1 THEN 0 ELSE (size - 1) - 0 + 1
  BY FS_Interval
<1> QED BY <1>1

(* The robot model, without the terminator that the answer has. *)
LEMMA ModelRead ==
  ASSUME NEW t
  PROVE  LET wire == Wire(NameSize + 1, {Field(0, NameSize, t)})
         IN Uint82String(wire, 0, Cardinality(DOMAIN wire) - 1) = t
<1> DEFINE f == Field(0, 9, t)
           wire == Wire(10, {f})
<1>1. Laid(0, 0 + 9, {f})
  BY OneLaid
<1>2. Laid(0, 10, {f})
  <2> HIDE DEF f
  <2> QED BY <1>1, Wider
<1>3. Seen(Part(wire, 9, 0), 9, "little") = t
  BY <1>2, TextRead
<1>4. Cardinality(DOMAIN wire) - 1 = 9
  <2>1. DOMAIN wire = Bytes(10)
    BY DEF Wire
  <2> QED BY <2>1, ByteCount
<1> HIDE DEF wire
<1>5. Uint82String(wire, 0, Cardinality(DOMAIN wire) - 1) = t
  BY <1>3, <1>4 DEF Uint82String
<1> QED BY <1>5 DEF wire, NameSize

(* The decoder of a call returns what the controller has written for it.       *)
ReadBack(c, t) ==
  /\ Read(c, Written(c, t)) = Learnable(c, t)
  /\ CorrectSize(c) # 0 => DOMAIN Written(c, t) = Bytes(CorrectSize(c))

LEMMA AnswerRead ==
  ASSUME NEW c, NEW t \in Tellings(c), host \in Hosts
  PROVE  ReadBack(c, t)
<1>1. ASSUME NEW n, NEW fields, NEW value, Written(c, t) = Wire(n, fields),
             Read(c, Wire(n, fields)) = value, value = Learnable(c, t),
             CorrectSize(c) = n
      PROVE  ReadBack(c, t)
  BY <1>1 DEF ReadBack, Wire
<1>2. CASE c.cmd = "REQ_EXEC_RTPOS"
  <2>1. t \in [bufstatus : {0, 1}, curpos : Positions, digitalIn : Words]
    BY <1>2, Zenon DEF Tellings
  <2>2. Written(c, t) = Wire(64, ExecAnswer(t)) /\ Learnable(c, t) = t /\ CorrectSize(c) = 64
    BY <1>2, Zenon DEF Written, ExecAnswer, Learnable, CorrectSize
  <2>3. \A e : Read(c, e) = Uint82Rrd_cur_pos(e, host)
    BY <1>2, Zenon DEF Read
  <2> QED BY <1>1, <2>1, <2>2, <2>3, ExecRead
<1>3. CASE c.cmd \in {"SYS_REQ_CURPOS_INFO", "REQ_GET_CURPOS_INFO"}
  <2>1. t \in Positions
    BY <1>3, Zenon DEF Tellings
  <2>2. Written(c, t) = Wire(48, SixDoubles(0, t)) /\ Learnable(c, t) = t /\ CorrectSize(c) = 48
    BY <1>3, Zenon DEF Written, Learnable, CorrectSize
  <2>3. \A e : Read(c, e) = CurrentJA(e, host)
    BY <1>3, Zenon DEF Read
  <2> QED BY <1>1, <2>1, <2>2, <2>3, PositionRead
<1>4. CASE c.cmd = "SYS_REQ_RC_STATUS"
  <2>1. t \in Statuses
    BY <1>4, Zenon DEF Tellings, Statuses
  <2>2. Written(c, t) = Wire(32, StatusAnswer(t)) /\ CorrectSize(c) = 32
    BY <1>4, Zenon DEF Written, StatusAnswer, StatusHead, CorrectSize
  <2>3. Learnable(c, t) = LearnableStatus(t)
    BY <1>4, Zenon DEF Learnable, LearnableStatus
  <2>4. \A e : Read(c, e) = Uint82Rc_status(e, temp_rc_status, host)
    BY <1>4, Zenon DEF Read
  <2> QED BY <1>1, <2>1, <2>2, <2>3, <2>4, StatusRead
<1>5. CASE c.cmd = "SYS_REQ_RC_ERRMSG"
  <2>1. t \in [wrn_msg : MessageTexts, err_msg : MessageTexts]
    BY <1>5, Zenon DEF Tellings, MessageTexts
  <2>2. Learnable(c, t) = t /\ CorrectSize(c) = 0
    BY <1>5, Zenon DEF Learnable, CorrectSize
  <2>3. Written(c, t) = LET second == IF t.wrn_msg = NoText THEN 2 ELSE 2 + NameSize + 1
                        IN Wire(second + 2 + NameSize + 1, Message(0, t.wrn_msg) \union Message(second, t.err_msg))
    BY <1>5, Zenon DEF Written
  <2>4. (IF t.wrn_msg = NoText THEN 2 ELSE 2 + NameSize + 1) = Room(t.wrn_msg)
        /\ Room(t.wrn_msg) + 2 + NameSize + 1 = Room(t.wrn_msg) + 12
    BY DEF Room, NameSize
  <2>5. Written(c, t) = Wire(Room(t.wrn_msg) + 12, MessageAnswer(t))
    BY <2>3, <2>4, Zenon DEF MessageAnswer
  <2>6. \A e : Read(c, e) = Uint82Rrd_ErrWrnMsg_Info(e, host)
    BY <1>5, Zenon DEF Read
  <2> QED BY <2>1, <2>2, <2>5, <2>6, MessagesRead DEF ReadBack
<1>6. CASE c.cmd = "SYS_REQ_RTMC_FORMAT_INFO"
  <2> DEFINE fields == {Field(0, Char, t.send), Field(1, Char, t.recv)}
  <2>1. t \in [send : 0 .. 2, recv : 0 .. 2]
    BY <1>6, Zenon DEF Tellings
  <2>2. Written(c, t) = Wire(2, fields) /\ Learnable(c, t) = t /\ CorrectSize(c) = 2
    BY <1>6, Zenon DEF Written, Learnable, CorrectSize
  <2>3. \A e : Read(c, e) = [send |-> Uint8At(e, 0), recv |-> Uint8At(e, 1)]
    BY <1>6, Zenon DEF Read
  <2>4. Uint8At(Wire(2, fields), 0) = t.send /\ Uint8At(Wire(2, fields), 1) = t.recv
    BY FormatsRead
  <2>5. t = [send |-> t.send, recv |-> t.recv]
    BY <2>1
  <2> HIDE DEF fields
  <2> QED BY <1>1, <2>2, <2>3, <2>4, <2>5
<1>7. CASE c.cmd \in {"REQ_GET_DO", "REQ_GET_DI"}
  <2>1. Written(c, t) = Wire(2, {Field(0, Short, t)}) /\ Learnable(c, t) = t /\ CorrectSize(c) = 2
    BY <1>7, Zenon DEF Written, Learnable, CorrectSize
  <2>2. Read(c, Wire(2, {Field(0, Short, t)})) = Uint82Number(Wire(2, {Field(0, Short, t)}), Short, 0, host)
    BY <1>7, Zenon DEF Read, Uint82Ushort
  <2>3. Uint82Number(Wire(2, {Field(0, Short, t)}), Short, 0, host) = t
    BY ValueRead DEF Short
  <2> QED BY <1>1, <2>1, <2>2, <2>3
<1>8. CASE c.cmd = "REQ_GET_WEIGHT"
  <2>1. Written(c, t) = Wire(8, {Field(0, Double, t)}) /\ Learnable(c, t) = t /\ CorrectSize(c) = 8
    BY <1>8, Zenon DEF Written, Learnable, CorrectSize
  <2>2. Read(c, Wire(8, {Field(0, Double, t)})) = Uint82Number(Wire(8, {Field(0, Double, t)}), Double, 0, host)
    BY <1>8, Zenon DEF Read, Uint82Double
  <2>3. Uint82Number(Wire(8, {Field(0, Double, t)}), Double, 0, host) = t
    BY ValueRead DEF Double
  <2> QED BY <1>1, <2>1, <2>2, <2>3
<1>9. CASE c.cmd = "REQ_GET_INERTIA" /\ c.eccentric
  <2> DEFINE fields == {Field(0, Double, t.inertia), Field(8, Short, t.eccentricity)}
  <2>1. t \in [inertia : Loads, eccentricity : Words]
    BY <1>9, Zenon DEF Tellings
  <2>2. Written(c, t) = Wire(16, fields) /\ Learnable(c, t) = t /\ CorrectSize(c) = 16
    BY <1>9, Zenon DEF Written, Learnable, CorrectSize
  <2>3. \A e : Read(c, e) = [inertia |-> Uint82Double(e, 0, host),
                             eccentricity |-> Uint82Ushort(e, Double, host)]
    BY <1>9, Zenon DEF Read
  <2>4. Uint82Double(Wire(16, fields), 0, host) = t.inertia
        /\ Uint82Ushort(Wire(16, fields), Double, host) = t.eccentricity
    BY InertiaRead
  <2>5. t = [inertia |-> t.inertia, eccentricity |-> t.eccentricity]
    BY <2>1
  <2> HIDE DEF fields
  <2> QED BY <1>1, <2>2, <2>3, <2>4, <2>5
<1>10. CASE c.cmd = "REQ_GET_INERTIA" /\ ~ c.eccentric
  <2> DEFINE fields == {Field(0, Double, t.inertia)}
  <2>1. Written(c, t) = Wire(8, fields) /\ Learnable(c, t) = t.inertia /\ CorrectSize(c) = 8
    BY <1>10, Zenon DEF Written, Learnable, CorrectSize
  <2>2. Read(c, Wire(8, fields)) = Uint82Number(Wire(8, fields), Double, 0, host)
    BY <1>10, Zenon DEF Read, Uint82Double
  <2>3. Uint82Number(Wire(8, fields), Double, 0, host) = t.inertia
    BY ValueRead DEF Double
  <2> HIDE DEF fields
  <2> QED BY <1>1, <2>1, <2>2, <2>3
<1>11. CASE c.cmd = "REQ_GET_ROBOTMODEL"
  <2> DEFINE wire == Wire(NameSize + 1, {Field(0, NameSize, t)})
  <2>1. Written(c, t) = wire /\ Learnable(c, t) = t /\ CorrectSize(c) = 0
    BY <1>11, Zenon DEF Written, Learnable, CorrectSize
  <2>2. Read(c, wire) = Uint82String(wire, 0, Cardinality(DOMAIN wire) - 1)
    BY <1>11, Zenon DEF Read
  <2>3. Uint82String(wire, 0, Cardinality(DOMAIN wire) - 1) = t
    BY ModelRead
  <2> HIDE DEF wire
  <2> QED BY <2>1, <2>2, <2>3 DEF ReadBack
<1>12. CASE c.cmd \notin {"REQ_EXEC_RTPOS", "SYS_REQ_CURPOS_INFO", "REQ_GET_CURPOS_INFO",
                         "SYS_REQ_RC_STATUS", "SYS_REQ_RC_ERRMSG", "SYS_REQ_RTMC_FORMAT_INFO",
                         "REQ_GET_DO", "REQ_GET_DI", "REQ_GET_WEIGHT", "REQ_GET_INERTIA",
                         "REQ_GET_ROBOTMODEL"}
  <2>1. t = 0
    BY <1>12, Zenon DEF Tellings
  <2>2. Read(c, Written(c, t)) = 0 /\ Learnable(c, t) = t /\ CorrectSize(c) = 0
    BY <1>12, Zenon DEF Read, Learnable, CorrectSize
  <2> QED BY <2>1, <2>2 DEF ReadBack
<1> QED BY <1>2, <1>3, <1>4, <1>5, <1>6, <1>7, <1>8, <1>9, <1>10, <1>11, <1>12, Zenon
--------------------------------------------------------------------------------
(* What the client has to read is what the controller has written, with a size *)
(* of its own if the command has one.                                         *)
Answering ==
  /\ host \in Hosts
  /\ pc = "answered" =>
       \/ HIWORD(answer.dword) = 0
       \/ /\ told \in Tellings(call)
          /\ \E size \in Nat :
               answer.exData = IF CorrectSize(call) = 0 THEN Written(call, told)
                               ELSE Truncated(Written(call, told), size)
  /\ Understood

(* These depend on the call and on what was told alone. *)
LEMMA SameAnswer ==
  ASSUME NEW c, NEW t, call' = c, told' = t
  PROVE  /\ Learnable(call, told)' = Learnable(c, t)
         /\ Written(call, told)' = Written(c, t)
         /\ Tellings(call)' = Tellings(c)
         /\ CorrectSize(call)' = CorrectSize(c)
  BY Zenon DEF Learnable, Written, Tellings, CorrectSize

(* An answer that Check_exDataSize lets pass is whole. *)
LEMMA Whole ==
  ASSUME Answering, pc = "answered", Succeeds
  PROVE  told \in Tellings(call) /\ answer.exData = Written(call, told)
<1>1. told \in Tellings(call)
  BY DEF Answering, Succeeds
<1>2. PICK size \in Nat :
        answer.exData = IF CorrectSize(call) = 0 THEN Written(call, told)
                        ELSE Truncated(Written(call, told), size)
  BY DEF Answering, Succeeds
<1>3. CASE CorrectSize(call) # 0
  <2> DEFINE w == Written(call, told)
  <2>1. DOMAIN w = Bytes(CorrectSize(call))
    BY <1>1, <1>3, AnswerRead DEF ReadBack, Answering
  <2>2. w = [j \in Bytes(CorrectSize(call)) |-> w[j]]
    <3>1. \E n, fields : w = Wire(n, fields)
      BY <1>3, Zenon DEF Written, CorrectSize
    <3> HIDE DEF w
    <3> QED BY <2>1, <3>1 DEF Wire
  <2> HIDE DEF w
  <2>3. answer.exData = [j \in Bytes(size) |-> IF j \in DOMAIN w THEN w[j] ELSE <<0, 0>>]
    BY <1>2, <1>3 DEF Truncated, w
  <2>4. Cardinality(Bytes(size)) = CorrectSize(call)
    BY <1>3, <2>3 DEF Succeeds, Check_exDataSize
  <2>5. size = CorrectSize(call)
    BY <2>4, ByteCount
  <2>6. answer.exData = w
    BY <2>1, <2>2, <2>3, <2>5
  <2> QED BY <1>1, <2>6 DEF w
<1> QED BY <1>1, <1>2, <1>3

LEMMA AcceptUnderstands ==
  ASSUME Answering, Accept
  PROVE  Understood'
<1>1. told \in Tellings(call) /\ answer.exData = Written(call, told)
  BY Whole DEF Accept
<1>2. Read(call, answer.exData) = Learnable(call, told)
  BY <1>1, AnswerRead DEF ReadBack, Answering
<1>3. Learnable(call, told)' = Learnable(call, told)
  BY SameAnswer DEF Accept
<1>4. result' = [value |-> Learnable(call, told)]
  BY <1>2 DEF Accept
<1> QED BY <1>3, <1>4 DEF Understood

LEMMA AnsweringStep == Answering /\ [Next]_vars => Answering'
<1> SUFFICES ASSUME Answering, [Next]_vars PROVE Answering'
  OBVIOUS
<1>1. ASSUME NEW c, Ask(c), host' = host PROVE Answering'
  BY <1>1 DEF Ask, Answering, Understood
<1>2. ASSUME Fail, host' = host PROVE Answering'
  BY <1>2 DEF Fail, Answering, Understood
<1>3. ASSUME NEW c \in Calls, Call(c) PROVE Answering'
  BY <1>1, <1>3 DEF Call
<1>4. ASSUME NEW name \in Names, RBCheckRefused(name) PROVE Answering'
  BY <1>2, <1>4 DEF RBCheckRefused
<1>5. ASSUME NEW c, RTMC_Connect(c) \/ Continue(c) PROVE Answering'
  BY <1>1, <1>5 DEF RTMC_Connect, Continue, client
<1>6. CASE RTMC_DisConnect \/ Unanswered \/ AnswerLost \/ Reject \/ Refused
  BY <1>2, <1>6 DEF RTMC_DisConnect, Unanswered, AnswerLost, Reject, Refused, client
<1>7. ASSUME NEW t \in Tellings(call), NEW size \in AnswerSizes, RCAnswers(t, size) PROVE Answering'
  <2>1. /\ call' = call /\ told' = t /\ host' = host /\ pc' = "answered"
        /\ answer'.exData = IF CorrectSize(call) = 0 THEN Written(call, t)
                            ELSE Truncated(Written(call, t), size)
    BY <1>7 DEF RCAnswers, client
  <2>2. /\ Written(call, told)' = Written(call, t) /\ Tellings(call)' = Tellings(call)
        /\ CorrectSize(call)' = CorrectSize(call)
    BY <2>1, SameAnswer
  <2>3. size \in Nat
    BY DEF AnswerSizes
  <2>4. Understood'
    BY <2>1 DEF Understood
  <2> QED BY <2>1, <2>2, <2>3, <2>4 DEF Answering, Truncated
<1>8. CASE RCRefuses
  <2>1. HIWORD(5) = 0
    BY DEF HIWORD
  <2> QED BY <1>8, <2>1 DEF RCRefuses, client, Answering, Understood, HIWORD
<1>9. CASE Accept
  BY <1>9, AcceptUnderstands DEF Accept, Answering
<1>10. CASE UNCHANGED vars
  <2>1. /\ Learnable(call, told)' = Learnable(call, told)
        /\ Written(call, told)' = Written(call, told)
        /\ Tellings(call)' = Tellings(call) /\ CorrectSize(call)' = CorrectSize(call)
    BY <1>10, SameAnswer DEF vars
  <2> QED BY <1>10, <2>1 DEF vars, Answering, Understood, HIWORD, Truncated
<1> QED BY <1>3, <1>4, <1>5, <1>6, <1>7, <1>8, <1>9, <1>10 DEF Next

(* What a successful call returns is what the controller told, for all        *)
(* numbers, loads and names, both byte orders and answers of every size        *)
(* (Check_exDataSize, Uint82Rrd_cur_pos, Uint82Rc_status,                      *)
(* Uint82Rrd_ErrWrnMsg_Info, Uint82Double, Uint82Ushort, Uint82String).        *)
THEOREM UnderstoodTheorem == Spec => []Understood
<1>1. Init => Answering
  BY DEF Init, Answering, Understood
<1>2. Answering => Understood
  BY DEF Answering
<1> QED BY <1>1, <1>2, AnsweringStep, PTL DEF Spec
================================================================================
