------------------------------- MODULE DataFormat -------------------------------
(***************************************************************************)
(* DataFormatConverter: numbers and strings to the bytes of the extra data  *)
(* of a request, and back.  The extra data are little-endian; the host may  *)
(* have either order.  A value is what it is to this code: something of a   *)
(* known size whose i-th byte, counted from the least significant one, is   *)
(* <<value, i>>.  Byte vectors are functions on 0 .. size - 1.               *)
(***************************************************************************)
EXTENDS Integers

CONSTANT Garbled   \* what a reader gets that finds bytes which are no value

Hosts == {"little", "big"}

Char == 1     \* sizes in bytes
Short == 2
UInt == 4
Double == 8

Bytes(size)  == 0 .. size - 1
Zeros(size)  == [i \in Bytes(size) |-> <<0, 0>>]
NoText       == 0   \* the empty string

(* The bytes of a value in the memory of the host, in the order of addresses. *)
Memory(value, size, host) ==
  [i \in Bytes(size) |-> <<value, IF host = "little" THEN i ELSE size - 1 - i>>]

(* The value that the host sees in these bytes of its memory. *)
Seen(memory, size, host) ==
  IF memory = Memory(memory[0][1], size, host) THEN memory[0][1] ELSE Garbled

(* memcpy into and out of a vector. *)
Copied(bytes, size, vector, index) ==
  [j \in DOMAIN vector |-> IF j - index \in Bytes(size) THEN bytes[j - index] ELSE vector[j]]
Part(vector, size, index) ==
  [i \in Bytes(size) |-> IF index + i \in DOMAIN vector THEN vector[index + i] ELSE <<Garbled, i>>]
----------------------------------------------------------------------------------
(* A variant: the byte order is kept. *)
CopyEndian_B2L(in_exdata, out_exdata, size, index) == Copied(in_exdata, size, out_exdata, index)

ChangeEndian_B2L(in_exdata, out_exdata, size, index) ==
  [j \in DOMAIN out_exdata |->
     IF j - index \in Bytes(size) THEN in_exdata[size - 1 - (j - index)] ELSE out_exdata[j]]

ChangeEndian_L2B(in_exdata, out_exdata, size, index) ==
  [j \in DOMAIN out_exdata |-> Part(in_exdata, size, index)[size - 1 - j]]

LittleEndian(host) == Memory(1, Short, host)[0] = <<1, 0>>

(* Double2Uint8 and Ushort2Uint8, which differ in the size; line 68 copies    *)
(* more bytes than the value has, of which the two of the value are used.     *)
Number2Uint8(value, size, exdata, index, host) ==
  LET temp_exdata == Memory(value, size, host)
  IN IF ~ LittleEndian(host) THEN ChangeEndian_B2L(temp_exdata, exdata, size, index)
     ELSE Copied(temp_exdata, size, exdata, index)

Double2Uint8(value, exdata, index, host) == Number2Uint8(value, Double, exdata, index, host)
Ushort2Uint8(value, exdata, index, host) == Number2Uint8(value, Short, exdata, index, host)

(* Uint82Double, Uint82Ushort, Uint82Uint and Uint82Int. *)
Uint82Number(exdata, size, index, host) ==
  LET memory == IF ~ LittleEndian(host) THEN ChangeEndian_L2B(exdata, Zeros(size), size, index)
                ELSE Part(exdata, size, index)
  IN Seen(memory, size, host)

Uint82Double(exdata, index, host) == Uint82Number(exdata, Double, index, host)
Uint82Ushort(exdata, index, host) == Uint82Number(exdata, Short, index, host)
Uint82Uint(exdata, index, host)   == Uint82Number(exdata, UInt, index, host)
Uint82Int(exdata, index, host)    == Uint82Number(exdata, UInt, index, host)

(* One byte; strings are copied byte by byte, on every host alike. *)
Uint8At(exdata, index) == Seen(Part(exdata, Char, index), Char, "little")
String2Uint8(text, size, exdata, index) == Copied(Memory(text, size, "little"), size, exdata, index)
Uint82String(exdata, index, size) ==
  IF size = 0 THEN NoText ELSE Seen(Part(exdata, size, index), size, "little")
----------------------------------------------------------------------------------
(* The layouts of the extra data. *)

Joints == 0 .. 5

OFFSET_RRD_CUR_POS_RB == 8
OFFSET_RRD_CUR_POS_IO == 56
OFFSET_RRD_RT_POS_IO  == 48

Rrdrtpos2Uint8(rtpos, exdata, digitalOut, host) ==
  LET Joint(i) == Double2Uint8(rtpos[i], exdata, i * 8, host)
      joints   == [j \in DOMAIN exdata |-> IF j < 48 THEN Joint(j \div 8)[j] ELSE exdata[j]]
  IN Ushort2Uint8(digitalOut, joints, OFFSET_RRD_RT_POS_IO, host)

Uint82Rrd_cur_pos(exdata, host) ==
  [bufstatus |-> Uint8At(exdata, 0),
   curpos    |-> [i \in Joints |-> Uint82Double(exdata, OFFSET_RRD_CUR_POS_RB + i * 8, host)],
   digitalIn |-> Uint82Uint(exdata, OFFSET_RRD_CUR_POS_IO, host)]

(* The six joints of SYS_REQ_CURPOS_INFO, REQ_GET_CURPOS_INFO and SYS_NOTICE_CURPOS. *)
CurrentJA(exdata, host) == [i \in Joints |-> Uint82Double(exdata, i * 8, host)]

(* The additional information is read only if its number is not the err_num  *)
(* of the structure passed in, of the warning as of the error.                *)
NoInfo == [i \in 0 .. 2 |-> 0]
Uint82Rc_status(exdata, passed, host) ==
  LET opmode_err_wrn == [i \in 0 .. 2 |-> Uint82Ushort(exdata, 2 + 2 * i, host)]
      Info(first)    == [i \in 0 .. 2 |-> Uint82Int(exdata, first + 4 * i, host)]
      err_num == opmode_err_wrn[1]
      wrn_num == opmode_err_wrn[2]
  IN [safeGuard |-> Uint8At(exdata, 0), eStop |-> Uint8At(exdata, 1),
      operation_mode |-> opmode_err_wrn[0], err_num |-> err_num, wrn_num |-> wrn_num,
      err_info |-> IF passed.err_num # err_num THEN Info(8) ELSE NoInfo,
      wrn_info |-> IF passed.err_num # wrn_num THEN Info(20) ELSE NoInfo]

(* A size includes the terminator; 0 means that there is no message.           *)
Uint82Rrd_ErrWrnMsg_Info(exdata, host) ==
  LET wrn_msg_size == Uint82Ushort(exdata, 0, host)
      second       == 2 + wrn_msg_size
      err_msg_size == Uint82Ushort(exdata, second, host)
      Message(size, index) == IF size > 0 THEN Uint82String(exdata, index, size - 1) ELSE NoText
  IN [wrn_msg |-> Message(wrn_msg_size, 2), err_msg |-> Message(err_msg_size, second + 2)]
----------------------------------------------------------------------------------
(* The 32-bit parameter of a request or an answer and the 16-bit one in it.    *)

MAKEWORD(l, h)   == l + 65536 * h
HIWORD(hl)       == (hl \div 65536) % 65536
LOWORD(hl)       == hl % 65536
MAKEUSHORT(l, h) == (l + 256 * h) % 65536
HIBYTE(hl)       == (hl \div 256) % 256
LOWBYTE(hl)      == hl % 256
=================================================================================
