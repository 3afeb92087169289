---------------------------- MODULE CameraLink -----------------------------
(***************************************************************************)
(* What goes over the auxiliary port between the configurator and the      *)
(* board (auxiliary.h): commands for the infrared camera and what it says  *)
(* (flir.cpp, camregisteredit.cpp), and registers of the FPGA (main.cpp,   *)
(* servercmds.cpp, registeredit.cpp).                                      *)
(***************************************************************************)
EXTENDS Integers, Sequences, SequencesExt, Bitwise

TimestampType == 1
RegisterValType == 2
CameraRegisterValType == 3
Piece == 8                \* bytes of a camera's message in a packet

LE16(n) == <<n % 256, (n \div 256) % 256>>
LE32(n) == LE16(n % 65536) \o LE16(n \div 65536)
BE16(n) == <<n \div 256, n % 256>>
From16(b) == b[1] + 256 * b[2]
From32(b) == From16(b) + 65536 * From16(SubSeq(b, 3, 4))

(* The 16-bit sum of a message: polynomial 0x1021, from 0 on, the high     *)
(* byte going out bit by bit.                                              *)
Bit(c) == IF c >= 32768 THEN ((2 * c) % 65536) ^^ 4129 ELSE 2 * c
Byte[b \in 0 .. 255] == Bit(Bit(Bit(Bit(Bit(Bit(Bit(Bit(256 * b))))))))
Add(c, b) == ((256 * c) % 65536) ^^ Byte[(c \div 256) ^^ b]
crc(bytes) == FoldLeft(Add, 0, bytes)

Summed(bytes) == bytes \o BE16(crc(bytes))

(* Flir::send(): a command with its arguments; the second sum is of all    *)
(* that comes before it.                                                   *)
Command(cmd, args) == Summed(Summed(<<110, 0, 0, cmd>> \o BE16(Len(args))) \o args)

(* send_command() of the window: the same message, if one byte was typed   *)
(* as the command.                                                         *)
send_command(cmd, args) == IF Len(cmd) # 1 THEN <<>> ELSE Command(cmd[1], args)

(* What Flir::send() means to be the dangerous command for the shutter. *)
Rejected(msg) == msg[1] = 110 /\ msg[5] = 121
-----------------------------------------------------------------------------
(* A packet of the auxiliary port; only pieces of a camera's message have  *)
(* their size set, what other packets and the end of a last piece hold is  *)
(* what was on the stack.                                                  *)
Pkt(type, size, data) == LE16(type) \o LE16(size) \o data
Type(pkt) == From16(pkt)
Size(pkt) == From16(SubSeq(pkt, 3, 4))
Val(pkt) == SubSeq(pkt, 5, Len(pkt))

SendTimestamp(sec, usec, junk) == Pkt(TimestampType, junk, LE32(sec) \o LE32(usec))
SendRegisterVal(addr, val, junk) == Pkt(RegisterValType, junk, LE32(addr % 256) \o LE32(val % 65536))

(* A message in pieces. *)
SendCameraRegisterVal(msg, junk) ==
  [i \in 1 .. (Len(msg) + Piece - 1) \div Piece |->
     LET part == SubSeq(msg, Piece * (i - 1) + 1, IF Piece * i < Len(msg) THEN Piece * i ELSE Len(msg))
     IN  Pkt(CameraRegisterValType, Len(part), part \o [k \in 1 .. Piece - Len(part) |-> junk])]

(* AuxCb() of the window: what it adds to the text. *)
Heard(me, camera, pkt) ==
  IF camera = me /\ Type(pkt) = CameraRegisterValType THEN SubSeq(Val(pkt), 1, Size(pkt)) ELSE <<>>
-----------------------------------------------------------------------------
(* The registers of the FPGA are words; regs is a function on their        *)
(* numbers.  setReg() takes eight bits of an address, GetRegister() too.   *)
setReg(regs, addr, val) == [regs EXCEPT ![(addr % 256) \div 2] = val % 65536]
GetRegister(regs, addr) == regs[addr \div 2]

(* auxiliaryCb() of the board; what is for the camera is not passed on.    *)
auxiliaryCb(regs, me, camera, pkt) ==
  IF camera = me /\ Type(pkt) = RegisterValType
  THEN setReg(regs, From32(Val(pkt)), From32(SubSeq(Val(pkt), 5, 8)))
  ELSE regs

(* RegisterEdit: the lower half of an int that is -1 is written, and a     *)
(* value is shown when the int is not -1 any more: {} if it is not.        *)
Shown(pkt) ==
  LET val == From32(SubSeq(Val(pkt), 5, 8)) % 65536
  IN  IF Type(pkt) = RegisterValType /\ val # 65535 THEN {val} ELSE {}
=============================================================================
