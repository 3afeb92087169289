--------------------------- MODULE ControlPacket ---------------------------
(***************************************************************************)
(* The packets of the control port (Control, control.cpp): their bytes,    *)
(* their sums, how packets are found in what was read, and what is         *)
(* answered.                                                               *)
(***************************************************************************)
EXTENDS Integers, Sequences, SequencesExt

CONSTANT MAX_DATA_SIZE    \* bytes of data in pkt_t, 26 in the code; a length is a byte

ASSUME ControlPacketAssumption == MAX_DATA_SIZE \in 3 .. 255

(* The commands; a name is the one of the source after VISYS_VC_.          *)
PING == 0
GET_SW_VER == 1
GET_TIME == 2
TIME_NOTIFY == 3
SET_TIME == 4
GET_DATE == 5
DATE_NOTIFY == 6
SET_DATE == 7
GET_STATUS == 8
STATUS_NOTIFY == 9
GET_MODE == 10
MODE_NOTIFY == 11
SET_MODE == 12
SW_VER_NOTIFY == 13

Self == 3                 \* the address of the board
PacketSize == MAX_DATA_SIZE + 5
CRC_OFFSET == 137

(* A packet; high is ack and req, the upper bits of cmd's byte.            *)
pkt_t == [dst : 0 .. 15, src : 0 .. 15, cmd : 0 .. 31, high : 0 .. 7, data : Seq(0 .. 255)]

crc(bytes, start) ==
  LET sum[n \in 0 .. Len(bytes)] == IF n = 0 THEN start ELSE (sum[n - 1] + bytes[n]) % 256
  IN  sum[Len(bytes)]

(* The bytes of a packet.  One without data has only the first of the two  *)
(* sums.                                                                   *)
Bytes(r) ==
  LET head == <<r.dst + 16 * r.src, r.cmd + 32 * r.high, Len(r.data)>>
      crch == crc(head, CRC_OFFSET)
  IN  head \o <<crch>> \o (IF r.data = <<>> THEN <<>> ELSE r.data \o <<crc(r.data, crch)>>)

full_len(length) == IF length = 0 THEN 4 ELSE length + 5

(* A packet at the front of buf is complete; how it is understood.         *)
Complete(buf) == Len(buf) > 2 /\ Len(buf) >= full_len(buf[3])
FirstPacket(buf) ==
  LET n == full_len(buf[3])
      crch == crc(SubSeq(buf, 1, 3), CRC_OFFSET)
  IN  [dst |-> buf[1] % 16, src |-> buf[1] \div 16, cmd |-> buf[2] % 32,
       data |-> IF n = 4 THEN <<>> ELSE SubSeq(buf, 5, n - 1),
       valid |-> buf[4] = crch /\ (n = 4 \/ buf[n] = crc(SubSeq(buf, 5, n - 1), crch))]

Accepted(p) == p.dst = Self /\ p.valid

(* Fault: one packet is looked for in what was read, not all of them. *)
ParseOne(buf) ==
  IF Complete(buf)
  THEN [rest |-> SubSeq(buf, full_len(buf[3]) + 1, Len(buf)), packets |-> <<FirstPacket(buf)>>,
        overrun |-> full_len(buf[3]) > PacketSize]
  ELSE [rest |-> buf, packets |-> <<>>, overrun |-> FALSE]

(* Fault: the sum after the data is taken for the next packet. *)
ParseShort(buf) ==
  LET f[b \in Seq(0 .. 255)] ==
        IF ~Complete(b) THEN [rest |-> b, packets |-> <<>>, overrun |-> FALSE]
        ELSE LET n == full_len(b[3])
                 r == f[SubSeq(b, IF n = 4 THEN n + 1 ELSE n, Len(b))]
             IN  [r EXCEPT !.packets = <<FirstPacket(b)>> \o @, !.overrun = @ \/ n > PacketSize]
  IN  f[buf]

(* The loop of parse(): the packets in buf and what is left; a packet that *)
(* is longer than pkt_t is copied over its end.                            *)
Parse(buf) ==
  LET f[b \in Seq(0 .. 255)] ==
        IF ~Complete(b) THEN [rest |-> b, packets |-> <<>>, overrun |-> FALSE]
        ELSE LET n == full_len(b[3])
                 r == f[SubSeq(b, n + 1, Len(b))]
             IN  [r EXCEPT !.packets = <<FirstPacket(b)>> \o @, !.overrun = @ \/ n > PacketSize]
  IN  f[buf]

(* Byte i of the data; what a short packet does not have is what was on    *)
(* the stack.                                                              *)
Data(p, i, junk) == IF i <= Len(p.data) THEN p.data[i] ELSE junk

(* dispatch(): s is the state of the board, [time, date, mode, status];    *)
(* the answer, and the state after it.                                     *)
TimeOk(d) == d[1] <= 23 /\ d[2] <= 59 /\ d[3] <= 59
DateOk(d) == d[1] > 70 /\ d[1] < 138 /\ d[2] <= 11 /\ d[3] <= 31
Reply(p, cmd, high, data) == [dst |-> p.src, cmd |-> cmd, high |-> high, data |-> data]
Done == 4
Refused == 5

dispatch(p, s, junk) ==
  LET d == <<Data(p, 1, junk), Data(p, 2, junk), Data(p, 3, junk)>>
      Is(c) == p.cmd = c
  IN  CASE Is(PING) -> [s |-> s, ans |-> Reply(p, PING, Done, <<>>)]
        [] Is(GET_TIME) -> [s |-> s, ans |-> Reply(p, TIME_NOTIFY, 0, s.time)]
        [] Is(SET_TIME) -> [s |-> IF TimeOk(d) THEN [s EXCEPT !.time = d] ELSE s,
                            ans |-> Reply(p, SET_TIME, IF TimeOk(d) THEN Done ELSE Refused, <<>>)]
        [] Is(GET_DATE) -> [s |-> s, ans |-> Reply(p, DATE_NOTIFY, 0, s.date)]
        [] Is(SET_DATE) -> [s |-> IF DateOk(d) THEN [s EXCEPT !.date = d] ELSE s,
                            ans |-> Reply(p, SET_DATE, IF DateOk(d) THEN Done ELSE Refused, <<>>)]
        [] Is(GET_STATUS) -> [s |-> s, ans |-> Reply(p, STATUS_NOTIFY, 0, s.status)]
        [] Is(GET_SW_VER) -> [s |-> s, ans |-> Reply(p, SW_VER_NOTIFY, 0, s.version)]
        [] Is(GET_MODE) -> [s |-> s, ans |-> Reply(p, MODE_NOTIFY, 0, <<s.mode>>)]
        [] Is(SET_MODE) -> [s |-> [s EXCEPT !.mode = d[1]], ans |-> Reply(p, SET_MODE, Done, <<>>)]
        [] OTHER -> [s |-> s, ans |-> Reply(p, p.cmd, Refused, <<>>)]
=============================================================================
