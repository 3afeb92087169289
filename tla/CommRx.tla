------------------------------- MODULE CommRx -------------------------------
(***************************************************************************)
(* The receive side of class Comm: recv_chunk() finds packets in whatever  *)
(* pieces the serial port delivers the byte stream.  Bytes arrive in one   *)
(* of two buffers; when one is full the rest of it is remembered and the   *)
(* packet that straddles the two is put together from both.  The handler   *)
(* runs alone on the asio thread; each turn of its loop is a step here.    *)
(***************************************************************************)
EXTENDS Integers, Sequences

CONSTANTS PktLen,   \* sizeof(Pkt)
          BufLen,   \* CHUNK_SIZE
          Pre,      \* PREAMBLE
          Others,   \* bytes that are not PREAMBLE
          MaxBytes  \* bound: bytes the peer sends

ASSUME CommRxAssumption ==
  /\ PktLen \in Nat \ {0}
  /\ BufLen \in Nat /\ BufLen >= PktLen
  /\ Pre \notin Others
  /\ MaxBytes \in Nat

VARIABLES
  stream,   \* everything the peer sends
  seen,     \* bytes of it the port has delivered
  inbuf,    \* m_in_buf
  ff,       \* m_in_ff_idx
  cur,      \* m_cur, an offset in inbuf[ff]
  pend,     \* end of the bytes received in inbuf[ff]
  remains,  \* m_remains: bytes left at the end of the other buffer
  pc,       \* where the handler is
  got       \* packets given to recv_pkt()

vars == <<stream, seen, inbuf, ff, cur, pend, remains, pc, got>>

Bytes == Others \union {Pre}
Offsets == 0 .. BufLen - 1

Init == /\ stream \in [1 .. MaxBytes -> Bytes]
        /\ seen = 0
        /\ inbuf = [i \in 0 .. 1 |-> [o \in Offsets |-> Pre]]
        /\ ff = 0 /\ cur = 0 /\ pend = 0 /\ remains = 0
        /\ pc = "wait"
        /\ got = <<>>

(* std::find(): the first preamble of b in [from, to), or to. *)
Find(b, from, to) ==
  CHOOSE i \in from .. to :
    /\ i = to \/ b[i] = Pre
    /\ \A j \in from .. i - 1 : b[j] # Pre

(* n bytes of b from offset i on. *)
Piece(b, i, n) == [k \in 1 .. n |-> b[i + k - 1]]

(* The port delivers n more bytes behind those of the current buffer; an   *)
(* error that comes with bytes is only logged.                             *)
Receive(n) ==
  /\ pc = "wait"
  /\ n <= BufLen - pend /\ seen + n <= MaxBytes
  /\ inbuf' = [inbuf EXCEPT ![ff] =
                 [o \in Offsets |-> IF o \in pend .. pend + n - 1
                                    THEN stream[seen + o - pend + 1] ELSE @[o]]]
  /\ pend' = pend + n
  /\ seen' = seen + n
  /\ pc' = "loop"
  /\ UNCHANGED <<stream, ff, cur, remains, got>>

(* An error without bytes ends reception: no further read is started. *)
ReceiveError == /\ pc = "wait"
                /\ pc' = "stopped"
                /\ UNCHANGED <<stream, seen, inbuf, ff, cur, pend, remains, got>>

(* The condition of the loop. *)
Loop == /\ pc = "loop"
        /\ pc' = IF remains + pend - cur < PktLen THEN "rearm"
                 ELSE IF remains > 0 THEN "straddle" ELSE "scan"
        /\ UNCHANGED <<stream, seen, inbuf, ff, cur, pend, remains, got>>

(* A packet that begins in the bytes left in the other buffer. *)
Straddle ==
  LET old   == inbuf[1 - ff]
      start == Find(old, BufLen - remains, BufLen)
      len   == BufLen - start
  IN
  /\ pc = "straddle"
  /\ IF len + pend - cur < PktLen
     THEN /\ remains' = len
          /\ pc' = "rearm"
          /\ UNCHANGED <<cur, got>>
     ELSE /\ remains' = 0
          /\ pc' = "scan"
          /\ IF len = 0
             THEN UNCHANGED <<cur, got>>
             ELSE /\ got' = Append(got, Piece(old, start, len)
                                        \o Piece(inbuf[ff], cur, PktLen - len))
                  /\ cur' = cur + PktLen - len
  /\ UNCHANGED <<stream, seen, inbuf, ff, pend>>

(* A packet in the current buffer. *)
Scan ==
  LET start == Find(inbuf[ff], cur, pend) IN
  /\ pc = "scan"
  /\ IF pend - start >= PktLen
     THEN /\ got' = Append(got, Piece(inbuf[ff], start, PktLen))
          /\ cur' = start + PktLen
          /\ pc' = "loop"
     ELSE /\ cur' = start
          /\ pc' = "rearm"
          /\ UNCHANGED got
  /\ UNCHANGED <<stream, seen, inbuf, ff, pend, remains>>

(* Fault: the bytes left at the end of a full buffer are forgotten. *)
RearmForgets ==
  /\ pc = "rearm"
  /\ pc' = "wait"
  /\ IF pend < BufLen
     THEN UNCHANGED <<ff, cur, pend, remains>>
     ELSE remains' = 0 /\ ff' = 1 - ff /\ cur' = 0 /\ pend' = 0
  /\ UNCHANGED <<stream, seen, inbuf, got>>

(* The next read goes behind the bytes received, or to the other buffer. *)
Rearm ==
  /\ pc = "rearm"
  /\ pc' = "wait"
  /\ IF pend < BufLen
     THEN UNCHANGED <<ff, cur, pend, remains>>
     ELSE /\ remains' = BufLen - cur
          /\ ff' = 1 - ff
          /\ cur' = 0
          /\ pend' = 0
  /\ UNCHANGED <<stream, seen, inbuf, got>>

Next == \/ \E n \in 1 .. BufLen : Receive(n)
        \/ ReceiveError
        \/ Loop \/ Straddle \/ Scan \/ Rearm

Spec == Init /\ [][Next]_vars
-----------------------------------------------------------------------------
(* The packets of a byte stream: a preamble that is not inside an earlier  *)
(* packet begins one.                                                      *)
PacketsOf(s) ==
  LET from[i \in 1 .. Len(s) + PktLen] ==
        IF i + PktLen - 1 > Len(s) THEN <<>>
        ELSE IF s[i] = Pre
             THEN <<SubSeq(s, i, i + PktLen - 1)>> \o from[i + PktLen]
             ELSE from[i + 1]
  IN  from[1]

(* Between two deliveries the handler has found exactly the packets of the *)
(* bytes received so far, however the port cut them: none is missed at the *)
(* seam of the two buffers, none is found twice or read past the end.      *)
CutIndependent == pc = "wait" => got = PacketsOf(SubSeq(stream, 1, seen))
=============================================================================
