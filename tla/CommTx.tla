------------------------------- MODULE CommTx -------------------------------
(***************************************************************************)
(* The transmit side of class Comm of the board application (comm.h,       *)
(* comm.cpp): a ring of packets CircBuf, filled by several threads that    *)
(* call transmit(), and emptied by the asio thread, which writes the ring  *)
(* to the serial port a contiguous chunk at a time.                        *)
(*                                                                         *)
(* transmit() looks at full() before it takes m_transmit_lock and taken()  *)
(* moves m_r before it recomputes m_empty, so both are modelled in the     *)
(* steps another thread can see between.  Everything else that happens     *)
(* under the lock and is seen by nobody until it is released is one step.  *)
(***************************************************************************)
EXTENDS Integers, Sequences

CONSTANTS Senders,     \* threads that call transmit()
          Cams,        \* camera numbers of the packets
          N,           \* out_buf_size: slots of the ring
          ChunkMax,    \* MAX_TRANSMISSION_CHUNK_SIZE
          LsbMod,      \* LSB_MAX_VAL_PLUS_1
          MaxLen,      \* bound: packets of the longest transmit() call
          AllowCalls,  \* arguments allowTransmission() is called with
          WriteErrors, \* may async_write report an error?
          NoPkt        \* content of a slot never written

ASSUME CommTxAssumption ==
  /\ N \in Nat \ {0}
  /\ ChunkMax \in Nat \ {0}
  /\ LsbMod \in Nat \ {0}
  /\ MaxLen \in Nat \ {0}
  /\ AllowCalls \subseteq BOOLEAN
  /\ WriteErrors \in BOOLEAN
  /\ "io" \notin Senders /\ "nobody" \notin Senders
  /\ NoPkt \notin [cam : Cams, lsb : 0 .. LsbMod - 1]

VARIABLES
  buf,       \* m_out_buf.m_buf
  w, r, re,  \* m_w, m_r, m_re as slot numbers
  empty,     \* m_empty
  sending,   \* m_sending_in_progress
  noTx,      \* m_no_actual_transmitting
  count,     \* m_out_count_lsb
  lock,      \* owner of m_transmit_lock
  pc,        \* where each sender is in transmit()
  req,       \* what each sender still has to push
  chunk,     \* packets in the buffer async_write was given, 0 if none
  io,        \* where the completion handler is
  sent       \* packets written by the last completed write

ring == <<w, r, re, empty>>
vars == <<buf, w, r, re, empty, sending, noTx, count, lock, pc, req, chunk, io, sent>>

Packet == [cam : Cams, lsb : 0 .. LsbMod - 1]
Slots  == 0 .. N - 1

(* The process has not been stopped by a failed assertion. *)
Alive == io # "aborted"

(* Fault: the pointer is not wrapped. *)
WrapNever(i) == i

(* A pointer that reached m_buf_end goes back to the first slot. *)
Wrap(i) == IF i = N THEN 0 ELSE i

Full == ~empty /\ w = r

(* What get_chunk() hands out when the write pointer is ww: the contiguous *)
(* packets from m_r on, at most ChunkMax of them.                          *)
ChunkLen(ww) ==
  LET run == IF r < ww THEN ww - r ELSE N - r
  IN  IF run < ChunkMax THEN run ELSE ChunkMax

Init == /\ buf = [s \in Slots |-> NoPkt]
        /\ w = 0 /\ r = 0 /\ re = 0 /\ empty = TRUE
        /\ sending = FALSE
        /\ noTx = FALSE
        /\ count = [c \in Cams |-> 0]
        /\ lock = "nobody"
        /\ pc = [t \in Senders |-> "out"]
        /\ req \in [Senders -> [cam : Cams, left : {0}]]
        /\ chunk = 0
        /\ io = "ready"
        /\ sent = <<>>
-----------------------------------------------------------------------------
(* async_write(m_port, get_chunk()), with the write pointer at ww. *)
StartWrite(ww) == /\ chunk' = ChunkLen(ww)
                  /\ re' = Wrap(r + ChunkLen(ww))
                  /\ sending' = TRUE

(* A thread calls transmit() with n packets of camera c. *)
Call(t, c, n) ==
  /\ Alive /\ pc[t] = "out"
  /\ pc' = [pc EXCEPT ![t] = "check"]
  /\ req' = [req EXCEPT ![t] = [cam |-> c, left |-> n]]
  /\ UNCHANGED <<buf, ring, sending, noTx, count, lock, chunk, io, sent>>

(* full() is read without the lock: if it says so the call returns short. *)
Check(t) ==
  /\ Alive /\ pc[t] = "check"
  /\ IF Full
     THEN /\ pc' = [pc EXCEPT ![t] = "out"]
          /\ req' = [req EXCEPT ![t].left = 0]
     ELSE /\ pc' = [pc EXCEPT ![t] = "lock"]
          /\ UNCHANGED req
  /\ UNCHANGED <<buf, ring, sending, noTx, count, lock, chunk, io, sent>>

Acquire(t) ==
  /\ pc[t] = "lock" /\ lock = "nobody"
  /\ lock' = t
  /\ pc' = [pc EXCEPT ![t] = "push"]
  /\ UNCHANGED <<buf, ring, sending, noTx, count, req, chunk, io, sent>>

(* Fault: the check of full() made before locking is not repeated. *)
PushUnchecked(t) ==
  LET c == req[t].cam IN
  /\ pc[t] = "push" /\ req[t].left > 0
  /\ buf' = [buf EXCEPT ![w] = [cam |-> c, lsb |-> count[c]]]
  /\ count' = [count EXCEPT ![c] = (@ + 1) % LsbMod]
  /\ w' = Wrap(w + 1)
  /\ empty' = FALSE
  /\ IF noTx \/ sending
     THEN UNCHANGED <<re, chunk, sending>>
     ELSE StartWrite(Wrap(w + 1))
  /\ req' = [req EXCEPT ![t].left = @ - 1]
  /\ UNCHANGED <<r, noTx, lock, pc, io, sent>>

(* Fault: the chunk is computed before the packet is stored. *)
PushLate(t) ==
  LET c == req[t].cam IN
  /\ pc[t] = "push" /\ req[t].left > 0 /\ ~Full
  /\ buf' = [buf EXCEPT ![w] = [cam |-> c, lsb |-> count[c]]]
  /\ count' = [count EXCEPT ![c] = (@ + 1) % LsbMod]
  /\ w' = Wrap(w + 1)
  /\ empty' = FALSE
  /\ IF noTx \/ sending
     THEN UNCHANGED <<re, chunk, sending>>
     ELSE StartWrite(w)
  /\ req' = [req EXCEPT ![t].left = @ - 1]
  /\ UNCHANGED <<r, noTx, lock, pc, io, sent>>

(* transmit_pkt(): the packet is numbered and stored, and a write started  *)
(* unless one is in progress or transmission is not allowed.               *)
Push(t) ==
  LET c == req[t].cam IN
  /\ pc[t] = "push" /\ req[t].left > 0 /\ ~Full
  /\ buf' = [buf EXCEPT ![w] = [cam |-> c, lsb |-> count[c]]]
  /\ count' = [count EXCEPT ![c] = (@ + 1) % LsbMod]
  /\ w' = Wrap(w + 1)
  /\ empty' = FALSE
  /\ IF noTx \/ sending
     THEN UNCHANGED <<re, chunk, sending>>
     ELSE StartWrite(Wrap(w + 1))
  /\ req' = [req EXCEPT ![t].left = @ - 1]
  /\ UNCHANGED <<r, noTx, lock, pc, io, sent>>

(* Fault: the lock is kept while waiting for room. *)
ReleaseWhenDone(t) ==
  /\ pc[t] = "push" /\ (req[t].left = 0 \/ Full)
  /\ lock' = IF req[t].left = 0 THEN "nobody" ELSE t
  /\ pc' = [pc EXCEPT ![t] = IF req[t].left = 0 THEN "out" ELSE "push"]
  /\ UNCHANGED <<buf, ring, sending, noTx, count, req, chunk, io, sent>>

(* The inner loop ends: everything is pushed, or the ring is full and the  *)
(* outer loop looks at full() again.                                       *)
Release(t) ==
  /\ pc[t] = "push" /\ (req[t].left = 0 \/ Full)
  /\ lock' = "nobody"
  /\ pc' = [pc EXCEPT ![t] = IF req[t].left = 0 THEN "out" ELSE "check"]
  /\ UNCHANGED <<buf, ring, sending, noTx, count, req, chunk, io, sent>>
-----------------------------------------------------------------------------
(* transmitted(), first half: k packets were written and taken() moves m_r.*)
TakenMoves(k) ==
  /\ io = "ready" /\ sending /\ lock = "nobody"
  /\ lock' = "io"
  /\ io' = "taking"
  /\ sent' = [i \in 1 .. k |-> buf[r + i - 1]]
  /\ r' = Wrap(r + k)
  /\ chunk' = 0
  /\ UNCHANGED <<buf, w, re, empty, sending, noTx, count, pc, req>>

(* A write that succeeds has written its whole buffer. *)
Written == chunk > 0 /\ TakenMoves(chunk)

(* A write that fails reports what it had written before the error. *)
Failed == WriteErrors /\ \E k \in 0 .. chunk : TakenMoves(k)

(* A failed write that stopped inside a packet: assert in taken() aborts.  *)
Torn == /\ WriteErrors
        /\ io = "ready" /\ sending /\ lock = "nobody"
        /\ io' = "aborted"
        /\ lock' = "io"
        /\ UNCHANGED <<buf, ring, sending, noTx, count, pc, req, chunk, sent>>

(* Fault: the handler never starts the next write. *)
TakenDoneIdle ==
  /\ io = "taking"
  /\ io' = "ready"
  /\ lock' = "nobody"
  /\ empty' = (r = w)
  /\ sending' = FALSE
  /\ UNCHANGED <<buf, w, r, re, chunk, noTx, count, pc, req, sent>>

(* transmitted(), second half: m_empty is recomputed and the next write is *)
(* started, or the port is marked idle.                                    *)
TakenDone ==
  /\ io = "taking"
  /\ io' = "ready"
  /\ lock' = "nobody"
  /\ empty' = (r = w)
  /\ IF r # w /\ ~noTx
     THEN StartWrite(w)
     ELSE sending' = FALSE /\ UNCHANGED <<re, chunk>>
  /\ UNCHANGED <<buf, w, r, noTx, count, pc, req, sent>>

(* Fault: the packets being written are forgotten too. *)
DropAll ==
  /\ lock = "nobody"
  /\ w' = r /\ empty' = TRUE
  /\ UNCHANGED <<buf, r, re, sending, noTx, count, lock, pc, req, chunk, io, sent>>

(* Fault: m_empty is not recomputed. *)
DropStaleEmpty ==
  /\ lock = "nobody"
  /\ w' = re /\ empty' = FALSE
  /\ UNCHANGED <<buf, r, re, sending, noTx, count, lock, pc, req, chunk, io, sent>>

(* drop_unsent(), called by the Hello and Stop commands. *)
DropUnsent ==
  /\ lock = "nobody"
  /\ IF Full /\ re = w
     THEN UNCHANGED <<w, empty>>
     ELSE w' = re /\ empty' = (r = re)
  /\ UNCHANGED <<buf, r, re, sending, noTx, count, lock, pc, req, chunk, io, sent>>

(* allowTransmission() only writes the flag, without the lock. *)
AllowTransmission(v) ==
  /\ Alive
  /\ noTx' = ~v
  /\ UNCHANGED <<buf, ring, sending, count, lock, pc, req, chunk, io, sent>>
-----------------------------------------------------------------------------
SenderStep(t) == Check(t) \/ Acquire(t) \/ Push(t) \/ Release(t)
IoStep == Written \/ Failed \/ TakenDone

Next == \/ \E t \in Senders, c \in Cams, n \in 1 .. MaxLen : Call(t, c, n)
        \/ \E t \in Senders : SenderStep(t)
        \/ IoStep
        \/ Torn
        \/ DropUnsent
        \/ \E v \in AllowCalls : AllowTransmission(v)

Spec == Init /\ [][Next]_vars

(* The port accepts data in the end, and threads inside transmit() and the *)
(* completion handler keep running; nobody is obliged to call transmit().  *)
Fairness == /\ \A t \in Senders : WF_vars(SenderStep(t))
            /\ WF_vars(Written \/ TakenDone)
FairSpec == Spec /\ Fairness
-----------------------------------------------------------------------------
(* Packets between m_r and m_w; between the two halves of transmitted()    *)
(* m_empty is stale when the last packet has just been taken.              *)
Queued == IF empty \/ (io = "taking" /\ r = w) THEN 0
          ELSE IF r < w THEN w - r ELSE N - r + w

Slot(i) == IF r + i - 1 < N THEN r + i - 1 ELSE r + i - 1 - N

Queue == [i \in 1 .. Queued |-> buf[Slot(i)]]

TypeOK ==
  /\ buf \in [Slots -> Packet \union {NoPkt}]
  /\ w \in Slots /\ r \in Slots /\ re \in Slots
  /\ empty \in BOOLEAN /\ sending \in BOOLEAN /\ noTx \in BOOLEAN
  /\ count \in [Cams -> 0 .. LsbMod - 1]
  /\ lock \in Senders \union {"nobody", "io"}
  /\ pc \in [Senders -> {"out", "check", "lock", "push"}]
  /\ req \in [Senders -> [cam : Cams, left : 0 .. MaxLen]]
  /\ chunk \in 0 .. ChunkMax
  /\ io \in {"ready", "taking", "aborted"}
  /\ sent \in Seq(Packet \union {NoPkt})

(* The port works on packets that are queued: the slots from m_r up to     *)
(* m_re are inside [m_r, m_w), whatever the senders push and whatever      *)
(* drop_unsent() forgets meanwhile; and when the port is idle m_re marks   *)
(* m_r, so that drop_unsent() empties the ring.                            *)
ChunkQueued ==
  /\ sending /\ io = "ready" => /\ chunk \in 1 .. Queued
                                 /\ re = Wrap(r + chunk)
  /\ ~sending => re = r /\ chunk = 0

(* Between m_r and m_w there are only packets transmit() has put there:    *)
(* the port is never handed a slot nobody has written.                     *)
NoStaleSlot == \A i \in 1 .. Queued : buf[Slot(i)] # NoPkt

(* While async_write reads its chunk nobody stores into it, nor moves the  *)
(* pointer it starts from.                                                 *)
ChunkStable ==
  [][sending /\ io = "ready" /\ io' = "ready" =>
       /\ r' = r /\ chunk' = chunk
       /\ \A s \in r .. r + chunk - 1 : buf'[s] = buf[s]]_vars

(* No assertion of taken() fails: assert(size % sizeof(T) == 0). *)
NoAbort == Alive

(* transmit() and the completion handler agree on who has the lock. *)
LockOwner ==
  /\ \A t \in Senders : pc[t] = "push" <=> lock = t
  /\ lock = "io" <=> io # "ready"

(* The ring implements the bounded queue: order, content, numbering, and   *)
(* what is lost when the unsent packets are dropped.                       *)
TxQ == INSTANCE TxQueue
         WITH queue <- Queue,
              flight <- IF sending /\ io = "ready" THEN chunk ELSE 0
QueueSpec == TxQ!ASpec

(* When the callers stop, every packet still queued is written.            *)
QuietDrains == <>[](\A t \in Senders : pc[t] = "out") => <>[](empty /\ ~sending)

(* A call returns, unless other calls keep refilling the ring. *)
CallsReturn ==
  \A t \in Senders :
    <>[](\A u \in Senders \ {t} : pc[u] = "out")
      => [](pc[t] # "out" => <>(pc[t] = "out"))
=============================================================================
