---------------------------- MODULE CommTxProofs ----------------------------
(***************************************************************************)
(* Proofs about CommTx for every ring size, chunk size, packet counter     *)
(* modulus and set of senders: that a chunk in flight is left alone, and   *)
(* that the ring behaves as a queue of packets (TxQueue) as long as the    *)
(* port's writes succeed.                                                  *)
(***************************************************************************)
EXTENDS CommTx, SequenceTheorems, TLAPS

(* The chunk the port was given lies in the ring and among its packets. *)
ChunkInRing ==
  sending /\ io = "ready" =>
    /\ chunk \in 1 .. ChunkMax
    /\ r + chunk <= N
    /\ r < w => r + chunk <= w
    /\ re = Wrap(r + chunk)
    /\ ~empty

(* What the flags say of one another. *)
FlagsAgree ==
  /\ empty => w = r
  /\ ~sending => chunk = 0
  /\ io = "taking" => sending /\ chunk = 0
  /\ sent \in Seq(Packet \union {NoPkt})

(* While writes succeed the idle port leaves m_re at m_r. *)
NoErrors ==
  ~WriteErrors => /\ io # "aborted"
                  /\ ~sending \/ io = "taking" => re = r
                  /\ io = "taking" => ~empty

IInv == TypeOK /\ LockOwner /\ ChunkInRing /\ FlagsAgree /\ NoErrors

-----------------------------------------------------------------------------
(* Pointers stay slot numbers when they are advanced inside the ring. *)
LEMMA WrapSlot == \A i \in 0 .. N : Wrap(i) \in Slots
BY CommTxAssumption DEF Wrap, Slots

(* What get_chunk() hands out never runs over the end of the ring, nor     *)
(* over the write pointer.                                                 *)
LEMMA ChunkLenFits ==
  ASSUME NEW ww \in Slots, r \in Slots
  PROVE  /\ ChunkLen(ww) \in 1 .. ChunkMax
         /\ r + ChunkLen(ww) <= N
         /\ r < ww => r + ChunkLen(ww) <= ww
BY CommTxAssumption DEF ChunkLen, Slots

LEMMA InitIInv == Init => IInv
<1> SUFFICES ASSUME Init PROVE IInv
  OBVIOUS
<1> USE CommTxAssumption DEF Init
<1>1. TypeOK
  <2>1. 0 \in Slots /\ 0 \in 0 .. LsbMod - 1
    BY DEF Slots
  <2>2. <<>> \in Seq(Packet \union {NoPkt})
    OBVIOUS
  <2>3. req \in [Senders -> [cam : Cams, left : 0 .. MaxLen]]
    OBVIOUS
  <2> QED
    BY <2>1, <2>2, <2>3 DEF TypeOK
<1>2. LockOwner
  BY DEF LockOwner
<1>3. ChunkInRing /\ FlagsAgree /\ NoErrors
  BY <1>1 DEF ChunkInRing, FlagsAgree, NoErrors, TypeOK
<1> QED
  BY <1>1, <1>2, <1>3 DEF IInv

-----------------------------------------------------------------------------
(* Each step of a sender keeps the invariant. *)
LEMMA CallKeeps ==
  ASSUME IInv, NEW t \in Senders, NEW c \in Cams, NEW n \in 1 .. MaxLen,
         Call(t, c, n)
  PROVE  IInv'
<1> USE CommTxAssumption DEF Call, ring
<1>1. TypeOK'
  <2>1. [cam |-> c, left |-> n] \in [cam : Cams, left : 0 .. MaxLen]
    OBVIOUS
  <2> QED
    BY <2>1 DEF IInv, TypeOK
<1>2. LockOwner'
  BY DEF IInv, TypeOK, LockOwner
<1>3. (ChunkInRing /\ FlagsAgree /\ NoErrors)'
  BY DEF IInv, ChunkInRing, FlagsAgree, NoErrors, Wrap
<1> QED
  BY <1>1, <1>2, <1>3 DEF IInv

LEMMA CheckKeeps ==
  ASSUME IInv, NEW t \in Senders, Check(t)
  PROVE  IInv'
<1> USE CommTxAssumption DEF Check, ring
<1>1. TypeOK'
  <2>1. [req[t] EXCEPT !.left = 0] \in [cam : Cams, left : 0 .. MaxLen]
    <3>1. req[t] \in [cam : Cams, left : 0 .. MaxLen]
      BY DEF IInv, TypeOK
    <3>2. 0 \in 0 .. MaxLen
      OBVIOUS
    <3> HIDE CommTxAssumption DEF Check
    <3> QED
      BY <3>1, <3>2
  <2>2. req' \in [Senders -> [cam : Cams, left : 0 .. MaxLen]]
    BY <2>1, ZenonT(40) DEF IInv, TypeOK
  <2>3. pc' \in [Senders -> {"out", "check", "lock", "push"}]
    BY DEF IInv, TypeOK
  <2> QED
    BY <2>2, <2>3 DEF IInv, TypeOK
<1>2. LockOwner'
  BY DEF IInv, TypeOK, LockOwner
<1>3. (ChunkInRing /\ FlagsAgree /\ NoErrors)'
  BY DEF IInv, ChunkInRing, FlagsAgree, NoErrors, Wrap
<1> QED
  BY <1>1, <1>2, <1>3 DEF IInv

LEMMA AcquireKeeps ==
  ASSUME IInv, NEW t \in Senders, Acquire(t)
  PROVE  IInv'
<1> USE CommTxAssumption DEF Acquire, ring
<1>1. TypeOK'
  BY DEF IInv, TypeOK
<1>2. LockOwner'
  BY DEF IInv, TypeOK, LockOwner
<1>3. (ChunkInRing /\ FlagsAgree /\ NoErrors)'
  BY DEF IInv, ChunkInRing, FlagsAgree, NoErrors, Wrap
<1> QED
  BY <1>1, <1>2, <1>3 DEF IInv

LEMMA ReleaseKeeps ==
  ASSUME IInv, NEW t \in Senders, Release(t)
  PROVE  IInv'
<1> USE CommTxAssumption DEF Release, ring
<1>1. TypeOK'
  BY DEF IInv, TypeOK
<1>2. LockOwner'
  BY DEF IInv, TypeOK, LockOwner
<1>3. (ChunkInRing /\ FlagsAgree /\ NoErrors)'
  BY DEF IInv, ChunkInRing, FlagsAgree, NoErrors, Wrap
<1> QED
  BY <1>1, <1>2, <1>3 DEF IInv

(* A packet that is pushed goes outside the chunk being written, and a     *)
(* write it starts takes packets that are in the ring.                     *)
LEMMA PushKeeps ==
  ASSUME IInv, NEW t \in Senders, Push(t)
  PROVE  IInv'
<1> DEFINE p == [cam |-> req[t].cam, lsb |-> count[req[t].cam]]
<1>1. TypeOK /\ LockOwner /\ ChunkInRing /\ FlagsAgree /\ NoErrors
  BY DEF IInv
<1>2. io = "ready" /\ lock = t
  BY <1>1, CommTxAssumption DEF LockOwner, Push, TypeOK
<1>3. w \in Slots /\ r \in Slots /\ Wrap(w + 1) \in Slots /\ N \in Nat \ {0}
  BY <1>1, CommTxAssumption DEF TypeOK, Slots, Wrap
<1>4. /\ ChunkLen(Wrap(w + 1)) \in 1 .. ChunkMax
      /\ r + ChunkLen(Wrap(w + 1)) <= N
      /\ r < Wrap(w + 1) => r + ChunkLen(Wrap(w + 1)) <= Wrap(w + 1)
  BY <1>3, ChunkLenFits
<1>5. Wrap(r + ChunkLen(Wrap(w + 1))) \in Slots
  BY <1>3, <1>4, CommTxAssumption DEF Wrap, Slots
<1>6. TypeOK'
  <2>1. p \in Packet /\ count' \in [Cams -> 0 .. LsbMod - 1]
    BY <1>1, CommTxAssumption DEF Push, TypeOK, Packet
  <2>2. buf' \in [Slots -> Packet \union {NoPkt}]
    BY <1>1, <1>3, <2>1 DEF Push, TypeOK
  <2>3. req' \in [Senders -> [cam : Cams, left : 0 .. MaxLen]]
    <3>1. [req[t] EXCEPT !.left = @ - 1] \in [cam : Cams, left : 0 .. MaxLen]
      BY <1>1, CommTxAssumption DEF Push, TypeOK
    <3>2. req' = [req EXCEPT ![t] = [req[t] EXCEPT !.left = @ - 1]]
      BY <1>1 DEF Push, TypeOK
    <3> QED
      BY <1>1, <3>1, <3>2 DEF TypeOK
  <2>4. chunk' \in 0 .. ChunkMax /\ re' \in Slots /\ sending' \in BOOLEAN
    <3>1. CASE noTx \/ sending
      BY <1>1, <3>1 DEF Push, TypeOK
    <3>2. CASE ~(noTx \/ sending)
      BY <1>4, <1>5, <3>2 DEF Push, StartWrite
    <3> QED
      BY <3>1, <3>2
  <2> QED
    BY <1>1, <1>3, <2>1, <2>2, <2>3, <2>4 DEF TypeOK, Push
<1>7. LockOwner'
  BY <1>1 DEF LockOwner, Push
<1>8. ChunkInRing'
  <2>1. CASE noTx \/ sending
    <3>1. UNCHANGED <<sending, io, chunk, r, re>> /\ w' = Wrap(w + 1)
          /\ empty' = FALSE /\ (empty \/ w # r)
      BY <1>1, <2>1 DEF Push, Full, StartWrite
    <3>2. chunk \in Nat
      BY <1>1, CommTxAssumption DEF TypeOK
    <3> QED
      BY <1>1, <1>3, <3>1, <3>2 DEF ChunkInRing, Wrap, Slots
  <2>2. CASE ~(noTx \/ sending)
    BY <1>3, <1>4, <2>2 DEF ChunkInRing, Push, StartWrite, Wrap
  <2> QED
    BY <2>1, <2>2
<1>9. FlagsAgree' /\ NoErrors'
  <2>1. CASE noTx \/ sending
    BY <1>1, <1>2, <2>1 DEF FlagsAgree, NoErrors, Push
  <2>2. CASE ~(noTx \/ sending)
    BY <1>1, <1>2, <2>2 DEF FlagsAgree, NoErrors, Push, StartWrite
  <2> QED
    BY <2>1, <2>2
<1> QED
  BY <1>6, <1>7, <1>8, <1>9 DEF IInv

-----------------------------------------------------------------------------
(* Each step of the completion handler keeps the invariant. *)
LEMMA TakenMovesKeeps ==
  ASSUME IInv, NEW k \in 0 .. chunk, TakenMoves(k),
         k = chunk \/ WriteErrors
  PROVE  IInv'
<1>1. TypeOK /\ LockOwner /\ ChunkInRing /\ FlagsAgree /\ NoErrors
  BY DEF IInv
<1>2. /\ io = "ready" /\ sending /\ lock = "nobody" /\ ~empty
      /\ chunk \in 1 .. ChunkMax /\ r + chunk <= N
      /\ re = Wrap(r + chunk)
  BY <1>1 DEF ChunkInRing, TakenMoves
<1>3. r \in Slots /\ k \in Nat /\ r + k \in 0 .. N
  BY <1>1, <1>2, CommTxAssumption DEF TypeOK, Slots
<1>4. sent' \in Seq(Packet \union {NoPkt})
  <2>1. \A i \in 1 .. k : buf[r + i - 1] \in Packet \union {NoPkt}
    <3> SUFFICES ASSUME NEW i \in 1 .. k
                 PROVE  buf[r + i - 1] \in Packet \union {NoPkt}
      OBVIOUS
    <3>1. r + i - 1 \in Slots
      BY <1>3, CommTxAssumption DEF Slots
    <3> QED
      BY <1>1, <3>1 DEF TypeOK
  <2> QED
    BY <1>3, <2>1 DEF TakenMoves
<1>5. TypeOK'
  <2>1. Wrap(r + k) \in Slots
    BY <1>3, WrapSlot
  <2> QED
    BY <1>1, <1>4, <2>1, CommTxAssumption DEF TypeOK, TakenMoves
<1>6. LockOwner'
  BY <1>1, CommTxAssumption DEF LockOwner, TakenMoves
<1>7. ChunkInRing'
  BY DEF ChunkInRing, TakenMoves
<1>8. FlagsAgree'
  BY <1>1, <1>2, <1>4 DEF FlagsAgree, TakenMoves
<1>9. NoErrors'
  BY <1>1, <1>2 DEF NoErrors, TakenMoves
<1> QED
  BY <1>5, <1>6, <1>7, <1>8, <1>9 DEF IInv

LEMMA TornKeeps ==
  ASSUME IInv, Torn
  PROVE  IInv'
<1> USE CommTxAssumption DEF Torn, ring
<1>1. TypeOK'
  BY DEF IInv, TypeOK
<1>2. LockOwner'
  BY DEF IInv, TypeOK, LockOwner
<1>3. (ChunkInRing /\ FlagsAgree /\ NoErrors)'
  BY DEF IInv, ChunkInRing, FlagsAgree, NoErrors, Wrap
<1> QED
  BY <1>1, <1>2, <1>3 DEF IInv

LEMMA TakenDoneKeeps ==
  ASSUME IInv, TakenDone
  PROVE  IInv'
<1>1. TypeOK /\ LockOwner /\ ChunkInRing /\ FlagsAgree /\ NoErrors
  BY DEF IInv
<1>2. w \in Slots /\ r \in Slots
  BY <1>1 DEF TypeOK
<1>3. /\ ChunkLen(w) \in 1 .. ChunkMax
      /\ r + ChunkLen(w) <= N
      /\ r < w => r + ChunkLen(w) <= w
  BY <1>2, ChunkLenFits
<1>4. Wrap(r + ChunkLen(w)) \in Slots
  BY <1>2, <1>3, CommTxAssumption DEF Wrap, Slots
<1>5. TypeOK'
  <2>1. CASE r # w /\ ~noTx
    BY <1>1, <1>3, <1>4, <2>1, CommTxAssumption DEF TypeOK, TakenDone, StartWrite
  <2>2. CASE ~(r # w /\ ~noTx)
    BY <1>1, <2>2, CommTxAssumption DEF TypeOK, TakenDone
  <2> QED
    BY <2>1, <2>2
<1>6. LockOwner'
  BY <1>1, CommTxAssumption DEF LockOwner, TakenDone
<1>7. ChunkInRing'
  BY <1>1, <1>2, <1>3 DEF ChunkInRing, TakenDone, StartWrite, Wrap
<1>8. FlagsAgree' /\ NoErrors'
  BY <1>1 DEF FlagsAgree, NoErrors, TakenDone, StartWrite
<1> QED
  BY <1>5, <1>6, <1>7, <1>8 DEF IInv

LEMMA DropUnsentKeeps ==
  ASSUME IInv, DropUnsent
  PROVE  IInv'
<1>1. TypeOK /\ LockOwner /\ ChunkInRing /\ FlagsAgree /\ NoErrors
  BY DEF IInv
<1>2. io = "ready"
  BY <1>1 DEF LockOwner, DropUnsent, TypeOK
<1>3. TypeOK'
  BY <1>1 DEF TypeOK, DropUnsent
<1>4. LockOwner'
  BY <1>1 DEF LockOwner, DropUnsent
<1>5. ChunkInRing'
  BY <1>1, <1>2, CommTxAssumption
  DEF ChunkInRing, DropUnsent, Full, Wrap, TypeOK, Slots
<1>6. FlagsAgree' /\ NoErrors'
  BY <1>1, <1>2 DEF FlagsAgree, NoErrors, DropUnsent
<1> QED
  BY <1>3, <1>4, <1>5, <1>6 DEF IInv

LEMMA AllowTransmissionKeeps ==
  ASSUME IInv, NEW v \in AllowCalls, AllowTransmission(v)
  PROVE  IInv'
<1> USE CommTxAssumption DEF AllowTransmission, ring
<1>1. TypeOK'
  BY DEF IInv, TypeOK
<1>2. LockOwner'
  BY DEF IInv, TypeOK, LockOwner
<1>3. (ChunkInRing /\ FlagsAgree /\ NoErrors)'
  BY DEF IInv, ChunkInRing, FlagsAgree, NoErrors, Wrap
<1> QED
  BY <1>1, <1>2, <1>3 DEF IInv

LEMMA StutterKeeps == IInv /\ UNCHANGED vars => IInv'
BY DEF IInv, vars, TypeOK, LockOwner, ChunkInRing, FlagsAgree, NoErrors, Wrap

(* The strengthened invariant is inductive. *)
LEMMA IInvInductive == Spec => []IInv
<1>1. IInv /\ [Next]_vars => IInv'
  <2> SUFFICES ASSUME IInv, [Next]_vars PROVE IInv'
    OBVIOUS
  <2>1. ASSUME NEW t \in Senders, NEW c \in Cams, NEW n \in 1 .. MaxLen,
               Call(t, c, n)
        PROVE  IInv'
    BY <2>1, CallKeeps
  <2>2. ASSUME NEW t \in Senders, SenderStep(t) PROVE IInv'
    BY <2>2, CheckKeeps, AcquireKeeps, PushKeeps, ReleaseKeeps DEF SenderStep
  <2>3. CASE IoStep
    <3>1. chunk \in 0 .. ChunkMax /\ ChunkMax \in Nat
      BY CommTxAssumption DEF IInv, TypeOK
    <3>2. CASE Written
      BY <3>1, <3>2, TakenMovesKeeps DEF Written
    <3>3. CASE Failed
      BY <3>3, TakenMovesKeeps DEF Failed
    <3> QED
      BY <2>3, <3>2, <3>3, TakenDoneKeeps DEF IoStep
  <2>4. ASSUME NEW v \in AllowCalls, AllowTransmission(v) PROVE IInv'
    BY <2>4, AllowTransmissionKeeps
  <2> QED
    BY <2>1, <2>2, <2>3, <2>4, TornKeeps, DropUnsentKeeps, StutterKeeps DEF Next
<1>2. QED
  BY InitIInv, <1>1, PTL DEF Spec

-----------------------------------------------------------------------------
(* Every variable keeps to its type, with or without write errors: the     *)
(* three pointers of the ring stay inside it whatever transmit(),          *)
(* transmitted() and drop_unsent() do in any order.                        *)
THEOREM TypeCorrect == Spec => []TypeOK
<1>1. IInv => TypeOK
  BY DEF IInv
<1>2. QED
  BY <1>1, IInvInductive, PTL

(* As long as writes succeed, what the port is writing is at the front of  *)
(* the queue, and the idle port has m_re at m_r.                           *)
THEOREM ChunkQueuedSafe ==
  ASSUME ~WriteErrors
  PROVE  Spec => []ChunkQueued
<1>1. IInv => ChunkQueued
  <2> SUFFICES ASSUME IInv PROVE ChunkQueued
    OBVIOUS
  <2>1. TypeOK /\ ChunkInRing /\ FlagsAgree /\ NoErrors
    BY DEF IInv
  <2>2. ASSUME sending, io = "ready"
        PROVE  chunk \in 1 .. Queued /\ re = Wrap(r + chunk)
    BY <2>1, <2>2, CommTxAssumption DEF ChunkInRing, Queued, TypeOK, Slots
  <2>3. ASSUME ~sending PROVE re = r /\ chunk = 0
    BY <2>1, <2>3 DEF FlagsAgree, NoErrors
  <2> QED
    BY <2>2, <2>3 DEF ChunkQueued
<1>2. QED
  BY <1>1, IInvInductive, PTL

(* No step of any thread stores into the packets async_write is reading,   *)
(* nor moves the pointer it started from, with or without write errors.    *)
THEOREM ChunkStableSafe == Spec => ChunkStable
<1>1. ASSUME IInv, [Next]_vars, sending, io = "ready", io' = "ready"
      PROVE  /\ r' = r /\ chunk' = chunk
             /\ \A s \in r .. r + chunk - 1 : buf'[s] = buf[s]
  <2>1. TypeOK /\ LockOwner /\ ChunkInRing /\ FlagsAgree
    BY <1>1 DEF IInv
  <2>2. ASSUME NEW t \in Senders, Push(t)
        PROVE  /\ r' = r /\ chunk' = chunk
               /\ \A s \in r .. r + chunk - 1 : buf'[s] = buf[s]
    <3>1. r' = r /\ chunk' = chunk
      BY <1>1, <2>2 DEF Push
    <3>2. w \notin r .. r + chunk - 1
      BY <1>1, <2>1, <2>2, CommTxAssumption, SMTT(30)
      DEF ChunkInRing, Push, Full, TypeOK, Slots
    <3>3. \A s \in r .. r + chunk - 1 : s \in Slots
      BY <1>1, <2>1, CommTxAssumption DEF ChunkInRing, TypeOK, Slots
    <3>4. \A s \in r .. r + chunk - 1 : buf'[s] = buf[s]
      BY <2>1, <2>2, <3>2, <3>3 DEF Push, TypeOK
    <3> QED
      BY <3>1, <3>4
  <2>3. CASE UNCHANGED <<r, chunk, buf>>
    BY <2>3
  <2>4. ASSUME NEW t \in Senders, NEW c \in Cams, NEW n \in 1 .. MaxLen,
               Call(t, c, n)
        PROVE  UNCHANGED <<r, chunk, buf>>
    BY <2>4 DEF Call, ring
  <2>5. ASSUME NEW t \in Senders, Check(t) \/ Acquire(t) \/ Release(t)
        PROVE  UNCHANGED <<r, chunk, buf>>
    BY <2>5 DEF Check, Acquire, Release, ring
  <2>6. ~IoStep /\ ~Torn
    BY <1>1 DEF IoStep, Written, Failed, TakenMoves, TakenDone, Torn
  <2>7. ASSUME DropUnsent \/ (\E v \in AllowCalls : AllowTransmission(v))
               \/ UNCHANGED vars
        PROVE  UNCHANGED <<r, chunk, buf>>
    BY <2>7 DEF DropUnsent, AllowTransmission, ring, vars
  <2> QED
    BY <1>1, <2>2, <2>3, <2>4, <2>5, <2>6, <2>7 DEF Next, SenderStep
<1>2. QED
  BY <1>1, IInvInductive, PTL DEF Spec, ChunkStable
-----------------------------------------------------------------------------
Cell == Packet \union {NoPkt}

(* The queue as the abstract specification sees it. *)
Flight == IF sending /\ io = "ready" THEN chunk ELSE 0

(* No slot between the read and the write pointer is unwritten. *)
PacketsQueued == \A i \in 1 .. Queued : buf[Slot(i)] \in Packet

(* The queue is the sequence of the slots from m_r on. *)
QueueShape ==
  /\ Queued \in 0 .. N
  /\ \A i \in 1 .. N : Slot(i) \in Slots
  /\ Queue \in Seq(Cell)
  /\ Len(Queue) = Queued
  /\ \A i \in 1 .. Queued : Queue[i] = buf[Slot(i)]

LEMMA TypeGivesShape == TypeOK => QueueShape
<1> SUFFICES ASSUME TypeOK PROVE QueueShape
  OBVIOUS
<1>1. /\ w \in Slots /\ r \in Slots /\ N \in Nat \ {0}
      /\ buf \in [Slots -> Cell]
  BY CommTxAssumption DEF TypeOK, Cell
<1>2. Queued \in 0 .. N /\ Queued \in Nat
  BY <1>1 DEF Queued, Slots
<1>3. \A i \in 1 .. N : Slot(i) \in Slots
  BY <1>1 DEF Slot, Slots
<1>4. Queue \in [1 .. Queued -> Cell]
  BY <1>1, <1>2, <1>3 DEF Queue
<1>5. Queue \in Seq(Cell) /\ Len(Queue) = Queued
  BY <1>2, <1>4 DEF Queue
<1> QED
  BY <1>2, <1>3, <1>5 DEF Queue, QueueShape

(* The same for the next state. *)
LEMMA ShapeNext == TypeOK' => QueueShape'
BY TypeGivesShape, PTL

(* Steps that leave the ring alone leave the queue alone. *)
LEMMA RingSame ==
  ASSUME UNCHANGED <<buf, w, r, empty, io>>
  PROVE  Queue' = Queue /\ Queued' = Queued
BY DEF Queue, Queued, Slot

(* A packet that is pushed becomes the last one of the queue. *)
LEMMA PushAppends ==
  ASSUME IInv, IInv', NEW t \in Senders, Push(t)
  PROVE  /\ Queued < N /\ Queued' = Queued + 1
         /\ Queue' = Append(Queue, [cam |-> req[t].cam, lsb |-> count[req[t].cam]])
<1> DEFINE p == [cam |-> req[t].cam, lsb |-> count[req[t].cam]]
<1>1. TypeOK /\ TypeOK' /\ LockOwner /\ FlagsAgree
  BY DEF IInv
<1>2. io = "ready" /\ io' = "ready"
  BY <1>1, CommTxAssumption DEF LockOwner, Push, TypeOK
<1>3. /\ w \in Slots /\ r \in Slots /\ N \in Nat \ {0}
      /\ buf \in [Slots -> Cell] /\ empty \in BOOLEAN
      /\ p \in Cell
  BY <1>1, CommTxAssumption DEF TypeOK, Cell, Push, Packet
<1>4. /\ r' = r /\ w' = Wrap(w + 1) /\ empty' = FALSE
      /\ empty \/ w # r
      /\ empty => w = r
      /\ buf' = [buf EXCEPT ![w] = p]
  BY <1>1 DEF Push, Full, FlagsAgree
<1>5. Queued < N /\ Queued' = Queued + 1
  BY <1>2, <1>3, <1>4 DEF Queued, Wrap, Slots
<1>6. Slot(Queued + 1) = w
  BY <1>2, <1>3, <1>4 DEF Queued, Slot, Slots
<1>7. \A i \in 1 .. Queued : Slot(i) # w
  BY <1>2, <1>3, <1>4 DEF Queued, Slot, Slots
<1>8. \A i \in 1 .. N : Slot(i)' = Slot(i)
  BY <1>4 DEF Slot
<1>9. /\ Queued \in 0 .. N
      /\ \A i \in 1 .. N : Slot(i) \in Slots
      /\ Queue \in Seq(Cell) /\ Len(Queue) = Queued
      /\ \A i \in 1 .. Queued : Queue[i] = buf[Slot(i)]
  BY <1>1, TypeGivesShape DEF QueueShape
<1>10. /\ Queue' \in Seq(Cell) /\ Len(Queue') = Queued'
       /\ \A i \in 1 .. Queued' : Queue'[i] = buf'[Slot(i)']
  BY <1>1, ShapeNext DEF QueueShape
<1>11. /\ Append(Queue, p) \in Seq(Cell)
       /\ Len(Append(Queue, p)) = Queued + 1
       /\ \A i \in 1 .. Queued : Append(Queue, p)[i] = Queue[i]
       /\ Append(Queue, p)[Queued + 1] = p
  BY <1>3, <1>9, AppendProperties
<1>12. \A i \in 1 .. Queued + 1 : Queue'[i] = Append(Queue, p)[i]
  <2> SUFFICES ASSUME NEW i \in 1 .. Queued + 1
               PROVE  Queue'[i] = Append(Queue, p)[i]
    OBVIOUS
  <2>1. Queue'[i] = buf'[Slot(i)] /\ Slot(i) \in Slots
    BY <1>3, <1>5, <1>8, <1>9, <1>10
  <2>2. CASE i = Queued + 1
    BY <1>3, <1>4, <1>6, <1>11, <2>1, <2>2
  <2>3. CASE i \in 1 .. Queued
    BY <1>3, <1>4, <1>7, <1>9, <1>11, <2>1, <2>3
  <2> QED
    BY <1>9, <2>2, <2>3
<1>13. Queue' = Append(Queue, p)
  BY <1>5, <1>10, <1>11, <1>12, SeqEqual
<1> QED
  BY <1>5, <1>13

(* A successful write takes its chunk off the front of the queue. *)
LEMMA WriteTakesChunk ==
  ASSUME IInv, IInv', ~WriteErrors, Written
  PROVE  /\ chunk \in 1 .. Queued
         /\ sent' = SubSeq(Queue, 1, chunk)
         /\ Queue' = SubSeq(Queue, chunk + 1, Len(Queue))
<1>1. TypeOK /\ TypeOK' /\ LockOwner /\ FlagsAgree /\ ChunkInRing
  BY DEF IInv
<1>2. /\ io = "ready" /\ sending /\ io' = "taking"
      /\ r' = Wrap(r + chunk) /\ UNCHANGED <<buf, w, empty>>
      /\ sent' = [i \in 1 .. chunk |-> buf[r + i - 1]]
      /\ ~empty /\ chunk \in 1 .. ChunkMax /\ r + chunk <= N
      /\ r < w => r + chunk <= w
  BY <1>1 DEF Written, TakenMoves, ChunkInRing
<1>3. /\ w \in Slots /\ r \in Slots /\ N \in Nat \ {0}
      /\ chunk \in Nat \ {0}
  BY <1>1, <1>2, CommTxAssumption DEF TypeOK
<1>4. chunk \in 1 .. Queued /\ Queued' = Queued - chunk
  BY <1>2, <1>3 DEF Queued, Wrap, Slots
<1>5. \A i \in 1 .. chunk : Slot(i) = r + i - 1
  BY <1>2, <1>3 DEF Slot, Slots
<1>6. \A i \in 1 .. Queued - chunk : Slot(i)' = Slot(chunk + i)
  BY <1>2, <1>3, <1>4 DEF Slot, Wrap, Slots, Queued
<1>7. /\ Queued \in 0 .. N
      /\ \A i \in 1 .. N : Slot(i) \in Slots
      /\ Queue \in Seq(Cell) /\ Len(Queue) = Queued
      /\ \A i \in 1 .. Queued : Queue[i] = buf[Slot(i)]
  BY <1>1, TypeGivesShape DEF QueueShape
<1>8. /\ Queue' \in Seq(Cell) /\ Len(Queue') = Queued'
      /\ \A i \in 1 .. Queued' : Queue'[i] = buf'[Slot(i)']
  BY <1>1, ShapeNext DEF QueueShape
<1>9. \A i \in 1 .. Queued : Queue[i] \in Cell
  BY <1>7, ElementOfSeq
<1>10. sent' = SubSeq(Queue, 1, chunk)
  <2> DEFINE s == SubSeq(Queue, 1, chunk)
  <2>1. /\ s \in Seq(Cell) /\ Len(s) = chunk
        /\ \A i \in 1 .. chunk : s[i] = Queue[i]
    <3>1. \A i \in 1 .. chunk : Queue[i] \in Cell
      BY <1>3, <1>4, <1>7, <1>9
    <3>2. /\ s \in Seq(Cell)
          /\ Len(s) = IF 1 <= chunk THEN chunk - 1 + 1 ELSE 0
          /\ \A i \in 1 .. chunk - 1 + 1 : s[i] = Queue[1 + i - 1]
      BY <1>3, <3>1, SubSeqProperties
    <3> HIDE DEF s
    <3> QED
      BY <1>3, <3>2
  <2>2. \A i \in 1 .. chunk : sent'[i] = Queue[i] /\ Queue[i] \in Cell
    BY <1>2, <1>3, <1>4, <1>5, <1>7, <1>9
  <2>3. sent' \in [1 .. chunk -> Cell]
    BY <1>2, <2>2
  <2>4. sent' \in Seq(Cell) /\ Len(sent') = chunk
    BY <1>3, <2>3
  <2> HIDE DEF s
  <2>5. sent' = s
    BY <2>1, <2>2, <2>4, SeqEqual
  <2> QED
    BY <2>5 DEF s
<1>11. Queue' = SubSeq(Queue, chunk + 1, Len(Queue))
  <2> DEFINE s == SubSeq(Queue, chunk + 1, Queued)
  <2>1. /\ s \in Seq(Cell) /\ Len(s) = Queued - chunk
        /\ \A i \in 1 .. Queued - chunk : s[i] = Queue[chunk + i]
    <3>1. \A i \in chunk + 1 .. Queued : Queue[i] \in Cell
      BY <1>3, <1>4, <1>7, <1>9
    <3>2. /\ s \in Seq(Cell)
          /\ Len(s) = IF chunk + 1 <= Queued THEN Queued - (chunk + 1) + 1 ELSE 0
          /\ \A i \in 1 .. Queued - (chunk + 1) + 1 : s[i] = Queue[chunk + 1 + i - 1]
      BY <1>3, <1>7, <3>1, SubSeqProperties
    <3> HIDE DEF s
    <3> QED
      BY <1>3, <1>4, <1>7, <3>2
  <2> HIDE DEF s
  <2>2. \A i \in 1 .. Queued - chunk : Queue'[i] = s[i]
    BY <1>2, <1>3, <1>4, <1>6, <1>7, <1>8, <2>1
  <2>3. Queue' = s
    BY <1>4, <1>8, <2>1, <2>2, SeqEqual
  <2> QED
    BY <1>7, <2>3 DEF s
<1> QED
  BY <1>4, <1>10, <1>11

(* A prefix of the queue, slot by slot. *)
LEMMA PrefixOfQueue ==
  ASSUME TypeOK, NEW k \in 0 .. Queued
  PROVE  /\ SubSeq(Queue, 1, k) \in Seq(Cell)
         /\ Len(SubSeq(Queue, 1, k)) = k
         /\ \A i \in 1 .. k : SubSeq(Queue, 1, k)[i] = buf[Slot(i)]
<1> DEFINE s == SubSeq(Queue, 1, k)
<1>1. /\ Queued \in 0 .. N /\ N \in Nat
      /\ Queue \in Seq(Cell) /\ Len(Queue) = Queued
      /\ \A i \in 1 .. Queued : Queue[i] = buf[Slot(i)]
  BY TypeGivesShape, CommTxAssumption DEF QueueShape
<1>2. k \in Nat /\ \A i \in 1 .. k : Queue[i] \in Cell
  BY <1>1, ElementOfSeq
<1>3. /\ s \in Seq(Cell)
      /\ Len(s) = IF 1 <= k THEN k - 1 + 1 ELSE 0
      /\ \A i \in 1 .. k - 1 + 1 : s[i] = Queue[1 + i - 1]
  BY <1>2, SubSeqProperties
<1> HIDE DEF s
<1>4. s \in Seq(Cell) /\ Len(s) = k /\ \A i \in 1 .. k : s[i] = buf[Slot(i)]
  BY <1>1, <1>2, <1>3
<1> QED
  BY <1>4 DEF s

(* drop_unsent() keeps what the port is writing and nothing else, or, when *)
(* m_re meets m_w in a full ring, changes nothing.                         *)
LEMMA DropKeepsFlight ==
  ASSUME IInv, IInv', ~WriteErrors, DropUnsent
  PROVE  \/ Queue' = Queue
         \/ Queue' = SubSeq(Queue, 1, Flight)
<1>1. /\ TypeOK /\ TypeOK' /\ LockOwner /\ FlagsAgree /\ ChunkInRing
      /\ NoErrors
  BY DEF IInv
<1>2. io = "ready" /\ io' = "ready" /\ UNCHANGED <<buf, r>>
  BY <1>1 DEF LockOwner, DropUnsent, TypeOK
<1>3. CASE Full /\ re = w
  BY <1>2, <1>3, RingSame DEF DropUnsent
<1>4. CASE ~(Full /\ re = w)
  <2>1. /\ w \in Slots /\ r \in Slots /\ N \in Nat \ {0}
        /\ Flight \in Nat /\ empty \in BOOLEAN /\ chunk \in Nat
    BY <1>1, CommTxAssumption DEF TypeOK, Flight
  <2>2. w' = re /\ empty' = (r = re)
    BY <1>4 DEF DropUnsent
  <2>3. Flight \in 0 .. Queued /\ Queued' = Flight
    <3>1. CASE sending
      <4>1. /\ Flight = chunk /\ chunk \in 1 .. ChunkMax /\ r + chunk <= N
            /\ r < w => r + chunk <= w
            /\ re = Wrap(r + chunk) /\ ~empty
        BY <1>1, <1>2, <3>1 DEF ChunkInRing, Flight
      <4>2. chunk >= 1
        BY <4>1, CommTxAssumption
      <4>3. Flight \in 0 .. Queued
        BY <1>2, <2>1, <4>1, <4>2 DEF Queued, Slots
      <4>4. re # r
        BY <1>4, <2>1, <4>1, <4>2 DEF Full, Wrap, Slots
      <4>5. Queued' = IF r < re THEN re - r ELSE N - r + re
        BY <1>2, <2>2, <4>4 DEF Queued
      <4>6. Queued' = Flight
        BY <2>1, <4>1, <4>2, <4>5 DEF Wrap, Slots
      <4> QED
        BY <4>3, <4>6
    <3>2. CASE ~sending
      <4>1. Flight = 0 /\ re = r
        BY <1>1, <1>2, <3>2 DEF Flight, NoErrors
      <4>2. Queued' = 0
        BY <2>2, <4>1, <1>2 DEF Queued
      <4> QED
        BY <1>1, <2>1, <4>1, <4>2, TypeGivesShape DEF QueueShape
    <3> QED
      BY <3>1, <3>2
  <2>4. /\ Queue' \in Seq(Cell) /\ Len(Queue') = Queued'
        /\ \A i \in 1 .. Queued' : Queue'[i] = buf'[Slot(i)']
    BY <1>1, ShapeNext DEF QueueShape
  <2>5. \A i \in 1 .. N : Slot(i)' = Slot(i)
    BY <1>2 DEF Slot
  <2>6. Queued \in 0 .. N
    BY <1>1, TypeGivesShape DEF QueueShape
  <2> DEFINE s == SubSeq(Queue, 1, Flight)
  <2>7. /\ s \in Seq(Cell) /\ Len(s) = Flight
        /\ \A i \in 1 .. Flight : s[i] = buf[Slot(i)]
    BY <1>1, <2>3, PrefixOfQueue
  <2> HIDE DEF s
  <2>8. \A i \in 1 .. Flight : Queue'[i] = s[i]
    BY <1>2, <2>1, <2>3, <2>4, <2>5, <2>6, <2>7
  <2>9. Queue' = s
    BY <2>3, <2>4, <2>7, <2>8, SeqEqual
  <2> QED
    BY <2>9 DEF s
<1> QED
  BY <1>3, <1>4

-----------------------------------------------------------------------------
(* A chunk inside the ring and before the write pointer is queued. *)
LEMMA ChunkWithin ==
  ASSUME NEW rr \in Slots, NEW ww \in Slots, NEW k \in 1 .. ChunkMax,
         rr + k <= N, rr < ww => rr + k <= ww
  PROVE  k <= IF rr < ww THEN ww - rr ELSE N - rr + ww
BY CommTxAssumption DEF Slots

(* Every step of the ring is a step of the queue, or changes nothing of it.*)
LEMMA StepRefines ==
  ASSUME IInv, IInv', ~WriteErrors, [Next]_vars
  PROVE  [TxQ!ANext]_(TxQ!avars)
<1> DEFINE qvars == <<Queue, Flight, count, sent>>
<1> USE DEF Flight
<1>1. /\ TypeOK /\ TypeOK' /\ LockOwner /\ FlagsAgree /\ ChunkInRing
      /\ NoErrors
  BY DEF IInv
<1>2. ASSUME UNCHANGED qvars PROVE [TxQ!ANext]_(TxQ!avars)
  BY <1>2 DEF TxQ!avars
<1>3. ASSUME UNCHANGED <<buf, w, r, empty, io, sending, chunk, count, sent>>
      PROVE  UNCHANGED qvars
  BY <1>3, RingSame
<1>4. ASSUME NEW t \in Senders, NEW c \in Cams, NEW n \in 1 .. MaxLen,
             Call(t, c, n)
      PROVE  UNCHANGED qvars
  BY <1>3, <1>4 DEF Call, ring
<1>5. ASSUME NEW t \in Senders, Check(t) \/ Acquire(t) \/ Release(t)
      PROVE  UNCHANGED qvars
  BY <1>3, <1>5 DEF Check, Acquire, Release, ring
<1>6. ASSUME NEW t \in Senders, Push(t) PROVE TxQ!ANext
  <2> DEFINE c == req[t].cam
  <2>1. c \in Cams
    BY <1>1 DEF TypeOK
  <2>2. /\ Queued < N /\ Queued' = Queued + 1
        /\ Queue' = Append(Queue, [cam |-> c, lsb |-> count[c]])
    BY <1>6, PushAppends
  <2>3. Len(Queue) = Queued
    BY <1>1, TypeGivesShape DEF QueueShape
  <2>4. count' = [count EXCEPT ![c] = (count[c] + 1) % LsbMod] /\ UNCHANGED sent
    BY <1>6 DEF Push
  <2>5. io = "ready" /\ io' = "ready"
    BY <1>1, <1>6, CommTxAssumption DEF LockOwner, Push, TypeOK
  <2>6. \/ Flight' = Flight
        \/ Flight = 0 /\ Flight' \in 1 .. ChunkMax /\ Flight' <= Queued + 1
    <3>1. CASE noTx \/ sending
      BY <1>6, <2>5, <3>1 DEF Push
    <3>2. CASE ~(noTx \/ sending)
      <4>1. sending' /\ Flight' = chunk' /\ Flight = 0
        BY <1>6, <2>5, <3>2 DEF Push, StartWrite
      <4>2. /\ chunk' \in 1 .. ChunkMax
            /\ r' + chunk' <= N
            /\ r' < w' => r' + chunk' <= w'
            /\ ~empty'
        BY <2>5, <4>1 DEF IInv, ChunkInRing
      <4>3. w' \in Slots /\ r' \in Slots
        BY <1>1 DEF TypeOK
      <4>4. Queued' = IF r' < w' THEN w' - r' ELSE N - r' + w'
        BY <2>5, <4>2 DEF Queued
      <4>5. chunk' <= Queued'
        BY <4>2, <4>3, <4>4, ChunkWithin, Zenon
      <4> QED
        BY <2>2, <4>1, <4>2, <4>5
    <3> QED
      BY <3>1, <3>2
  <2>7. TxQ!Accept(c)
    BY <2>1, <2>2, <2>3, <2>4, <2>6 DEF TxQ!Accept, TxQ!Prefixes
  <2> QED
    BY <2>1, <2>7 DEF TxQ!ANext
<1>7. CASE Written
  <2>1. /\ chunk \in 1 .. Queued
        /\ sent' = SubSeq(Queue, 1, chunk)
        /\ Queue' = SubSeq(Queue, chunk + 1, Len(Queue))
    BY <1>7, WriteTakesChunk
  <2>2. Flight = chunk /\ Flight' = 0 /\ UNCHANGED count /\ chunk > 0
    BY <1>7 DEF Written, TakenMoves
  <2> QED
    BY <2>1, <2>2 DEF TxQ!ANext, TxQ!Complete
<1>8. CASE TakenDone
  <2>1. /\ io = "taking" /\ io' = "ready" /\ UNCHANGED <<buf, w, r, count, sent>>
        /\ empty' = (r = w) /\ ~empty
    BY <1>1, <1>8 DEF TakenDone, NoErrors
  <2>2. Queued' = Queued /\ Queue' = Queue
    BY <2>1 DEF Queued, Queue, Slot
  <2>3. Flight = 0
    BY <2>1
  <2>4. CASE ~sending'
    BY <1>2, <2>1, <2>2, <2>3, <2>4
  <2>5. CASE sending'
    <3>1. /\ Flight' = chunk' /\ chunk' \in 1 .. ChunkMax
          /\ r' + chunk' <= N
          /\ r' < w' => r' + chunk' <= w'
          /\ ~empty'
      BY <2>1, <2>5 DEF IInv, ChunkInRing
    <3>2. w' \in Slots /\ r' \in Slots
      BY <1>1 DEF TypeOK
    <3>3. Queued' = IF r' < w' THEN w' - r' ELSE N - r' + w'
      BY <2>1, <3>1 DEF Queued
    <3>4. chunk' <= Queued'
      BY <3>1, <3>2, <3>3, ChunkWithin, Zenon
    <3>5. Len(Queue) = Queued
      BY <1>1, TypeGivesShape DEF QueueShape
    <3> QED
      BY <2>1, <2>2, <2>3, <3>1, <3>4, <3>5
      DEF TxQ!ANext, TxQ!Start, TxQ!Prefixes
  <2> QED
    BY <2>4, <2>5
<1>9. CASE DropUnsent
  <2>1. UNCHANGED <<sending, io, chunk, count, sent>>
    BY <1>1, <1>9 DEF DropUnsent
  <2>2. CASE Queue' = Queue
    BY <1>2, <2>1, <2>2
  <2>3. CASE Queue' = SubSeq(Queue, 1, Flight)
    BY <2>1, <2>3 DEF TxQ!ANext, TxQ!DropUnsent
  <2> QED
    BY <1>9, <2>2, <2>3, DropKeepsFlight
<1>10. ASSUME NEW v \in AllowCalls, AllowTransmission(v)
       PROVE  UNCHANGED qvars
  BY <1>3, <1>10 DEF AllowTransmission, ring
<1>11. ~Failed /\ ~Torn
  BY DEF Failed, Torn
<1>12. CASE UNCHANGED vars
  BY <1>2, <1>3, <1>12 DEF vars
<1> QED
  BY <1>2, <1>4, <1>5, <1>6, <1>7, <1>8, <1>9, <1>10, <1>11, <1>12
  DEF Next, SenderStep, IoStep

(* The ring of packets, with its unlocked look at full(), its two-step     *)
(* taken() and its drop_unsent(), is a bounded first-in first-out queue    *)
(* with consecutive packet numbers, as long as writes succeed.             *)
THEOREM RingImplementsQueue ==
  ASSUME ~WriteErrors
  PROVE  Spec => QueueSpec
<1>1. Init => TxQ!AInit
  BY DEF Init, TxQ!AInit, Queue, Queued
<1>2. IInv /\ IInv' /\ [Next]_vars => [TxQ!ANext]_(TxQ!avars)
  BY StepRefines
<1>3. QED
  BY <1>1, <1>2, IInvInductive, PTL DEF Spec, QueueSpec, TxQ!ASpec

-----------------------------------------------------------------------------
(* While there is a slot nobody has filled the pointers have not gone      *)
(* round: they are in order and in front of it, also when failed writes    *)
(* leave m_re ahead of m_r, or drop_unsent() takes m_w back to it.         *)
FirstTurn ==
  \A s \in Slots : buf[s] = NoPkt =>
    /\ r <= re /\ re <= w /\ w <= s
    /\ r = w => empty \/ io = "taking"

LEMMA PushKeepsTurn ==
  ASSUME IInv, FirstTurn, NEW t \in Senders, Push(t)
  PROVE  FirstTurn'
<1> SUFFICES ASSUME NEW s \in Slots, buf'[s] = NoPkt
             PROVE  (/\ r <= re /\ re <= w /\ w <= s
                     /\ r = w => empty \/ io = "taking")'
  BY DEF FirstTurn
<1>1. TypeOK /\ N \in Nat \ {0} /\ s \in 0 .. N - 1
  BY CommTxAssumption DEF IInv, Slots
<1>2. w \in 0 .. N - 1 /\ r \in 0 .. N - 1 /\ re \in 0 .. N - 1
  BY <1>1 DEF TypeOK, Slots
<1>3. s # w /\ buf[s] = NoPkt
  <2>1. [cam |-> req[t].cam, lsb |-> count[req[t].cam]] \in Packet
    BY <1>1 DEF TypeOK, Packet
  <2>2. [cam |-> req[t].cam, lsb |-> count[req[t].cam]] # NoPkt
    BY <2>1, CommTxAssumption DEF Packet
  <2>3. s = w => buf'[s] = [cam |-> req[t].cam, lsb |-> count[req[t].cam]]
    BY <1>1 DEF Push, TypeOK
  <2>4. s # w => buf'[s] = buf[s]
    BY <1>1 DEF Push, TypeOK
  <2> QED
    BY <2>2, <2>3, <2>4
<1>4. r <= re /\ re <= w /\ w < s
  BY <1>1, <1>2, <1>3 DEF FirstTurn
<1>5. r' = r /\ w' = w + 1 /\ w' \in Slots
  BY <1>1, <1>2, <1>4 DEF Push, Wrap, Slots
<1>6. CASE noTx \/ sending
  <2>1. re' = re
    BY <1>6 DEF Push
  <2> QED
    BY <1>1, <1>2, <1>4, <1>5, <2>1
<1>7. CASE ~(noTx \/ sending)
  <2>1. Wrap(w + 1) = w'
    BY <1>5 DEF Push
  <2>2. re' = Wrap(r + ChunkLen(w'))
    BY <1>7, <2>1 DEF Push, StartWrite
  <2>3. ChunkLen(w') \in 1 .. ChunkMax /\ r + ChunkLen(w') <= w' /\ ChunkMax \in Nat
    BY <1>1, <1>2, <1>4, <1>5, ChunkLenFits, CommTxAssumption DEF Slots
  <2>4. re' = r + ChunkLen(w')
    BY <1>1, <1>2, <1>4, <1>5, <2>2, <2>3 DEF Wrap
  <2> QED
    BY <1>1, <1>2, <1>4, <1>5, <2>3, <2>4
<1> QED
  BY <1>6, <1>7

LEMMA TakenMovesKeepsTurn ==
  ASSUME IInv, FirstTurn, NEW k \in 0 .. chunk, TakenMoves(k)
  PROVE  FirstTurn'
<1> SUFFICES ASSUME NEW s \in Slots, buf'[s] = NoPkt
             PROVE  (/\ r <= re /\ re <= w /\ w <= s
                     /\ r = w => empty \/ io = "taking")'
  BY DEF FirstTurn
<1>1. /\ N \in Nat \ {0} /\ s \in 0 .. N - 1
      /\ w \in 0 .. N - 1 /\ r \in 0 .. N - 1 /\ re \in 0 .. N - 1 /\ chunk \in Nat
  BY CommTxAssumption DEF IInv, TypeOK, Slots
<1>2. buf[s] = NoPkt /\ re' = re /\ w' = w /\ io' = "taking" /\ r' = Wrap(r + k)
  BY DEF TakenMoves
<1>3. /\ r <= re /\ re <= w /\ w <= s
      /\ re = Wrap(r + chunk) /\ r < w /\ r + chunk <= w
  BY <1>1, <1>2 DEF FirstTurn, IInv, ChunkInRing, TakenMoves
<1>4. re = r + chunk /\ r' = r + k
  BY <1>1, <1>2, <1>3 DEF Wrap
<1> QED
  BY <1>1, <1>2, <1>3, <1>4

LEMMA TakenDoneKeepsTurn ==
  ASSUME IInv, FirstTurn, TakenDone
  PROVE  FirstTurn'
<1> SUFFICES ASSUME NEW s \in Slots, buf'[s] = NoPkt
             PROVE  (/\ r <= re /\ re <= w /\ w <= s
                     /\ r = w => empty \/ io = "taking")'
  BY DEF FirstTurn
<1>1. /\ N \in Nat \ {0} /\ s \in 0 .. N - 1
      /\ w \in 0 .. N - 1 /\ r \in 0 .. N - 1 /\ re \in 0 .. N - 1
  BY CommTxAssumption DEF IInv, TypeOK, Slots
<1>2. buf[s] = NoPkt /\ w' = w /\ r' = r /\ empty' = (r = w)
  BY DEF TakenDone
<1>3. r <= re /\ re <= w /\ w <= s
  BY <1>2 DEF FirstTurn
<1>4. CASE r # w /\ ~noTx
  <2>1. re' = Wrap(r + ChunkLen(w))
    BY <1>4 DEF TakenDone, StartWrite
  <2>2. ChunkLen(w) \in 1 .. ChunkMax /\ r + ChunkLen(w) <= w /\ ChunkMax \in Nat
    BY <1>1, <1>3, <1>4, ChunkLenFits, CommTxAssumption DEF Slots
  <2>3. re' = r + ChunkLen(w)
    BY <1>1, <1>3, <2>1, <2>2 DEF Wrap
  <2> QED
    BY <1>1, <1>2, <1>3, <2>2, <2>3
<1>5. CASE ~(r # w /\ ~noTx)
  <2>1. re' = re
    BY <1>5 DEF TakenDone
  <2> QED
    BY <1>2, <1>3, <2>1
<1> QED
  BY <1>4, <1>5

LEMMA DropUnsentKeepsTurn ==
  ASSUME IInv, FirstTurn, DropUnsent
  PROVE  FirstTurn'
<1> SUFFICES ASSUME NEW s \in Slots, buf'[s] = NoPkt
             PROVE  (/\ r <= re /\ re <= w /\ w <= s
                     /\ r = w => empty \/ io = "taking")'
  BY DEF FirstTurn
<1>1. w \in Int /\ r \in Int /\ re \in Int /\ s \in Int
  BY CommTxAssumption DEF IInv, TypeOK, Slots
<1>2. buf[s] = NoPkt /\ re' = re /\ r' = r /\ io' = io
  BY DEF DropUnsent
<1>3. r <= re /\ re <= w /\ w <= s /\ (r = w => empty \/ io = "taking")
  BY <1>2 DEF FirstTurn
<1>4. CASE Full /\ re = w
  <2>1. w' = w /\ empty' = empty
    BY <1>4 DEF DropUnsent
  <2> QED
    BY <1>2, <1>3, <2>1
<1>5. CASE ~(Full /\ re = w)
  <2>1. w' = re /\ (r = re => empty')
    BY <1>5 DEF DropUnsent
  <2> QED
    BY <1>1, <1>2, <1>3, <2>1
<1> QED
  BY <1>4, <1>5

LEMMA FirstTurnKept ==
  ASSUME IInv, FirstTurn, [Next]_vars
  PROVE  FirstTurn'
<1>1. ASSUME UNCHANGED <<buf, w, r, re, empty, io>>
      PROVE  FirstTurn'
  BY <1>1 DEF FirstTurn
<1>2. ASSUME NEW t \in Senders, SenderStep(t) PROVE FirstTurn'
  BY <1>1, <1>2, PushKeepsTurn DEF SenderStep, Check, Acquire, Release, ring
<1>3. CASE IoStep
  <2>1. chunk \in Nat
    BY CommTxAssumption DEF IInv, TypeOK
  <2> QED
    BY <1>3, <2>1, TakenMovesKeepsTurn, TakenDoneKeepsTurn DEF IoStep, Written, Failed
<1>4. CASE Torn
  BY <1>4 DEF Torn, FirstTurn, ring
<1>5. ASSUME NEW t \in Senders, NEW c \in Cams, NEW n \in 1 .. MaxLen, Call(t, c, n)
      PROVE  FirstTurn'
  BY <1>1, <1>5 DEF Call, ring
<1>6. ASSUME NEW v \in AllowCalls, AllowTransmission(v) PROVE FirstTurn'
  BY <1>1, <1>6 DEF AllowTransmission, ring
<1>7. CASE UNCHANGED vars
  BY <1>1, <1>7 DEF vars
<1> QED
  BY <1>2, <1>3, <1>4, <1>5, <1>6, <1>7, DropUnsentKeepsTurn DEF Next

(* The port is never handed a slot no transmit() call has written: failed  *)
(* writes, drop_unsent() and the wrap of the pointers never bring an       *)
(* unwritten slot between m_r and m_w.                                     *)
THEOREM NoStaleSlotSafe == Spec => []NoStaleSlot
<1>1. Init => FirstTurn
  BY CommTxAssumption DEF Init, FirstTurn, Slots
<1>2. IInv /\ FirstTurn => NoStaleSlot
  <2> SUFFICES ASSUME IInv, FirstTurn, NEW i \in 1 .. Queued, buf[Slot(i)] = NoPkt
               PROVE  FALSE
    BY DEF NoStaleSlot
  <2>1. /\ N \in Nat \ {0} /\ w \in 0 .. N - 1 /\ r \in 0 .. N - 1 /\ re \in 0 .. N - 1
    BY CommTxAssumption DEF IInv, TypeOK, Slots
  <2>2. Queued \in 0 .. N /\ i \in 1 .. N
    BY <2>1 DEF Queued
  <2>3. Slot(i) \in Slots
    BY <2>1, <2>2 DEF Slot, Slots
  <2>4. r <= w /\ w <= Slot(i) /\ (r = w => empty \/ io = "taking")
    BY <2>1, <2>3 DEF FirstTurn, Slots
  <2>5. r < w /\ i <= w - r
    BY <2>1, <2>2, <2>4 DEF Queued
  <2>6. Slot(i) = r + i - 1
    BY <2>1, <2>2, <2>5 DEF Slot
  <2> QED
    BY <2>1, <2>2, <2>4, <2>5, <2>6
<1>3. QED
  BY <1>1, <1>2, FirstTurnKept, IInvInductive, PTL DEF Spec
=============================================================================
