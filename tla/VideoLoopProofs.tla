-------------------------- MODULE VideoLoopProofs --------------------------
(***************************************************************************)
(* Proofs about VideoLoop for every size of the ring and of a write, every *)
(* set of frame sizes and of line rates.                                   *)
(***************************************************************************)
EXTENDS VideoLoop, TLAPS

(* What the last look at the ring says of the level it led to. *)
CameDown == /\ moved \in {{}, {"up"}, {"down"}}
            /\ moved = {"down"} => pos \in 0 .. 3 /\ load < Desc(pos + 1).down

(* The types, with the level as a number. *)
Types == /\ pos \in 0 .. 4 /\ skip \in -1 .. 7
         /\ bs \in BOOLEAN /\ left \in Nat
         /\ q \in 0 .. Cap /\ stale \in BOOLEAN
         /\ rate \in Rates /\ drained \in 0 .. rate
         /\ pc \in {"frame", "stamp", "send", "adapt"}
         /\ load \in 0 .. 100

IInv == Types /\ CameDown

-----------------------------------------------------------------------------
(* The thresholds: the lowest level is never left downwards, the highest   *)
(* never upwards, and no fill level is below the downward threshold of a   *)
(* level and above the upward one of the level under it.                   *)
LEMMA Thresholds ==
  /\ \A p \in 0 .. 4 : Desc(p).skip \in -1 .. 7 /\ Desc(p).up \in Int /\ Desc(p).down \in Int
  /\ \A p \in 0 .. 3 : Desc(p + 1).down <= Desc(p).up
  /\ Desc(0).down = -1 /\ Desc(4).up = 1000
  /\ Len(Table) = 5
<1>1. /\ Desc(0) = [skip |->  0, up |->   50, down |-> -1]
      /\ Desc(1) = [skip |->  1, up |->   60, down |-> 40]
      /\ Desc(2) = [skip |->  3, up |->   70, down |-> 50]
      /\ Desc(3) = [skip |->  7, up |->   80, down |-> 60]
      /\ Desc(4) = [skip |-> -1, up |-> 1000, down |-> 70]
  BY DEF Desc, Table
<1>2. \A p \in 0 .. 4 : p = 0 \/ p = 1 \/ p = 2 \/ p = 3 \/ p = 4
  OBVIOUS
<1>3. ASSUME NEW p \in 0 .. 4
      PROVE  Desc(p).skip \in -1 .. 7 /\ Desc(p).up \in Int /\ Desc(p).down \in Int
  BY <1>1, <1>2
<1>4. ASSUME NEW p \in 0 .. 3
      PROVE  Desc(p + 1).down <= Desc(p).up
  <2>1. CASE p = 0
    BY <1>1, <2>1
  <2>2. CASE p = 1
    BY <1>1, <2>2
  <2>3. CASE p = 2
    BY <1>1, <2>3
  <2>4. CASE p = 3
    BY <1>1, <2>4
  <2> QED
    BY <2>1, <2>2, <2>3, <2>4
<1>5. Len(Table) = 5
  BY DEF Table
<1> QED
  BY <1>1, <1>3, <1>4, <1>5

(* getBufferSize() is a percentage. *)
LEMMA Percent == ASSUME Types PROVE GetBufferSize \in 0 .. 100
<1>1. Cap \in Nat /\ Cap > 0 /\ Size \in 0 .. Cap
  BY VideoLoopAssumption DEF Types, Size
<1>2. ASSUME NEW c \in Nat, c > 0, NEW s \in 0 .. c
      PROVE  (s * 100) \div c \in 0 .. 100
  <2>1. s * 100 \in Nat /\ s * 100 <= c * 100
    BY <1>2
  <2>2. /\ (s * 100) \div c \in Int
        /\ c * ((s * 100) \div c) <= s * 100 /\ s * 100 < c * ((s * 100) \div c) + c
    BY <1>2, <2>1
  <2> QED
    BY <1>2, <2>1, <2>2
<1> QED
  BY <1>1, <1>2 DEF GetBufferSize

(* A look at the ring moves the level by at most one, to one there is. *)
LEMMA Levels ==
  ASSUME Types
  PROVE  /\ LevelUp \in 0 .. 4 /\ LevelUp \in {pos, pos + 1}
         /\ LevelUp = pos + 1 => GetBufferSize > Desc(pos).up /\ pos < 4
         /\ GoesDown => LevelUp = pos /\ pos > 0 /\ GetBufferSize < Desc(pos).down
<1>1. GetBufferSize \in 0 .. 100
  BY Percent
<1>2. pos \in 0 .. 4
  BY DEF Types
<1>3. /\ LevelUp \in {pos, pos + 1}
      /\ LevelUp = pos + 1 => GetBufferSize > Desc(pos).up
  BY <1>2 DEF LevelUp
<1>4. LevelUp = pos + 1 => pos < 4
  BY <1>1, <1>2, <1>3, Thresholds
<1>5. GoesDown => LevelUp = pos
  <2> SUFFICES ASSUME LevelUp = pos + 1, GoesDown PROVE FALSE
    BY <1>3
  <2>1. GetBufferSize > Desc(pos).up /\ pos \in 0 .. 3
    BY <1>2, <1>3, <1>4
  <2>2. GetBufferSize < Desc(pos + 1).down
    BY DEF GoesDown
  <2>3. Desc(pos + 1).down <= Desc(pos).up /\ Desc(pos).up \in Int /\ Desc(pos + 1).down \in Int
    BY <2>1, Thresholds
  <2> QED
    BY <1>1, <2>1, <2>2, <2>3
<1>6. GoesDown => pos > 0 /\ GetBufferSize < Desc(pos).down
  BY <1>1, <1>2, <1>5, Thresholds DEF GoesDown
<1> QED
  BY <1>2, <1>3, <1>4, <1>5, <1>6

LEMMA InitIInv == Init => IInv
<1> SUFFICES ASSUME Init PROVE IInv
  OBVIOUS
<1>1. rate \in Nat
  BY VideoLoopAssumption DEF Init
<1>2. skip \in -1 .. 7
  BY Thresholds DEF Init
<1>3. CameDown
  BY DEF Init, CameDown
<1>4. Types
  <2>1. left \in Nat /\ pos \in 0 .. 4 /\ load \in 0 .. 100
    BY DEF Init
  <2>4. bs \in BOOLEAN /\ stale \in BOOLEAN
    BY DEF Init
  <2>2. q \in 0 .. Cap /\ drained \in 0 .. rate /\ rate \in Rates
    BY <1>1, VideoLoopAssumption DEF Init
  <2>3. pc \in {"frame", "stamp", "send", "adapt"}
    BY DEF Init
  <2> QED
    BY <1>2, <2>1, <2>2, <2>3, <2>4 DEF Types
<1> QED
  BY <1>3, <1>4 DEF IInv

(* Each step of the loop and of the port keeps the invariant. *)
LEMMA FrameKeeps == ASSUME IInv, Frame PROVE IInv'
<1>1. rate \in Nat
  BY VideoLoopAssumption DEF IInv, Types
<1>2. Desc(pos).skip \in -1 .. 7
  BY Thresholds DEF IInv, Types
<1>3. skip' \in -1 .. 7
  BY <1>2 DEF IInv, Types, Frame
<1>4. bs' \in BOOLEAN /\ left' \in Nat
  BY VideoLoopAssumption DEF IInv, Types, Frame
<1> QED
  BY <1>1, <1>3, <1>4 DEF IInv, Types, CameDown, Frame, ring, Desc

LEMMA SendKeeps == ASSUME IInv, SendTimestamp \/ Transmit \/ Sent PROVE IInv'
<1>1. Cap \in Nat
  BY VideoLoopAssumption
<1>2. CASE SendTimestamp
  BY <1>1, <1>2 DEF IInv, Types, CameDown, SendTimestamp, Full, loop, line, past, Desc
<1>3. CASE Transmit
  BY <1>1, <1>3 DEF IInv, Types, CameDown, Transmit, Full, line, past, Desc
<1>4. CASE Sent
  <2>1. bs' \in BOOLEAN
    BY <1>4 DEF Sent
  <2> QED
    BY <1>4, <2>1 DEF IInv, Types, CameDown, Sent, ring, line, past, Desc
<1> QED
  BY <1>2, <1>3, <1>4

LEMMA AdaptKeeps == ASSUME IInv, Adapt PROVE IInv'
<1>1. Types /\ GetBufferSize \in 0 .. 100
  BY Percent DEF IInv
<1>2. /\ pos' = (IF GoesDown THEN LevelUp - 1 ELSE LevelUp)
      /\ skip' = (IF GoesDown /\ skip < 0 THEN 0 ELSE skip)
      /\ load' = GetBufferSize /\ pc' = "frame"
      /\ moved' = (IF LevelUp > pos THEN {"up"} ELSE {}) \union (IF GoesDown THEN {"down"} ELSE {})
      /\ UNCHANGED <<bs, left, q, stale, rate, drained>>
  BY DEF Adapt, ring, line
<1>3. pos' \in 0 .. 4
  BY <1>1, <1>2, Levels DEF Types
<1>4. Types'
  BY <1>1, <1>2, <1>3 DEF Types
<1>5. CameDown'
  <2>a. moved' \in {{}, {"up"}, {"down"}}
    BY <1>1, <1>2, Levels DEF Types
  <2>1. SUFFICES ASSUME moved' = {"down"} PROVE pos' \in 0 .. 3 /\ load' < Desc(pos' + 1).down
    BY <2>a DEF CameDown, Desc
  <2>2. GoesDown
    BY <1>2, <2>1
  <2>3. pos' = pos - 1 /\ pos \in 1 .. 4 /\ GetBufferSize < Desc(pos).down
    BY <1>1, <1>2, <2>2, Levels DEF Types
  <2>4. pos' + 1 = pos /\ pos' \in 0 .. 3
    BY <2>3
  <2>5. Desc(pos' + 1) = Desc(pos)
    BY <2>4
  <2> QED
    BY <1>2, <2>3, <2>4, <2>5
<1> QED
  BY <1>4, <1>5 DEF IInv

LEMMA PortKeeps == ASSUME IInv, Port PROVE IInv'
<1>1. rate \in Nat
  BY VideoLoopAssumption DEF IInv, Types
<1>2. CASE EmptySet
  BY <1>2 DEF IInv, Types, CameDown, EmptySet, loop, line, past, Desc
<1>3. ASSUME NEW k \in 1 .. ChunkMax, Taken(k)
      PROVE  IInv'
  <2>1. k \in Nat
    BY VideoLoopAssumption
  <2>2. drained' \in 0 .. rate /\ q' \in 0 .. Cap /\ stale' \in BOOLEAN
    BY <1>1, <1>3, <2>1, VideoLoopAssumption DEF IInv, Types, Taken
  <2> QED
    BY <1>3, <2>2 DEF IInv, Types, CameDown, Taken, loop, past, Desc
<1> QED
  BY <1>2, <1>3 DEF Port

LEMMA StutterKeeps == ASSUME IInv, UNCHANGED vars PROVE IInv'
BY DEF IInv, Types, CameDown, vars, loop, ring, line, past, Desc

LEMMA NextKeeps == ASSUME IInv, [Next]_vars PROVE IInv'
BY FrameKeeps, SendKeeps, AdaptKeeps, PortKeeps, StutterKeeps DEF Next, Main

(* The levels stay in the table and the percentage in its range. *)
THEOREM Invariant == Spec => []IInv
BY InitIInv, NextKeeps, PTL DEF Spec

-----------------------------------------------------------------------------
(* The level is never outside the table, nor the ring over its capacity,   *)
(* whatever the frames and the line do.                                    *)
THEOREM Typed == Spec => []TypeOK
<1>1. IInv => TypeOK
  BY Thresholds DEF IInv, Types, TypeOK
<1> QED
  BY <1>1, Invariant, PTL

(* The level never goes up and down at once, nor up again when it has just *)
(* come down with the ring unchanged: the thresholds overlap the right way *)
(* for every ring.                                                         *)
THEOREM LevelSettles == Spec => NoFlapping
<1> DEFINE Settles == pc = "adapt" => /\ moved' # {"up", "down"}
                                      /\ load' = load /\ moved = {"down"} => "up" \notin moved'
<1>1. ASSUME IInv, Adapt
      PROVE  Settles
  <2>1. Types /\ pos \in 0 .. 4 /\ GetBufferSize \in 0 .. 100
    BY <1>1, Percent DEF IInv, Types
  <2>2. /\ load' = GetBufferSize
        /\ moved' = (IF LevelUp > pos THEN {"up"} ELSE {}) \union (IF GoesDown THEN {"down"} ELSE {})
    BY <1>1 DEF Adapt
  <2>3. GoesDown => ~(LevelUp > pos)
    BY <2>1, Levels
  <2>4. moved' # {"up", "down"}
    BY <2>2, <2>3
  <2>5. ASSUME load' = load, moved = {"down"}
        PROVE  ~(LevelUp > pos)
    <3>1. pos \in 0 .. 3 /\ GetBufferSize < Desc(pos + 1).down
      BY <1>1, <2>2, <2>5 DEF IInv, CameDown
    <3>2. Desc(pos + 1).down <= Desc(pos).up /\ Desc(pos + 1).down \in Int /\ Desc(pos).up \in Int
      BY <3>1, Thresholds
    <3>3. ~(GetBufferSize > Desc(pos).up)
      BY <2>1, <3>1, <3>2
    <3> QED
      BY <2>1, <3>3, Levels
  <2> QED
    BY <2>2, <2>4, <2>5
<1>2. ASSUME IInv, Next, ~Adapt
      PROVE  Settles
  <2>1. pc = "adapt" => moved' = moved
    BY <1>2 DEF Next, Main, Port, Frame, SendTimestamp, Transmit, Sent, EmptySet, Taken, past
  <2>2. moved \in {{}, {"up"}, {"down"}}
    BY <1>2 DEF IInv, CameDown
  <2> QED
    BY <2>1, <2>2
<1>4. IInv /\ [Next]_vars => [Settles]_vars
  BY <1>1, <1>2
<1> QED
  BY <1>4, Invariant, PTL DEF Spec, NoFlapping

(* A coded frame is kept exactly as long as some of it is unsent, if no    *)
(* frame is coded to nothing.                                              *)
THEOREM BsKept ==
  ASSUME 0 \notin Sizes
  PROVE  Spec => []BsMeansUnsent
<1> DEFINE Kept == pc # "send" => (bs <=> left > 0)
<1>1. Init => Kept
  BY DEF Init
<1>2. ASSUME Types, Kept, [Next]_vars
      PROVE  Kept'
  <2>1. CASE Frame
    <3>1. pc = "frame" /\ (bs <=> left > 0)
      BY <1>2, <2>1 DEF Frame
    <3>2. CASE UNCHANGED <<bs, left>>
      BY <3>1, <3>2
    <3>3. CASE bs' = TRUE /\ left' \in Sizes
      <4>1. left' > 0
        BY <3>3, VideoLoopAssumption
      <4> QED
        BY <3>3, <4>1
    <3> QED
      BY <2>1, <3>2, <3>3 DEF Frame
  <2>2. CASE SendTimestamp \/ Transmit \/ Sent \/ Adapt
    BY <1>2, <2>2 DEF Types, SendTimestamp, Transmit, Sent, Adapt, loop
  <2>3. CASE Port
    BY <1>2, <2>3 DEF Port, EmptySet, Taken, loop
  <2>4. CASE UNCHANGED vars
    BY <1>2, <2>4 DEF vars, loop
  <2> QED
    BY <1>2, <2>1, <2>2, <2>3, <2>4 DEF Next, Main
<1>3. Kept => BsMeansUnsent
  BY DEF BsMeansUnsent
<1>4. IInv => Types
  BY DEF IInv
<1> QED
  BY <1>1, <1>2, <1>3, <1>4, Invariant, PTL DEF Spec
=============================================================================
