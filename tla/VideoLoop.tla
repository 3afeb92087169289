----------------------------- MODULE VideoLoop -----------------------------
(***************************************************************************)
(* The frame loop of run() (main.cpp) against the serial line: how many    *)
(* frames are skipped depends on how full Comm's ring is, and what the     *)
(* ring did not take of a coded frame is sent with the next frames.        *)
(* Packets are counted, not looked at; the ring empties at any time.       *)
(***************************************************************************)
EXTENDS Integers, Sequences

CONSTANTS Cap,      \* out_buf_size: slots of the ring
          ChunkMax, \* most packets of one write
          Sizes,    \* packets of a coded frame
          Rates     \* packets the line carries at least per frame period

ASSUME VideoLoopAssumption ==
  /\ Cap \in Nat \ {0} /\ ChunkMax \in Nat \ {0}
  /\ Sizes \subseteq Nat /\ Sizes # {}
  /\ Rates \subseteq Nat /\ Rates # {}

VARIABLES
  pos,      \* adapt_bitrate_pos
  skip,     \* to_skip
  bs,       \* is bs set?
  left,     \* coded_size: packets of bs not yet taken by the ring
  q,        \* packets in the ring
  stale,    \* m_r has caught up with m_w and m_empty is not yet set
  rate,     \* the rate of this line, one of Rates
  drained,  \* packets written in this frame period, up to rate
  pc,       \* where the loop is
  load,     \* what getBufferSize() returned last
  moved,    \* did the level go up, or down, then? (history)
  coded     \* parity of the frames coded so far (history)

loop == <<pos, skip, bs, left>>
past == <<load, moved, coded>>
ring == <<q, stale>>
line == <<rate, drained>>
vars == <<loop, ring, line, pc, past>>

(* Fault: the last level is left downwards at once. *)
TableFlaps == << [skip |->  0, up |->   50, down |-> -1],
                 [skip |->  1, up |->   60, down |-> 40],
                 [skip |->  3, up |->   70, down |-> 50],
                 [skip |->  7, up |->   80, down |-> 60],
                 [skip |-> -1, up |-> 1000, down |-> 95] >>

(* g_adapt_bitrate_desc. *)
Table == << [skip |->  0, up |->   50, down |-> -1],
            [skip |->  1, up |->   60, down |-> 40],
            [skip |->  3, up |->   70, down |-> 50],
            [skip |->  7, up |->   80, down |-> 60],
            [skip |-> -1, up |-> 1000, down |-> 70] >>

Desc(p) == Table[p + 1]

(* full() and size() are read without the lock: between the two            *)
(* assignments of taken() an empty ring looks full.                        *)
Full == q = Cap \/ stale
Size == IF stale THEN Cap ELSE q

(* Comm::getBufferSize(), in percent. *)
GetBufferSize == (Size * 100) \div Cap

(* The level after a look at the ring: up first, then down, by the         *)
(* thresholds of the level it is then.                                     *)
LevelUp == IF GetBufferSize > Desc(pos).up THEN pos + 1 ELSE pos
GoesDown == GetBufferSize < Desc(LevelUp).down

Init == /\ pos = 0 /\ skip = Desc(0).skip
        /\ bs = FALSE /\ left = 0
        /\ q = 0 /\ stale = FALSE
        /\ rate \in Rates /\ drained = 0
        /\ pc = "frame"
        /\ load = 0 /\ moved = {} /\ coded = 0
-----------------------------------------------------------------------------
(* A frame was captured: it is coded unless it is to be skipped, or part   *)
(* of an earlier one is still unsent.                                      *)
Frame ==
  /\ pc = "frame"
  /\ drained = rate \/ q = 0
  /\ drained' = 0
  /\ IF skip = 0
     THEN /\ skip' = Desc(pos).skip
          /\ IF bs
             THEN UNCHANGED <<bs, left, coded>>
             ELSE bs' = TRUE /\ left' \in Sizes /\ coded' = 1 - coded
     ELSE /\ skip' = IF skip > 0 THEN skip - 1 ELSE skip
          /\ UNCHANGED <<bs, left, coded>>
  /\ pc' = "stamp"
  /\ UNCHANGED <<pos, ring, rate, load, moved>>

(* Fault: the timestamp packet is queued whether or not there is room. *)
SendTimestampBlind ==
  /\ pc = "stamp"
  /\ q' = q + 1
  /\ pc' = IF left > 0 THEN "send" ELSE "adapt"
  /\ UNCHANGED <<loop, stale, line, past>>

(* The timestamp packet is lost when the ring is full. *)
SendTimestamp ==
  /\ pc = "stamp"
  /\ q' = IF Full THEN q ELSE q + 1
  /\ pc' = IF left > 0 THEN "send" ELSE "adapt"
  /\ UNCHANGED <<loop, stale, line, past>>

(* transmit() takes another packet of the coded frame. *)
Transmit == /\ pc = "send" /\ left > 0 /\ ~Full
            /\ q' = q + 1
            /\ left' = left - 1
            /\ UNCHANGED <<pos, skip, bs, stale, line, pc, past>>

(* Fault: what the ring did not take is forgotten. *)
SentForgets == /\ pc = "send" /\ (left = 0 \/ Full)
               /\ bs' = FALSE
               /\ pc' = "adapt"
               /\ UNCHANGED <<pos, skip, left, ring, line, past>>

(* It returns: all was taken, or the ring is full and bs keeps the rest. *)
Sent == /\ pc = "send" /\ (left = 0 \/ Full)
        /\ bs' = (left > 0)
        /\ pc' = "adapt"
        /\ UNCHANGED <<pos, skip, left, ring, line, past>>

(* Fault: the video is not switched on again. *)
AdaptKeepsSkip ==
  /\ pc = "adapt"
  /\ pos' = IF GoesDown THEN LevelUp - 1 ELSE LevelUp
  /\ load' = GetBufferSize
  /\ moved' = (IF LevelUp > pos THEN {"up"} ELSE {})
                 \union (IF GoesDown THEN {"down"} ELSE {})
  /\ pc' = "frame"
  /\ UNCHANGED <<skip, bs, left, ring, line, coded>>

(* The level follows the ring; leaving the highest one ends the pause. *)
Adapt ==
  /\ pc = "adapt"
  /\ pos' = IF GoesDown THEN LevelUp - 1 ELSE LevelUp
  /\ skip' = IF GoesDown /\ skip < 0 THEN 0 ELSE skip
  /\ load' = GetBufferSize
  /\ moved' = (IF LevelUp > pos THEN {"up"} ELSE {})
                 \union (IF GoesDown THEN {"down"} ELSE {})
  /\ pc' = "frame"
  /\ UNCHANGED <<bs, left, ring, line, coded>>

(* The asio thread takes k written packets from the ring. *)
Taken(k) == /\ ~stale /\ k <= q
            /\ q' = q - k
            /\ stale' = (q = k)
            /\ drained' = IF drained + k < rate THEN drained + k ELSE rate
            /\ UNCHANGED <<loop, rate, pc, past>>

EmptySet == /\ stale
            /\ stale' = FALSE
            /\ UNCHANGED <<loop, q, line, pc, past>>

Main == Frame \/ SendTimestamp \/ Transmit \/ Sent \/ Adapt
Port == EmptySet \/ \E k \in 1 .. ChunkMax : Taken(k)
Next == Main \/ Port

Spec == Init /\ [][Next]_vars

(* The camera delivers frames and the line carries packets.  The moment in *)
(* which an empty ring looks full is a few instructions long: the loop     *)
(* does not meet it in every frame for ever.                               *)
FairSpec == /\ Spec /\ WF_vars(Main) /\ WF_vars(Port)
            /\ SF_vars(Transmit) /\ SF_vars(Adapt /\ ~stale)
-----------------------------------------------------------------------------
TypeOK == /\ pos \in 0 .. Len(Table) - 1
          /\ skip \in -1 .. 7
          /\ bs \in BOOLEAN /\ left \in Nat
          /\ q \in 0 .. Cap /\ stale \in BOOLEAN
          /\ rate \in Rates /\ drained \in 0 .. rate
          /\ pc \in {"frame", "stamp", "send", "adapt"}

(* The thresholds keep the level from flapping: no fill level of the ring  *)
(* moves it up and down again at once, nor up in the next frame when it    *)
(* has just moved it down.                                                 *)
NoFlapping ==
  [][pc = "adapt" => /\ moved' # {"up", "down"}
                     /\ load' = load /\ moved = {"down"} => "up" \notin moved']_vars

(* "if bs != nullptr, there are some unsent data in it": a frame is coded  *)
(* exactly when all of the last one has been taken by the ring.            *)
BsMeansUnsent == pc = "frame" => (bs <=> left > 0)

(* Frames keep being coded while the line carries more than timestamps:    *)
(* neither an unsent remainder nor the pause at the highest level lasts.   *)
VideoFlows == rate > 1 => []<>(coded = 0) /\ []<>(coded = 1)
=============================================================================
