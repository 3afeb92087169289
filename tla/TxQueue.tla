------------------------------ MODULE TxQueue ------------------------------
(***************************************************************************)
(* What the transmit side of class Comm promises its callers: a bounded    *)
(* queue of packets.  A packet that is accepted gets the next number of    *)
(* its camera; the port is handed a prefix of the queue at a time, and     *)
(* that prefix leaves the queue when the write completes; dropping the     *)
(* unsent packets keeps exactly the prefix the port is working on.         *)
(***************************************************************************)
EXTENDS Integers, Sequences

CONSTANTS Cams,      \* camera numbers
          N,         \* capacity of the queue, in packets
          ChunkMax,  \* most packets handed to the port by one write
          LsbMod     \* packet numbers are counted modulo this

VARIABLES queue,     \* packets accepted and not yet written
          flight,    \* how many of them, from the front, are being written
          count,     \* the number the next packet of each camera gets
          sent       \* the packets of the last completed write

avars == <<queue, flight, count, sent>>

Packet == [cam : Cams, lsb : 0 .. LsbMod - 1]

(* Lengths of the prefix a write may take from a queue of n packets. *)
Prefixes(n) == {k \in 1 .. ChunkMax : k <= n}

AInit == /\ queue = <<>>
         /\ flight = 0
         /\ count = [c \in Cams |-> 0]
         /\ sent = <<>>

(* A packet is accepted; if the port is idle its next write may start. *)
Accept(c) ==
  /\ Len(queue) < N
  /\ queue' = Append(queue, [cam |-> c, lsb |-> count[c]])
  /\ count' = [count EXCEPT ![c] = (@ + 1) % LsbMod]
  /\ \/ flight' = flight
     \/ flight = 0 /\ flight' \in Prefixes(Len(queue) + 1)
  /\ UNCHANGED sent

(* The port is handed the front of the queue. *)
Start == /\ flight = 0
         /\ flight' \in Prefixes(Len(queue))
         /\ UNCHANGED <<queue, count, sent>>

(* The write completes: exactly the packets that were handed over leave. *)
Complete == /\ flight > 0
            /\ sent' = SubSeq(queue, 1, flight)
            /\ queue' = SubSeq(queue, flight + 1, Len(queue))
            /\ flight' = 0
            /\ UNCHANGED count

(* Everything the port has not been handed is forgotten. *)
DropUnsent == /\ queue' = SubSeq(queue, 1, flight)
              /\ UNCHANGED <<flight, count, sent>>

ANext == (\E c \in Cams : Accept(c)) \/ Start \/ Complete \/ DropUnsent

ASpec == AInit /\ [][ANext]_avars
=============================================================================
