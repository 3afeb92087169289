---------------------------- MODULE PortChecks -----------------------------
(* What ControlPacket computes on streams of bytes, with the packets of    *)
(* the source.  TLC evaluates the assumptions when it starts.              *)
EXTENDS Integers, Sequences, SequencesExt

CP == INSTANCE ControlPacket WITH MAX_DATA_SIZE <- 26

(* parse() goes on where a packet ends and never looks for the beginning   *)
(* of one: a device that sends one PING after the other and whose first    *)
(* two bytes are lost is never answered again.                             *)
Ping == CP!Bytes([dst |-> CP!Self, src |-> 1, cmd |-> CP!PING, high |-> 0, data |-> <<>>])
Pings(n) == [i \in 1 .. n * Len(Ping) |-> Ping[((i - 1) % Len(Ping)) + 1]]
ASSUME NeverInStepAgain ==
  /\ \A p \in ToSet(CP!Parse(Pings(4)).packets) : CP!Accepted(p)
  /\ LET rest == CP!Parse(Tail(Tail(Pings(60))))
     IN  Len(rest.packets) > 1 /\ \A p \in ToSet(rest.packets) : ~CP!Accepted(p)
=============================================================================
