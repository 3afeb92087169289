---------------------------- MODULE CfgTransfer ----------------------------
(***************************************************************************)
(* How a configuration crosses the serial line (proto.cpp): SendCfg() cuts *)
(* it into messages, each the payload of one packet, and hands them to     *)
(* Comm::transmit(); at the other end getEncCfgChunk() puts it together.   *)
(* The board starts a detached thread for every request, so several        *)
(* replies may be under way; Comm's ring is the bounded queue of TxQueue.  *)
(* The same code runs on the host when it uploads a configuration.         *)
(***************************************************************************)
EXTENDS Integers, Sequences

CONSTANTS Replies,  \* threads that run SendCfg(), once each
          Lens,     \* lengths of the configurations
          Mts,      \* Server::Message::mts, most bytes of one message
          Rings,    \* sizes of the ring: a parameter of the program
          ChunkMax, \* most packets of one write
          LsbMod,   \* LSB_MAX_VAL_PLUS_1
          Lossy     \* may the line lose packets?

ASSUME CfgTransferAssumption ==
  /\ Lens \subseteq Nat
  /\ Mts \in Nat \ {0} /\ Rings \subseteq Nat \ {0} /\ ChunkMax \in Nat \ {0}
  /\ LsbMod \in Nat \ {0} /\ Lossy \in BOOLEAN

VARIABLES
  cfg,      \* the configuration each thread sends
  todo,     \* messages it has still to push
  pc,       \* where it is in transmit()
  room,     \* out_buf_size: slots of the ring
  ring,     \* packets accepted and not yet written
  flight,   \* how many of them are being written
  count,    \* m_out_count_lsb
  total,    \* packets numbered so far (history)
  mishaps,  \* what has gone wrong on the way so far (history)
  line,     \* packets written and not yet received
  expect,   \* m_in_count_lsb
  comment,  \* what recv_pkt() says of the packet received last
  last,     \* how many packets were numbered up to it (history)
  missing,  \* packets that should have come just before it (history)
  acc,      \* the receiver's m_enc_cfg
  started,  \* m_first_packet_was_received[EncConfig]
  accepted  \* configurations given to SetEncCfg()

txVars == <<cfg, todo, pc, room, ring, flight, count, total>>
rxVars == <<expect, comment, last, missing, acc, started, accepted>>
vars == <<txVars, mishaps, line, rxVars>>

(* A configuration of n bytes, each of them different from all others. *)
Content(t, n) == [i \in 1 .. n |-> <<t, i>>]

(* Fault: no packet marks the end of a configuration that fills its        *)
(* packets exactly.                                                        *)
MessagesNoEnd(c) ==
  [i \in 1 .. (Len(c) + Mts - 1) \div Mts |->
     [first |-> i = 1,
      body  |-> SubSeq(c, (i - 1) * Mts + 1,
                       IF i * Mts < Len(c) THEN i * Mts ELSE Len(c))]]

(* The messages of a configuration: all but the last carry Mts bytes, the  *)
(* last fewer, none at all if need be; no message for an empty one.        *)
Messages(c) ==
  LET pieces == [i \in 1 .. (Len(c) + Mts - 1) \div Mts |->
                   [first |-> i = 1,
                    body  |-> SubSeq(c, (i - 1) * Mts + 1,
                                     IF i * Mts < Len(c) THEN i * Mts ELSE Len(c))]]
  IN  IF Len(c) > 0 /\ Len(c) % Mts = 0
      THEN Append(pieces, [first |-> FALSE, body |-> <<>>])
      ELSE pieces

LastPkt(m) == Len(m.body) # Mts

Init == /\ cfg = [t \in Replies |-> <<>>]
        /\ todo = [t \in Replies |-> <<>>]
        /\ pc = [t \in Replies |-> "new"]
        /\ room \in Rings
        /\ ring = <<>> /\ flight = 0 /\ count = 0 /\ total = 0
        /\ line = <<>> /\ mishaps = {}
        /\ expect = 0 /\ comment = "Normal" /\ last = 0 /\ missing = 0
        /\ acc = <<>> /\ started = FALSE
        /\ accepted = <<>>
-----------------------------------------------------------------------------
(* A request is answered: a thread cuts the configuration and calls        *)
(* transmit() with all its messages.                                       *)
Send(t, n) ==
  LET msgs == Messages(Content(t, n)) IN
  /\ pc[t] = "new"
  /\ cfg' = [cfg EXCEPT ![t] = Content(t, n)]
  /\ todo' = [todo EXCEPT ![t] = msgs]
  /\ pc' = [pc EXCEPT ![t] = IF msgs = <<>> THEN "done" ELSE "check"]
  /\ UNCHANGED <<room, ring, flight, count, total, mishaps, line, rxVars>>

(* full() is looked at without the lock; transmit() returns short if it    *)
(* is, and SendCfg() does not look at what it returns.                     *)
Check(t) ==
  /\ pc[t] = "check"
  /\ IF Len(ring) = room
     THEN /\ pc' = [pc EXCEPT ![t] = "done"]
          /\ todo' = [todo EXCEPT ![t] = <<>>]
          /\ mishaps' = mishaps \union {"refused"}
     ELSE /\ pc' = [pc EXCEPT ![t] = "lock"]
          /\ UNCHANGED <<todo, mishaps>>
  /\ UNCHANGED <<cfg, room, ring, flight, count, total, line, rxVars>>

(* k messages of t are numbered and stored; the first is written at once if *)
(* the port is idle.                                                       *)
Store(t, k) ==
  /\ ring' = ring \o [i \in 1 .. k |-> [lsb |-> (count + i - 1) % LsbMod,
                                       no  |-> total + i,
                                       msg |-> todo[t][i]]]
  /\ count' = (count + k) % LsbMod
  /\ total' = total + k
  /\ flight' = IF flight = 0 /\ k > 0 THEN 1 ELSE flight
  /\ todo' = [todo EXCEPT ![t] = SubSeq(@, k + 1, Len(@))]

(* Fault: the numbering starts again with every call. *)
PushRenumbers(t) ==
  LET free == room - Len(ring)
      k    == IF Len(todo[t]) < free THEN Len(todo[t]) ELSE free
  IN
  /\ pc[t] = "lock"
  /\ ring' = ring \o [i \in 1 .. k |-> [lsb |-> (i - 1) % LsbMod, no |-> total + i,
                                       msg |-> todo[t][i]]]
  /\ count' = k % LsbMod
  /\ total' = total + k
  /\ flight' = IF flight = 0 /\ k > 0 THEN 1 ELSE flight
  /\ todo' = [todo EXCEPT ![t] = SubSeq(@, k + 1, Len(@))]
  /\ IF k = Len(todo[t])
     THEN pc' = [pc EXCEPT ![t] = "done"] /\ UNCHANGED mishaps
     ELSE pc' = [pc EXCEPT ![t] = "check"] /\ mishaps' = mishaps \union {"split"}
  /\ UNCHANGED <<cfg, room, line, rxVars>>

(* Fault: everything is pushed, whether it fits or not. *)
PushOverfull(t) ==
  /\ pc[t] = "lock"
  /\ Store(t, Len(todo[t]))
  /\ pc' = [pc EXCEPT ![t] = "done"]
  /\ UNCHANGED <<cfg, room, mishaps, line, rxVars>>

(* Under the lock as many messages as fit are pushed. *)
Push(t) ==
  LET free == room - Len(ring)
      k    == IF Len(todo[t]) < free THEN Len(todo[t]) ELSE free
  IN
  /\ pc[t] = "lock"
  /\ Store(t, k)
  /\ IF k = Len(todo[t])
     THEN pc' = [pc EXCEPT ![t] = "done"] /\ UNCHANGED mishaps
     ELSE pc' = [pc EXCEPT ![t] = "check"] /\ mishaps' = mishaps \union {"split"}
  /\ UNCHANGED <<cfg, room, line, rxVars>>

(* A write completes and the next one starts. *)
Complete ==
  LET left == SubSeq(ring, flight + 1, Len(ring)) IN
  /\ flight > 0
  /\ line' = line \o SubSeq(ring, 1, flight)
  /\ ring' = left
  /\ IF left = <<>> THEN flight' = 0
     ELSE flight' \in {k \in 1 .. ChunkMax : k <= Len(left)}
  /\ UNCHANGED <<cfg, todo, pc, room, count, total, mishaps, rxVars>>

(* The Hello and Stop commands make the sender forget its unsent packets. *)
DropUnsent ==
  /\ flight < Len(ring)
  /\ ring' = SubSeq(ring, 1, flight)
  /\ mishaps' = mishaps \union {"dropped"}
  /\ UNCHANGED <<cfg, todo, pc, room, flight, count, total, line, rxVars>>

(* The line loses a packet, or damages it so that the host discards it. *)
Lose == /\ Lossy /\ line # <<>>
        /\ line' = Tail(line)
        /\ mishaps' = mishaps \union {"lost"}
        /\ UNCHANGED <<txVars, rxVars>>
-----------------------------------------------------------------------------
(* recv_pkt(): a number other than the expected one means PacketLost. *)
RecvPkt(pkt) ==
  /\ comment' = IF pkt.lsb # expect THEN "PacketLost" ELSE "Normal"
  /\ expect' = (pkt.lsb + 1) % LsbMod
  /\ missing' = pkt.no - last - 1
  /\ last' = pkt.no

(* Fault: the first message does not clear what is left of an earlier one. *)
GetChunkKeeps(m) ==
  LET body == acc \o m.body
      begun == m.first \/ started
  IN  IF LastPkt(m) /\ begun
      THEN accepted' = Append(accepted, body) /\ acc' = <<>> /\ started' = FALSE
      ELSE acc' = body /\ started' = begun /\ UNCHANGED accepted

(* Fault: a configuration is accepted although its beginning was not seen. *)
GetChunkAny(m) ==
  LET body == (IF m.first THEN <<>> ELSE acc) \o m.body
      begun == m.first \/ started
  IN  IF LastPkt(m)
      THEN accepted' = Append(accepted, body) /\ acc' = <<>> /\ started' = FALSE
      ELSE acc' = body /\ started' = begun /\ UNCHANGED accepted

(* getEncCfgChunk(): the first message clears what was collected, the last *)
(* one hands the configuration over if a first one was seen.               *)
GetChunk(m) ==
  LET body == (IF m.first THEN <<>> ELSE acc) \o m.body
      begun == m.first \/ started
  IN  IF LastPkt(m) /\ begun
      THEN accepted' = Append(accepted, body) /\ acc' = <<>> /\ started' = FALSE
      ELSE acc' = body /\ started' = begun /\ UNCHANGED accepted

(* Server::Callback() is called whatever the comment, and ignores it. *)
Receive == /\ line # <<>>
           /\ line' = Tail(line)
           /\ RecvPkt(Head(line))
           /\ GetChunk(Head(line).msg)
           /\ UNCHANGED <<txVars, mishaps>>

Next == \/ \E t \in Replies, n \in Lens : Send(t, n)
        \/ \E t \in Replies : Check(t) \/ Push(t)
        \/ Complete \/ DropUnsent \/ Lose \/ Receive

Spec == Init /\ [][Next]_vars
-----------------------------------------------------------------------------
TypeOK ==
  /\ pc \in [Replies -> {"new", "check", "lock", "done"}]
  /\ Len(ring) <= room /\ flight \in 0 .. Len(ring)
  /\ ring # <<>> => flight > 0
  /\ count \in 0 .. LsbMod - 1 /\ expect \in 0 .. LsbMod - 1
  /\ comment \in {"Normal", "PacketLost"}
  /\ last <= total /\ missing \in Nat
  /\ started \in BOOLEAN /\ mishaps \subseteq {"lost", "dropped", "refused", "split"}

(* A configuration that is accepted is one that was sent, byte for byte.   *)
(* The packet numbers are there to detect what would break this.           *)
AcceptedIsSent ==
  \A i \in DOMAIN accepted : \E t \in Replies : accepted[i] = cfg[t] /\ cfg[t] # <<>>

(* It is as long as the line loses nothing and each reply finds room in    *)
(* the ring at once: then drop_unsent() may cut a reply short, but what is *)
(* left of it never gets into the next one.                                *)
AcceptedUnlessSplit == mishaps \subseteq {"dropped", "refused"} => AcceptedIsSent

(* If nothing goes wrong every configuration that is not empty arrives,    *)
(* whatever its length: when nothing is left to send or receive, each of   *)
(* them has been accepted exactly once.                                    *)
AllArrive ==
  (\A t \in Replies : todo[t] = <<>>) /\ ring = <<>> /\ line = <<>> /\ mishaps = {} =>
    \A t \in Replies : cfg[t] # <<>> =>
      \E i \in DOMAIN accepted : /\ accepted[i] = cfg[t]
                                 /\ \A j \in DOMAIN accepted \ {i} : accepted[j] # cfg[t]

(* Whatever is lost, dropped or mixed up, a configuration that is accepted *)
(* begins with the first byte of a reply (m_first_packet_was_received      *)
(* keeps out the rest of one whose beginning is lost), and the bytes of a  *)
(* reply stay in order, none of them twice.                                *)
Framed ==
  \A i \in DOMAIN accepted :
    LET c == accepted[i] IN
    /\ c # <<>> /\ c[1][2] = 1
    /\ \A j, k \in DOMAIN c : j < k /\ c[j][1] = c[k][1] => c[j][2] < c[k][2]

(* recv_pkt() says PacketLost exactly of the packets before which some are *)
(* missing, as long as fewer are missing than there are packet numbers;    *)
(* drop_unsent() does not hide a loss.                                     *)
LossFlagged == missing < LsbMod => (comment = "PacketLost" <=> missing > 0)
=============================================================================
