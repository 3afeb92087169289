------------------------- MODULE CfgTransferProofs -------------------------
(***************************************************************************)
(* Proofs about CfgTransfer for every number of replies, every length of   *)
(* the configurations and of a message, every size of the ring and of a    *)
(* write, and every modulus of the packet numbers.                         *)
(***************************************************************************)
EXTENDS CfgTransfer, SequenceTheorems, TLAPS

Byte    == Replies \X (Nat \ {0})
Message == [first : BOOLEAN, body : Seq(Byte)]
Packet  == [lsb : 0 .. LsbMod - 1, no : Nat, msg : Message]

(* The packets on the way, the oldest first. *)
Sent == line \o ring

(* The types. *)
Types == /\ cfg \in [Replies -> Seq(Byte)]
         /\ todo \in [Replies -> Seq(Message)]
         /\ pc \in [Replies -> {"new", "check", "lock", "done"}]
         /\ room \in Nat \ {0}
         /\ ring \in Seq(Packet) /\ line \in Seq(Packet)
         /\ Len(ring) <= room /\ flight \in 0 .. Len(ring)
         /\ ring # <<>> => flight > 0
         /\ count \in 0 .. LsbMod - 1 /\ expect \in 0 .. LsbMod - 1
         /\ total \in Nat /\ last \in Nat
         /\ mishaps \subseteq {"lost", "dropped", "refused", "split"}
         /\ acc \in Seq(Byte) /\ started \in BOOLEAN
         /\ accepted \in Seq(Seq(Byte))

(* What was numbered and what has come, as numbers that do not wrap: a     *)
(* packet on the way is later than the last one that came, and its number  *)
(* on the wire is the remainder.                                           *)
Numbered ==
  /\ last <= total /\ missing \in Nat
  /\ count = total % LsbMod /\ expect = last % LsbMod
  /\ \A i \in 1 .. Len(Sent) : /\ Sent[i].no \in last + 1 .. total
                               /\ Sent[i].lsb = (Sent[i].no - 1) % LsbMod
  /\ \A i, j \in 1 .. Len(Sent) : i < j => Sent[i].no < Sent[j].no
  /\ comment \in {"Normal", "PacketLost"}
  /\ missing < LsbMod => (comment = "PacketLost" <=> missing > 0)

(* The bytes of a reply stay in order. Those that have come are before     *)
(* those on the way, and these before those its thread has still to push;  *)
(* a reply that has not begun has none anywhere.                           *)
Sorted(s)       == \A j, k \in 1 .. Len(s) : j < k /\ s[j][1] = s[k][1] => s[j][2] < s[k][2]
Precedes(r, s)  == \A j \in 1 .. Len(r), k \in 1 .. Len(s) :
                     r[j][1] = s[k][1] => r[j][2] < s[k][2]
Begun(p, s)     == \A j \in 1 .. Len(s) : p[s[j][1]] # "new"
BelongsTo(t, s) == \A j \in 1 .. Len(s) : s[j][1] = t
Opens(s)        == s # <<>> /\ s[1][2] = 1

(* A message that can come after the bytes a. *)
Follows(a, m) == Sorted(m.body) /\ (m.first => Opens(m.body)) /\ Precedes(a, m.body)

InOrder ==
  /\ Sorted(acc) /\ Begun(pc, acc) /\ (started => Opens(acc))
  /\ \A i \in 1 .. Len(Sent) : Follows(acc, Sent[i].msg) /\ Begun(pc, Sent[i].msg.body)
  /\ \A i, j \in 1 .. Len(Sent) : i < j => Precedes(Sent[i].msg.body, Sent[j].msg.body)
  /\ \A t \in Replies : pc[t] = "new" => todo[t] = <<>> /\ cfg[t] = <<>>
  /\ \A t \in Replies : \A k \in 1 .. Len(todo[t]) :
       /\ Follows(acc, todo[t][k]) /\ BelongsTo(t, todo[t][k].body)
       /\ \A i \in 1 .. Len(Sent) : Precedes(Sent[i].msg.body, todo[t][k].body)
       /\ \A l \in 1 .. Len(todo[t]) : k < l => Precedes(todo[t][k].body, todo[t][l].body)
  /\ \A i \in 1 .. Len(accepted) : Sorted(accepted[i]) /\ Opens(accepted[i])

(* Unless a packet is lost or a reply is pushed in two parts: a thread has *)
(* all its messages or none left to push; a message on the way that is not *)
(* the first of its reply comes straight after the one before it, and if   *)
(* that one has come then the reply is collected up to it.                 *)
Follow(t, k, i) ==
  /\ Sent[i].msg = Messages(cfg[t])[k]
  /\ (k > 1 /\ i > 1) => Sent[i - 1].msg = Messages(cfg[t])[k - 1]
  /\ (k > 1 /\ i = 1) => started /\ acc = SubSeq(cfg[t], 1, (k - 1) * Mts)

Linked == \A i \in 1 .. Len(Sent) :
            \E t \in Replies : \E k \in 1 .. Len(Messages(cfg[t])) : Follow(t, k, i)

Unsplit == \A t \in Replies : pc[t] \in {"check", "lock"} => todo[t] = Messages(cfg[t])

Whole == /\ \A t \in Replies : cfg[t] = Content(t, Len(cfg[t]))
         /\ mishaps \subseteq {"dropped", "refused"} => Unsplit /\ Linked /\ AcceptedIsSent

(* If nothing goes wrong a reply waits with all its messages, or is on the *)
(* way in one piece, what has come of it collected (o packets are before   *)
(* it; -o of its own have come if o is negative), or has been accepted     *)
(* once; and none of its bytes is anywhere else.                           *)
Free(t, s)    == \A j \in 1 .. Len(s) : s[j][1] # t
Unaccepted(t) == \A i \in 1 .. Len(accepted) : accepted[i] # cfg[t]

Waits(t) == /\ todo[t] = Messages(cfg[t]) /\ Unaccepted(t)
            /\ Free(t, acc) /\ \A i \in 1 .. Len(Sent) : Free(t, Sent[i].msg.body)

TravelsBehind(t, o) ==
  LET ms == Messages(cfg[t]) IN
  /\ todo[t] = <<>> /\ Unaccepted(t)
  /\ o + Len(ms) \in 1 .. Len(Sent)
  /\ \A k \in 1 .. Len(ms) : o + k >= 1 => Sent[o + k].msg = ms[k]
  /\ \A i \in 1 .. Len(Sent) : i \notin o + 1 .. o + Len(ms) => Free(t, Sent[i].msg.body)
  /\ IF o < 0 THEN started /\ acc = SubSeq(cfg[t], 1, (0 - o) * Mts) ELSE Free(t, acc)

Arrived(t) == /\ todo[t] = <<>>
              /\ \E i \in 1 .. Len(accepted) :
                   /\ accepted[i] = cfg[t]
                   /\ \A j \in 1 .. Len(accepted) \ {i} : accepted[j] # cfg[t]
              /\ Free(t, acc) /\ \A i \in 1 .. Len(Sent) : Free(t, Sent[i].msg.body)

Somewhere == mishaps = {} =>
  \A t \in Replies : cfg[t] # <<>> =>
    Waits(t) \/ (\E o \in Int : TravelsBehind(t, o)) \/ Arrived(t)

(* The inductive invariant. *)
IInv == Types /\ Numbered /\ InOrder /\ Whole /\ Somewhere

-----------------------------------------------------------------------------
(* Quotient and remainder are the only ones. *)
LEMMA DivUnique ==
  ASSUME NEW m \in Nat \ {0}, NEW q \in Int, NEW r \in 0 .. m - 1
  PROVE  (m * q + r) \div m = q /\ (m * q + r) % m = r
<1> DEFINE x == m * q + r
           p == x \div m
           s == x % m
<1>1. x \in Int /\ p \in Int /\ s \in 0 .. m - 1 /\ x = m * p + s
  OBVIOUS
<1> HIDE DEF p, s
<1>2. m * (p - q) = r - s
  <2>1. m * p \in Int /\ m * q \in Int /\ m * (p - q) = m * p - m * q
    BY <1>1
  <2> QED
    BY <1>1, <2>1
<1>3. p - q <= 0
  <2> SUFFICES ASSUME p - q >= 1 PROVE FALSE
    BY <1>1
  <2>1. m * (p - q) >= m
    BY <1>1
  <2> QED
    BY <1>1, <1>2, <2>1
<1>4. p - q >= 0
  <2> SUFFICES ASSUME p - q <= -1 PROVE FALSE
    BY <1>1
  <2>1. m * (p - q) <= -m
    BY <1>1
  <2> QED
    BY <1>1, <1>2, <2>1
<1>5. p = q
  BY <1>1, <1>3, <1>4
<1> QED
  BY <1>1, <1>2, <1>5 DEF p, s
(* Division with remainder. *)
LEMMA DivMod ==
  ASSUME NEW m \in Nat \ {0}, NEW x \in Int
  PROVE  /\ x \div m \in Int /\ x % m \in 0 .. m - 1 /\ x = m * (x \div m) + (x % m)
         /\ x >= 0 => x \div m >= 0
<1> DEFINE p == x \div m
           s == x % m
<1>1. p \in Int /\ s \in 0 .. m - 1 /\ x = m * p + s
  OBVIOUS
<1> HIDE DEF p, s
<1>2. ASSUME x >= 0, p <= -1 PROVE FALSE
  <2>1. m * p <= -m
    BY <1>1, <1>2
  <2> QED
    BY <1>1, <1>2, <2>1
<1>3. x >= 0 => p >= 0
  BY <1>1, <1>2
<1> QED
  BY <1>1, <1>3 DEF p, s

(* A remainder may be taken before adding. *)
LEMMA ModAdd ==
  ASSUME NEW m \in Nat \ {0}, NEW a \in Nat, NEW k \in Nat
  PROVE  ((a % m) + k) % m = (a + k) % m
<1> DEFINE r == a % m
           p == a \div m
           s == (r + k) % m
           q == (r + k) \div m
<1>1. p \in Int /\ r \in 0 .. m - 1 /\ a = m * p + r
  OBVIOUS
<1> HIDE DEF r, p
<1>2. r + k \in Int
  BY ONLY <1>1, m \in Nat \ {0}, k \in Nat
<1>3. q \in Int /\ s \in 0 .. m - 1 /\ r + k = m * q + s
  BY ONLY <1>2, m \in Nat \ {0}, DivMod DEF q, s
<1> HIDE DEF s, q
<1>4. m * (p + q) = m * p + m * q /\ m * p \in Int /\ m * q \in Int /\ p + q \in Int
  <2>1. p \in Int /\ q \in Int /\ m \in Int
    BY ONLY <1>1, <1>3, m \in Nat \ {0}
  <2> QED
    BY ONLY <2>1
<1>5. a + k = m * (p + q) + s
  BY ONLY <1>1, <1>3, <1>4, a \in Nat, k \in Nat, m \in Nat \ {0}
<1>6. (m * (p + q) + s) % m = s
  BY ONLY <1>3, <1>4, m \in Nat \ {0}, DivUnique
<1>7. (a + k) % m = s
  BY ONLY <1>5, <1>6
<1> QED
  BY ONLY <1>7 DEF s, r
(* Numbers that are less than m apart have different remainders. *)
LEMMA ModDiffer ==
  ASSUME NEW m \in Nat \ {0}, NEW a \in Nat, NEW b \in Nat, a <= b, b - a < m, a % m = b % m
  PROVE  a = b
<1> DEFINE p == a \div m
           q == b \div m
           s == a % m
<1>1. p \in Int /\ q \in Int /\ s \in 0 .. m - 1 /\ a = m * p + s /\ b = m * q + s
  OBVIOUS
<1> HIDE DEF p, q, s
<1>2. b - a = m * (q - p)
  <2>1. m * p \in Int /\ m * q \in Int /\ m * (q - p) = m * q - m * p
    BY <1>1
  <2> QED
    BY <1>1, <2>1
<1>3. q - p <= 0
  <2> SUFFICES ASSUME q - p >= 1 PROVE FALSE
    BY <1>1
  <2>1. m * (q - p) >= m
    BY <1>1
  <2> QED
    BY <1>1, <1>2, <2>1
<1>4. q - p >= 0
  <2> SUFFICES ASSUME q - p <= -1 PROVE FALSE
    BY <1>1
  <2>1. m * (q - p) <= -m
    BY <1>1
  <2> QED
    BY <1>1, <1>2, <2>1
<1> QED
  BY <1>1, <1>3, <1>4
-----------------------------------------------------------------------------
(* The operator Messages(): how many messages a configuration makes, which *)
(* of its bytes each carries, and that all but the last are full.          *)
LEMMA ContentIs ==
  ASSUME NEW t \in Replies, NEW n \in Nat
  PROVE  /\ Content(t, n) \in Seq(Byte) /\ Len(Content(t, n)) = n
         /\ \A i \in 1 .. n : Content(t, n)[i] = <<t, i>>
<1>1. \A i \in 1 .. n : <<t, i>> \in Byte
  BY DEF Byte
<1>2. Content(t, n) \in [1 .. n -> Byte]
  BY <1>1 DEF Content
<1>3. Content(t, n) \in Seq(Byte) /\ Len(Content(t, n)) = n
  BY <1>2
<1> QED
  BY <1>3 DEF Content

(* A part of a configuration. *)
LEMMA PieceIs ==
  ASSUME NEW t \in Replies, NEW n \in Nat, NEW a \in Nat, NEW b \in Nat, a <= b, b <= n
  PROVE  /\ SubSeq(Content(t, n), a + 1, b) \in Seq(Byte)
         /\ Len(SubSeq(Content(t, n), a + 1, b)) = b - a
         /\ \A i \in 1 .. b - a : SubSeq(Content(t, n), a + 1, b)[i] = <<t, a + i>>
<1> DEFINE c == Content(t, n)
<1>1. \A i \in a + 1 .. b : c[i] = <<t, i>> /\ c[i] \in Byte
  <2> SUFFICES ASSUME NEW i \in a + 1 .. b PROVE c[i] = <<t, i>> /\ <<t, i>> \in Byte
    OBVIOUS
  <2>1. i \in 1 .. n /\ i \in Nat \ {0}
    OBVIOUS
  <2> QED
    BY <2>1, ContentIs DEF Byte
<1> HIDE DEF c
<1>2. /\ SubSeq(c, a + 1, b) \in Seq(Byte)
      /\ Len(SubSeq(c, a + 1, b)) = IF a + 1 <= b THEN b - (a + 1) + 1 ELSE 0
      /\ \A i \in 1 .. b - (a + 1) + 1 : SubSeq(c, a + 1, b)[i] = c[a + 1 + i - 1]
  BY <1>1, SubSeqProperties
<1>3. \A i \in 1 .. b - a : SubSeq(c, a + 1, b)[i] = c[a + i] /\ a + i \in a + 1 .. b
  BY <1>2
<1> QED
  BY <1>1, <1>2, <1>3 DEF c

(* The number of messages of n bytes. *)
Pieces(n) == IF n = 0 THEN 0 ELSE n \div Mts + 1

LEMMA PiecesFit ==
  ASSUME NEW n \in Nat
  PROVE  /\ Pieces(n) \in Nat /\ (n > 0 => Pieces(n) > 0)
         /\ n > 0 => (Pieces(n) - 1) * Mts <= n /\ n < Pieces(n) * Mts
         /\ \A k \in 1 .. Pieces(n) : (k - 1) * Mts \in 0 .. n
         /\ \A k \in 1 .. Pieces(n) - 1 : k * Mts \in 1 .. n
         /\ n > 0 => IF n % Mts = 0 THEN (n + Mts - 1) \div Mts = Pieces(n) - 1
                                    ELSE (n + Mts - 1) \div Mts = Pieces(n)
<1> USE CfgTransferAssumption
<1> DEFINE q == n \div Mts
           r == n % Mts
<1>1. q \in Nat /\ r \in 0 .. Mts - 1 /\ n = Mts * q + r
  <2>1. n \in Int /\ n >= 0 /\ Mts \in Nat \ {0}
    OBVIOUS
  <2>2. /\ n \div Mts \in Int /\ n % Mts \in 0 .. Mts - 1
        /\ n = Mts * (n \div Mts) + (n % Mts)
        /\ n >= 0 => n \div Mts >= 0
    BY ONLY <2>1, DivMod, Zenon
  <2> QED
    BY <2>1, <2>2
<1> HIDE DEF q, r
<1>2. (q + 1) * Mts = Mts * q + Mts /\ q * Mts = Mts * q /\ Mts * q \in Nat
  BY <1>1
<1>3. ASSUME n > 0 PROVE Pieces(n) = q + 1
  BY <1>3 DEF Pieces, q
<1>4. ASSUME n > 0, NEW k \in 0 .. q PROVE k * Mts \in 0 .. n
  <2>1. k * Mts <= q * Mts /\ k * Mts \in Nat
    BY <1>1
  <2> QED
    BY <1>1, <1>2, <2>1
<1>5. ASSUME n > 0, NEW k \in 1 .. q PROVE k * Mts >= 1
  BY <1>1
<1>6. ASSUME n > 0, r = 0 PROVE (n + Mts - 1) \div Mts = q
  <2>1. n + Mts - 1 = Mts * q + (Mts - 1)
    BY <1>1, <1>6
  <2> QED
    BY <1>1, <2>1, DivUnique
<1>7. ASSUME n > 0, r > 0 PROVE (n + Mts - 1) \div Mts = q + 1
  <2>1. n + Mts - 1 = Mts * (q + 1) + (r - 1)
    BY <1>1, <1>2, <1>7
  <2> QED
    BY <1>1, <1>7, <2>1, DivUnique
<1>8. CASE n = 0
  BY <1>8 DEF Pieces
<1>9. CASE n > 0
  <2>1. Pieces(n) = q + 1
    BY <1>3, <1>9
  <2> QED
    BY <1>1, <1>2, <1>4, <1>5, <1>6, <1>7, <1>9, <2>1 DEF r
<1> QED
  BY <1>8, <1>9

(* The bytes of the k-th message of n bytes. *)
Bound(n, k)    == IF k < Pieces(n) THEN k * Mts ELSE n
Piece(t, n, k) == SubSeq(Content(t, n), (k - 1) * Mts + 1, Bound(n, k))

LEMMA PieceShape ==
  ASSUME NEW t \in Replies, NEW n \in Nat, NEW k \in 1 .. Pieces(n)
  PROVE  /\ (k - 1) * Mts \in Nat /\ Bound(n, k) \in (k - 1) * Mts .. n
         /\ Bound(n, k) = (IF (k * Mts) < n THEN k * Mts ELSE n)
         /\ Piece(t, n, k) \in Seq(Byte)
         /\ Len(Piece(t, n, k)) = Bound(n, k) - (k - 1) * Mts
         /\ \A i \in 1 .. Len(Piece(t, n, k)) : Piece(t, n, k)[i] = <<t, (k - 1) * Mts + i>>
         /\ k < Pieces(n) => Bound(n, k) = (k - 1) * Mts + Mts
         /\ k = Pieces(n) => Len(Piece(t, n, k)) < Mts /\ Bound(n, k) = n
<1> USE CfgTransferAssumption
<1> DEFINE a == (k - 1) * Mts
           b == Bound(n, k)
<1>1. n > 0
  BY DEF Pieces
<1>2. Pieces(n) \in Nat /\ a \in 0 .. n /\ n < Pieces(n) * Mts /\ k * Mts = a + Mts
  <2>1. k \in Int /\ Mts \in Int
    BY PiecesFit
  <2>2. k * Mts = (k - 1) * Mts + Mts
    BY ONLY <2>1
  <2> QED
    BY <1>1, <2>2, PiecesFit
<1>3. k < Pieces(n) => a + Mts <= n
  <2>1. k < Pieces(n) => k \in 1 .. Pieces(n) - 1
    BY <1>2
  <2>2. k < Pieces(n) => k * Mts \in 1 .. n
    BY <2>1, PiecesFit
  <2> QED
    BY <1>2, <2>2
<1>4. k = Pieces(n) => n < a + Mts
  BY <1>2
<1> HIDE DEF a
<1>5. k < Pieces(n) => b = a + Mts
  BY <1>2 DEF Bound
<1>6. k = Pieces(n) => b = n
  BY <1>2 DEF Bound
<1>7. a \in Nat /\ b \in a .. n
  BY <1>2, <1>3, <1>5, <1>6
<1>8. b = (IF (k * Mts) < n THEN k * Mts ELSE n)
  BY <1>2, <1>3, <1>4, <1>5, <1>6, <1>7
<1> HIDE DEF b
<1>9. /\ SubSeq(Content(t, n), a + 1, b) \in Seq(Byte)
      /\ Len(SubSeq(Content(t, n), a + 1, b)) = b - a
      /\ \A i \in 1 .. b - a : SubSeq(Content(t, n), a + 1, b)[i] = <<t, a + i>>
  <2>1. a \in Nat /\ b \in Nat /\ a <= b /\ b <= n
    BY <1>7
  <2> QED
    BY ONLY <2>1, t \in Replies, n \in Nat, PieceIs, Zenon
<1>10. Piece(t, n, k) = SubSeq(Content(t, n), a + 1, b)
  BY DEF Piece, a, b
<1>11. k = Pieces(n) => b - a < Mts
  BY <1>2, <1>4, <1>6, <1>7
<1> QED
  BY <1>5, <1>6, <1>7, <1>8, <1>9, <1>10, <1>11 DEF a, b

(* What Messages() returns. *)
LEMMA MessagesAre ==
  ASSUME NEW t \in Replies, NEW n \in Nat
  PROVE  /\ Messages(Content(t, n)) \in Seq(Message)
         /\ Len(Messages(Content(t, n))) = Pieces(n)
         /\ \A k \in 1 .. Pieces(n) :
              Messages(Content(t, n))[k] = [first |-> k = 1, body |-> Piece(t, n, k)]
<1> USE CfgTransferAssumption
<1> DEFINE c == Content(t, n)
           N == Pieces(n)
           p == (n + Mts - 1) \div Mts
           pieces == [i \in 1 .. p |->
                        [first |-> i = 1,
                         body  |-> SubSeq(c, (i - 1) * Mts + 1,
                                          IF i * Mts < Len(c) THEN i * Mts ELSE Len(c))]]
           piece(k) == [first |-> k = 1, body |-> Piece(t, n, k)]
<1>1. Len(c) = n /\ N \in Nat
  BY ContentIs, PiecesFit
<1>2. Messages(c) = IF n > 0 /\ n % Mts = 0 THEN Append(pieces, [first |-> FALSE, body |-> <<>>])
                    ELSE pieces
  BY <1>1 DEF Messages
<1>3. ASSUME NEW k \in 1 .. N PROVE piece(k) \in Message
  BY <1>3, PieceShape DEF Message
<1>4. ASSUME NEW k \in 1 .. N, k \in 1 .. p PROVE pieces[k] = piece(k)
  <2>1. Bound(n, k) = IF k * Mts < Len(c) THEN k * Mts ELSE Len(c)
    BY <1>1, PieceShape
  <2> QED
    BY <1>4, <2>1 DEF Piece
<1>5. ASSUME p \in Nat, p <= N
      PROVE  pieces \in Seq(Message) /\ Len(pieces) = p
  <2>1. \A k \in 1 .. p : pieces[k] \in Message
    <3> SUFFICES ASSUME NEW k \in 1 .. p PROVE pieces[k] \in Message
      OBVIOUS
    <3>1. k \in 1 .. N
      BY <1>1, <1>5
    <3> QED
      BY <1>3, <1>4, <3>1
  <2>2. DOMAIN pieces = 1 .. p /\ pieces = [k \in 1 .. p |-> pieces[k]]
    OBVIOUS
  <2> HIDE DEF pieces, p
  <2>3. pieces \in [1 .. p -> Message]
    BY <2>1, <2>2
  <2> QED
    BY <2>3, <1>5
<1>6. CASE n = 0
  <2>1. N = 0
    BY <1>6 DEF Pieces
  <2>2. p = 0
    BY <1>6
  <2>3. Messages(c) = pieces
    BY <1>2, <1>6
  <2> HIDE DEF pieces, p, N, c
  <2>4. pieces \in Seq(Message) /\ Len(pieces) = 0
    BY <1>5, <2>1, <2>2
  <2> QED
    BY <2>1, <2>3, <2>4 DEF N, c
<1>7. CASE n > 0 /\ n % Mts # 0
  <2>1. p = N
    BY <1>7, PiecesFit
  <2>2. Messages(c) = pieces
    BY <1>2, <1>7
  <2> HIDE DEF pieces, piece, p, N, c
  <2>3. pieces \in Seq(Message) /\ Len(pieces) = N
    BY <1>1, <1>5, <2>1
  <2>4. \A k \in 1 .. N : pieces[k] = piece(k)
    BY <1>4, <2>1
  <2> QED
    BY <2>2, <2>3, <2>4 DEF piece, N, c
<1>8. CASE n > 0 /\ n % Mts = 0
  <2>1. p = N - 1 /\ N > 0
    BY <1>8, PiecesFit
  <2>2. piece(N) = [first |-> FALSE, body |-> <<>>]
    <3>1. n = Mts * (n \div Mts) /\ n \div Mts \in Nat
      <4>1. n \in Int /\ n >= 0 /\ Mts \in Nat \ {0}
        OBVIOUS
      <4>2. /\ n \div Mts \in Int /\ n % Mts \in 0 .. Mts - 1
            /\ n = Mts * (n \div Mts) + (n % Mts)
            /\ n >= 0 => n \div Mts >= 0
        BY ONLY <4>1, DivMod, Zenon
      <4> HIDE DEF p, c, N, pieces, piece
      <4> QED
        BY ONLY <4>1, <4>2, <1>8
    <3>2. N - 1 = n \div Mts
      BY <1>8, <3>1 DEF Pieces
    <3>3. (N - 1) * Mts = n /\ N > 1
      <4> DEFINE q == n \div Mts
      <4>1. q \in Nat /\ n = Mts * q /\ n > 0 /\ Mts \in Nat
        BY <1>8, <3>1
      <4>2. N - 1 = q
        BY <3>2
      <4> HIDE DEF q, p, c, N, pieces, piece
      <4>3. q * Mts = n /\ q > 0
        BY ONLY <4>1
      <4> QED
        BY <4>2, <4>3, <1>1
    <3>4. Bound(n, N) = n
      BY <1>1 DEF Bound
    <3>5. SubSeq(c, n + 1, n) = <<>>
      BY SubSeqEmpty
    <3>6. Piece(t, n, N) = SubSeq(c, n + 1, n)
      BY <3>3, <3>4 DEF Piece
    <3> HIDE DEF p, c, N, pieces
    <3>7. (N = 1) = FALSE
      BY <1>1, <3>3
    <3> QED
      BY <3>5, <3>6, <3>7
  <2>3. Messages(c) = Append(pieces, [first |-> FALSE, body |-> <<>>])
    BY <1>2, <1>8
  <2> HIDE DEF pieces, piece, p, N, c
  <2>4. pieces \in Seq(Message) /\ Len(pieces) = N - 1
    BY <1>1, <1>5, <2>1
  <2>5. \A k \in 1 .. N - 1 : pieces[k] = piece(k)
    BY <1>1, <1>4, <2>1
  <2>6. piece(N) \in Message
    BY <1>1, <1>3, <2>1
  <2>7. /\ Append(pieces, piece(N)) \in Seq(Message)
        /\ Len(Append(pieces, piece(N))) = N
        /\ \A k \in 1 .. N : Append(pieces, piece(N))[k] = IF k = N THEN piece(N) ELSE pieces[k]
    BY <1>1, <2>1, <2>4, <2>6, AppendProperties
  <2>8. \A k \in 1 .. N : Append(pieces, piece(N))[k] = piece(k)
    BY <1>1, <2>5, <2>7
  <2>9. Messages(c) = Append(pieces, piece(N))
    BY <2>2, <2>3
  <2> HIDE DEF piece
  <2> QED
    BY <2>7, <2>8, <2>9 DEF piece, N, c
<1>9. n = 0 \/ (n > 0 /\ n % Mts # 0) \/ (n > 0 /\ n % Mts = 0)
  OBVIOUS
<1> HIDE DEF c, N, p, pieces, piece
<1> QED
  BY ONLY <1>6, <1>7, <1>8, <1>9, Zenon
-----------------------------------------------------------------------------
(* What each action does to the packets on the way.                        *)
LEMMA SentIs ==
  ASSUME Types
  PROVE  /\ Sent \in Seq(Packet) /\ Len(Sent) = Len(line) + Len(ring)
         /\ \A i \in 1 .. Len(Sent) : Sent[i] \in Packet
<1>1. line \in Seq(Packet) /\ ring \in Seq(Packet)
  BY DEF Types
<1>2. Sent \in Seq(Packet) /\ Len(Sent) = Len(line) + Len(ring)
  BY ONLY <1>1, ConcatProperties, Zenon DEF Sent
<1> QED
  BY <1>2, ElementOfSeq

(* Push() appends the first messages of one reply. *)
Fits(t)   == IF Len(todo[t]) < room - Len(ring) THEN Len(todo[t]) ELSE room - Len(ring)
Pushed(t) == [i \in 1 .. Fits(t) |-> [lsb |-> (count + i - 1) % LsbMod, no |-> total + i,
                                      msg |-> todo[t][i]]]

LEMMA PushAppends ==
  ASSUME Types, NEW t \in Replies, Push(t)
  PROVE  /\ Fits(t) \in 0 .. Len(todo[t]) /\ Len(ring) + Fits(t) <= room
         /\ Pushed(t) \in Seq(Packet) /\ Len(Pushed(t)) = Fits(t)
         /\ ring' \in Seq(Packet) /\ Len(ring') = Len(ring) + Fits(t)
         /\ Sent' = Sent \o Pushed(t)
         /\ Len(Sent') = Len(Sent) + Fits(t)
         /\ \A i \in 1 .. Len(Sent') :
              Sent'[i] = IF i <= Len(Sent) THEN Sent[i] ELSE Pushed(t)[i - Len(Sent)]
         /\ total' = total + Fits(t) /\ count' = (count + Fits(t)) % LsbMod
         /\ todo' = [todo EXCEPT ![t] = SubSeq(@, Fits(t) + 1, Len(@))]
<1> USE CfgTransferAssumption
<1>1. /\ todo[t] \in Seq(Message) /\ Len(todo[t]) \in Nat
      /\ \A i \in 1 .. Len(todo[t]) : todo[t][i] \in Message
  BY DEF Types
<1>2. Len(ring) \in Nat /\ room \in Nat /\ Len(ring) <= room
  BY DEF Types
<1>3. Fits(t) \in 0 .. Len(todo[t]) /\ Len(ring) + Fits(t) <= room
  BY <1>1, <1>2 DEF Fits
<1>4. Pushed(t) \in Seq(Packet) /\ Len(Pushed(t)) = Fits(t)
  <2>1. ASSUME NEW i \in 1 .. Fits(t)
        PROVE  [lsb |-> (count + i - 1) % LsbMod, no |-> total + i, msg |-> todo[t][i]] \in Packet
    <3>1. (count + i - 1) % LsbMod \in 0 .. LsbMod - 1
      <4>1. count + i - 1 \in Int
        BY <1>3 DEF Types
      <4> QED
        BY ONLY <4>1, LsbMod \in Nat \ {0}, DivMod, Zenon
    <3>2. total + i \in Nat /\ todo[t][i] \in Message
      BY <1>1, <1>3 DEF Types
    <3> QED
      BY <3>1, <3>2 DEF Packet
  <2>2. Pushed(t) \in [1 .. Fits(t) -> Packet]
    BY <2>1 DEF Pushed
  <2> QED
    BY <1>3, <2>2
<1>5. /\ ring' = ring \o Pushed(t) /\ line' = line /\ total' = total + Fits(t)
      /\ count' = (count + Fits(t)) % LsbMod
      /\ todo' = [todo EXCEPT ![t] = SubSeq(@, Fits(t) + 1, Len(@))]
  BY DEF Push, Store, Fits, Pushed
<1>6. line \in Seq(Packet) /\ ring \in Seq(Packet)
  BY DEF Types
<1>7. Sent' = Sent \o Pushed(t)
  <2>1. (line \o ring) \o Pushed(t) = line \o (ring \o Pushed(t))
    <3>1. line \in Seq(Packet) /\ ring \in Seq(Packet) /\ Pushed(t) \in Seq(Packet)
      BY <1>4, <1>6
    <3> QED
      BY ONLY <3>1, ConcatAssociative
  <2> QED
    BY <1>5, <2>1 DEF Sent
<1>8. ring' \in Seq(Packet) /\ Len(ring') = Len(ring) + Fits(t)
  BY <1>4, <1>5, <1>6, ConcatProperties
<1> QED
  BY <1>3, <1>4, <1>5, <1>7, <1>8, SentIs, ConcatProperties

(* Complete moves packets from the ring to the line: all stay in place. *)
LEMMA CompleteKeeps ==
  ASSUME Types, Complete
  PROVE  /\ Sent' = Sent
         /\ line' \in Seq(Packet) /\ ring' \in Seq(Packet) /\ Len(ring') <= Len(ring)
         /\ flight' \in 0 .. Len(ring') /\ (ring' # <<>> => flight' > 0)
<1> DEFINE gone == SubSeq(ring, 1, flight)
           left == SubSeq(ring, flight + 1, Len(ring))
<1>1. /\ line \in Seq(Packet) /\ ring \in Seq(Packet) /\ flight \in 0 .. Len(ring)
      /\ Len(ring) \in Nat /\ \A i \in 1 .. Len(ring) : ring[i] \in Packet
  BY DEF Types
<1>2. line' = line \o gone /\ ring' = left
  BY DEF Complete
<1>3. gone \in Seq(Packet) /\ left \in Seq(Packet) /\ Len(left) = Len(ring) - flight
  BY <1>1, SubSeqProperties
<1>4. gone \o left = ring
  <2>1. gone \o left = SubSeq(ring, 1, Len(ring))
    <3> SUFFICES gone \o left = SubSeq(ring, 1, Len(ring))
      OBVIOUS
    <3>1. 1 \in 1 .. Len(ring) + 1 /\ flight \in 1 - 1 .. Len(ring) /\ Len(ring) \in flight .. Len(ring)
      BY <1>1
    <3> QED
      BY ONLY <1>1, <3>1, ConcatAdjacentSubSeq
  <2>2. SubSeq(ring, 1, Len(ring)) = ring
    BY <1>1, SubSeqFull
  <2> QED
    BY <2>1, <2>2
<1>5. (line \o gone) \o left = line \o (gone \o left)
  <2>1. line \in Seq(Packet) /\ gone \in Seq(Packet) /\ left \in Seq(Packet)
    BY <1>1, <1>3
  <2> HIDE DEF gone, left
  <2> QED
    BY ONLY <2>1, ConcatAssociative
<1>6. line' \in Seq(Packet)
  BY <1>1, <1>2, <1>3, ConcatProperties
<1> HIDE DEF gone, left
<1>7. flight' \in 0 .. Len(ring') /\ (ring' # <<>> => flight' > 0)
  <2>1. IF ring' = <<>> THEN flight' = 0 ELSE flight' \in {k \in 1 .. ChunkMax : k <= Len(ring')}
    BY <1>2 DEF Complete, left
  <2>2. Len(ring') \in Nat
    BY <1>1, <1>2, <1>3
  <2> QED
    BY <2>1, <2>2, CfgTransferAssumption
<1> QED
  BY <1>1, <1>2, <1>3, <1>4, <1>5, <1>6, <1>7 DEF Sent

(* DropUnsent cuts off the end. *)
LEMMA DropCuts ==
  ASSUME Types, DropUnsent
  PROVE  /\ ring' \in Seq(Packet) /\ Len(ring') = flight /\ line' = line
         /\ Len(Sent') \in 0 .. Len(Sent)
         /\ \A i \in 1 .. Len(Sent') : Sent'[i] = Sent[i]
<1>1. /\ line \in Seq(Packet) /\ ring \in Seq(Packet) /\ flight \in 0 .. Len(ring)
      /\ Len(ring) \in Nat /\ Len(line) \in Nat
      /\ \A i \in 1 .. Len(ring) : ring[i] \in Packet
  BY DEF Types
<1>2. line' = line /\ ring' = SubSeq(ring, 1, flight)
  BY DEF DropUnsent
<1>3. /\ ring' \in Seq(Packet) /\ Len(ring') = flight
      /\ \A i \in 1 .. flight : ring'[i] = ring[i]
  BY <1>1, <1>2, SubSeqProperties
<1>4. /\ Len(Sent') = Len(line) + flight
      /\ \A i \in 1 .. Len(line) + flight :
           Sent'[i] = IF i <= Len(line) THEN line[i] ELSE ring'[i - Len(line)]
  BY <1>1, <1>2, <1>3, ConcatProperties DEF Sent
<1>5. /\ Len(Sent) = Len(line) + Len(ring)
      /\ \A i \in 1 .. Len(line) + Len(ring) :
           Sent[i] = IF i <= Len(line) THEN line[i] ELSE ring[i - Len(line)]
  BY <1>1, ConcatProperties DEF Sent
<1>6. Len(Sent') \in 0 .. Len(Sent)
  BY <1>1, <1>4, <1>5
<1>7. ASSUME NEW i \in 1 .. Len(line) + flight PROVE Sent'[i] = Sent[i]
  <2>1. i \in 1 .. Len(line) + Len(ring)
    BY <1>1
  <2>2. CASE i <= Len(line)
    BY <1>4, <1>5, <2>1, <2>2
  <2>3. CASE i > Len(line)
    BY <1>1, <1>3, <1>4, <1>5, <2>1, <2>3
  <2> QED
    BY <1>1, <2>2, <2>3
<1> QED
  BY <1>2, <1>3, <1>4, <1>6, <1>7

(* Lose and Receive take the oldest. *)
LEMMA TailTakes ==
  ASSUME Types, line # <<>>, line' = Tail(line), ring' = ring
  PROVE  /\ line' \in Seq(Packet) /\ Head(line) = Sent[1] /\ Head(line) \in Packet
         /\ Len(Sent) \in Nat \ {0} /\ Len(Sent') = Len(Sent) - 1
         /\ \A i \in 1 .. Len(Sent') : Sent'[i] = Sent[i + 1]
<1>1. line \in Seq(Packet) /\ ring \in Seq(Packet) /\ Len(ring) \in Nat /\ Len(line) \in Nat \ {0}
  BY DEF Types
<1>2. /\ line' \in Seq(Packet) /\ Len(line') = Len(line) - 1
      /\ \A i \in 1 .. Len(line') : line'[i] = line[i + 1]
      /\ Head(line) \in Packet /\ Head(line) = line[1]
  BY <1>1, HeadTailProperties
<1>3. /\ Len(Sent') = Len(line') + Len(ring)
      /\ \A i \in 1 .. Len(line') + Len(ring) :
           Sent'[i] = IF i <= Len(line') THEN line'[i] ELSE ring[i - Len(line')]
  BY <1>1, <1>2, ConcatProperties DEF Sent
<1>4. /\ Len(Sent) = Len(line) + Len(ring)
      /\ \A i \in 1 .. Len(line) + Len(ring) :
           Sent[i] = IF i <= Len(line) THEN line[i] ELSE ring[i - Len(line)]
  BY <1>1, ConcatProperties DEF Sent
<1>5. ASSUME NEW i \in 1 .. Len(line') + Len(ring) PROVE Sent'[i] = Sent[i + 1]
  <2>1. i + 1 \in 1 .. Len(line) + Len(ring)
    BY <1>1, <1>2
  <2>2. CASE i <= Len(line')
    BY <1>1, <1>2, <1>3, <1>4, <2>1, <2>2
  <2>3. CASE i > Len(line')
    BY <1>1, <1>2, <1>3, <1>4, <2>1, <2>3
  <2> QED
    BY <1>1, <1>2, <2>2, <2>3
<1>6. Len(Sent) \in Nat \ {0} /\ Len(Sent') = Len(Sent) - 1
  BY <1>1, <1>2, <1>3, <1>4
<1>7. Sent[1] = line[1]
  BY <1>1, <1>4
<1> QED
  BY <1>2, <1>3, <1>5, <1>6, <1>7
-----------------------------------------------------------------------------
(* The types.                                                              *)
LEMMA InitTypes == Init => Types
<1> USE CfgTransferAssumption
<1> SUFFICES ASSUME Init PROVE Types
  OBVIOUS
<1>1. cfg \in [Replies -> Seq(Byte)] /\ todo \in [Replies -> Seq(Message)]
  BY DEF Init
<1>2. accepted \in Seq(Seq(Byte)) /\ acc \in Seq(Byte)
  BY DEF Init
<1>3. ring \in Seq(Packet) /\ line \in Seq(Packet) /\ Len(ring) = 0 /\ ring = <<>>
  BY DEF Init
<1>4. 0 \in 0 .. LsbMod - 1 /\ 0 \in Nat
  OBVIOUS
<1>5. room \in Nat \ {0} /\ Len(ring) <= room
  BY <1>3 DEF Init
<1>6. flight = 0 /\ flight \in 0 .. Len(ring)
  BY <1>3 DEF Init
<1>7. pc \in [Replies -> {"new", "check", "lock", "done"}]
  BY DEF Init
<1>8. mishaps \subseteq {"lost", "dropped", "refused", "split"} /\ started \in BOOLEAN
  BY DEF Init
<1>9. count = 0 /\ expect = 0 /\ total = 0 /\ last = 0
  BY DEF Init
<1> QED
  BY <1>1, <1>2, <1>3, <1>4, <1>5, <1>6, <1>7, <1>8, <1>9 DEF Types

LEMMA SendTypes ==
  ASSUME Types, NEW t \in Replies, NEW n \in Lens, Send(t, n)
  PROVE  Types'
<1>1. n \in Nat
  BY CfgTransferAssumption
<1>2. Content(t, n) \in Seq(Byte) /\ Messages(Content(t, n)) \in Seq(Message)
  BY <1>1, ContentIs, MessagesAre
<1>3. cfg' = [cfg EXCEPT ![t] = Content(t, n)] /\ todo' = [todo EXCEPT ![t] = Messages(Content(t, n))]
  BY DEF Send
<1>4. cfg' \in [Replies -> Seq(Byte)] /\ todo' \in [Replies -> Seq(Message)]
  BY <1>2, <1>3 DEF Types
<1>5. pc' \in [Replies -> {"new", "check", "lock", "done"}]
  BY DEF Send, Types
<1> QED
  BY <1>4, <1>5 DEF Send, Types, rxVars

LEMMA CheckTypes ==
  ASSUME Types, NEW t \in Replies, Check(t)
  PROVE  Types'
<1>1. todo' \in [Replies -> Seq(Message)]
  <2>1. <<>> \in Seq(Message) /\ todo \in [Replies -> Seq(Message)]
    BY DEF Types
  <2>2. todo' = todo \/ todo' = [todo EXCEPT ![t] = <<>>]
    BY DEF Check
  <2> QED
    BY <2>1, <2>2
<1>2. pc' \in [Replies -> {"new", "check", "lock", "done"}]
  BY DEF Check, Types
<1>3. mishaps' \subseteq {"lost", "dropped", "refused", "split"}
  BY DEF Check, Types
<1> QED
  BY <1>1, <1>2, <1>3 DEF Check, Types, rxVars

LEMMA PushTypes ==
  ASSUME Types, NEW t \in Replies, Push(t)
  PROVE  Types'
<1>1. SubSeq(todo[t], Fits(t) + 1, Len(todo[t])) \in Seq(Message)
  <2>1. todo[t] \in Seq(Message)
    BY DEF Types
  <2>2. Fits(t) \in 0 .. Len(todo[t]) /\ Len(todo[t]) \in Nat
    BY <2>1, PushAppends
  <2>3. \A i \in Fits(t) + 1 .. Len(todo[t]) : todo[t][i] \in Message
    BY <2>1, <2>2
  <2> QED
    BY <2>2, <2>3, SubSeqProperties
<1>2. todo' \in [Replies -> Seq(Message)]
  BY <1>1, PushAppends, ZenonT(40) DEF Types
<1>3. pc' \in [Replies -> {"new", "check", "lock", "done"}]
  BY DEF Push, Types
<1>4. mishaps' \subseteq {"lost", "dropped", "refused", "split"}
  BY DEF Push, Types
<1>5. count' \in 0 .. LsbMod - 1 /\ total' \in Nat
  <2>1. count + Fits(t) \in Int /\ total + Fits(t) \in Nat /\ Fits(t) \in Nat
    <3>1. Fits(t) \in 0 .. Len(todo[t]) /\ todo[t] \in Seq(Message)
      BY PushAppends DEF Types
    <3>2. Fits(t) \in Nat
      BY <3>1
    <3>3. count \in Int /\ total \in Nat
      BY CfgTransferAssumption DEF Types
    <3> QED
      BY <3>2, <3>3
  <2>2. (count + Fits(t)) % LsbMod \in 0 .. LsbMod - 1
    BY ONLY <2>1, CfgTransferAssumption, DivMod, Zenon
  <2> QED
    BY <2>1, <2>2, PushAppends
<1>6. flight' \in 0 .. Len(ring') /\ (ring' # <<>> => flight' > 0)
  <2>1. flight' = IF flight = 0 /\ Fits(t) > 0 THEN 1 ELSE flight
    BY DEF Push, Store, Fits
  <2>2. Fits(t) \in Nat /\ Len(ring') = Len(ring) + Fits(t) /\ Len(ring) \in Nat /\ ring' \in Seq(Packet)
    BY PushAppends DEF Types
  <2>3. flight \in 0 .. Len(ring) /\ (Len(ring) > 0 => flight > 0)
    BY DEF Types
  <2> QED
    BY <2>1, <2>2, <2>3
<1>7. UNCHANGED <<cfg, room, line, expect, last, acc, started, accepted>>
  BY DEF Push, rxVars
<1>8. ring' \in Seq(Packet) /\ Len(ring') <= room
  BY PushAppends DEF Types
<1> QED
  BY <1>2, <1>3, <1>4, <1>5, <1>6, <1>7, <1>8 DEF Types

LEMMA ReceiveTypes ==
  ASSUME Types, Receive
  PROVE  Types'
<1> DEFINE p == Head(line)
           m == p.msg
           body == (IF m.first THEN <<>> ELSE acc) \o m.body
<1>1. /\ p \in Packet /\ line' \in Seq(Packet)
  BY TailTakes DEF Receive, txVars
<1>2. m \in Message /\ p.lsb \in 0 .. LsbMod - 1 /\ p.no \in Nat
  BY <1>1 DEF Packet
<1>3. m.body \in Seq(Byte) /\ m.first \in BOOLEAN
  BY <1>2 DEF Message
<1>4. body \in Seq(Byte)
  <2>1. <<>> \in Seq(Byte) /\ acc \in Seq(Byte)
    BY DEF Types
  <2> QED
    BY <1>3, <2>1, ConcatProperties
<1>5. expect' \in 0 .. LsbMod - 1 /\ last' \in Nat
  <2>1. p.lsb + 1 \in Int
    BY <1>2
  <2>2. (p.lsb + 1) % LsbMod \in 0 .. LsbMod - 1
    BY ONLY <2>1, CfgTransferAssumption, DivMod, Zenon
  <2> QED
    BY <1>2, <2>2 DEF Receive, RecvPkt
<1>6. acc' \in Seq(Byte) /\ started' \in BOOLEAN /\ accepted' \in Seq(Seq(Byte))
  <2>1. GetChunk(m)
    BY DEF Receive
  <2>2. <<>> \in Seq(Byte) /\ started \in BOOLEAN /\ accepted \in Seq(Seq(Byte))
    BY DEF Types
  <2>3. CASE LastPkt(m) /\ (m.first \/ started)
    <3>1. accepted' = Append(accepted, body) /\ acc' = <<>> /\ started' = FALSE
      BY <2>1, <2>3 DEF GetChunk
    <3>2. Append(accepted, body) \in Seq(Seq(Byte))
      <4> HIDE DEF body
      <4> QED
        BY <1>4, <2>2, AppendProperties
    <3> QED
      BY <2>2, <3>1, <3>2
  <2>4. CASE ~(LastPkt(m) /\ (m.first \/ started))
    <3>1. acc' = body /\ started' = (m.first \/ started) /\ accepted' = accepted
      BY <2>1, <2>4 DEF GetChunk
    <3> QED
      BY <1>3, <1>4, <2>2, <3>1
  <2> QED
    BY <2>3, <2>4
<1>7. UNCHANGED <<cfg, todo, pc, room, ring, flight, count, total, mishaps>>
  BY DEF Receive, txVars
<1> QED
  BY <1>1, <1>5, <1>6, <1>7 DEF Types

LEMMA NextTypes == ASSUME Types, [Next]_vars PROVE Types'
<1>1. CASE \E t \in Replies, n \in Lens : Send(t, n)
  BY <1>1, SendTypes
<1>2. CASE \E t \in Replies : Check(t)
  BY <1>2, CheckTypes
<1>3. CASE \E t \in Replies : Push(t)
  BY <1>3, PushTypes
<1>4. CASE Complete
  <2>1. UNCHANGED <<cfg, todo, pc, room, count, total, mishaps, rxVars>>
    BY <1>4 DEF Complete
  <2>2. Len(ring') <= room
    <3>1. Len(ring') \in Nat /\ Len(ring') <= Len(ring)
      BY <1>4, CompleteKeeps
    <3> QED
      BY <3>1 DEF Types
  <2> QED
    BY <1>4, <2>1, <2>2, CompleteKeeps DEF Types, rxVars
<1>5. CASE DropUnsent
  <2>1. UNCHANGED <<cfg, todo, pc, room, flight, count, total, line, rxVars>>
    BY <1>5 DEF DropUnsent
  <2>2. mishaps' \subseteq {"lost", "dropped", "refused", "split"}
    BY <1>5 DEF DropUnsent, Types
  <2>3. ring' \in Seq(Packet) /\ Len(ring') = flight
    BY <1>5, DropCuts
  <2>4. flight \in Nat /\ flight <= room /\ (ring' # <<>> => flight > 0)
    BY <2>3 DEF Types
  <2> QED
    BY <2>1, <2>2, <2>3, <2>4 DEF Types, rxVars
<1>6. CASE Lose
  <2>1. UNCHANGED <<txVars, rxVars>>
    BY <1>6 DEF Lose
  <2>2. line' \in Seq(Packet)
    BY <1>6, TailTakes DEF Lose, txVars
  <2>3. mishaps' \subseteq {"lost", "dropped", "refused", "split"}
    BY <1>6 DEF Lose, Types
  <2> QED
    BY <2>1, <2>2, <2>3 DEF Types, txVars, rxVars
<1>7. CASE Receive
  BY <1>7, ReceiveTypes
<1>8. CASE UNCHANGED vars
  BY <1>8 DEF Types, vars, txVars, rxVars
<1> QED
  BY <1>1, <1>2, <1>3, <1>4, <1>5, <1>6, <1>7, <1>8 DEF Next
-----------------------------------------------------------------------------
(* The numbers of the packets.                                             *)
LEMMA InitNumbered == Init => Numbered
<1> SUFFICES ASSUME Init PROVE Numbered
  OBVIOUS
<1>1. Sent = <<>> /\ Len(Sent) = 0
  BY DEF Init, Sent
<1>2. 0 % LsbMod = 0
  BY CfgTransferAssumption
<1> QED
  BY <1>1, <1>2 DEF Numbered, Init

(* A new packet has the number after the last one, on the wire too. *)
LEMMA PushNumbered ==
  ASSUME Types, Numbered, NEW t \in Replies, Push(t)
  PROVE  Numbered'
<1> DEFINE k == Fits(t)
           n == Len(Sent)
<1>1. k \in Nat /\ n \in Nat /\ total \in Nat /\ last \in Nat /\ LsbMod \in Nat \ {0}
  <2>1. Fits(t) \in 0 .. Len(todo[t]) /\ todo[t] \in Seq(Message)
    BY PushAppends DEF Types
  <2> QED
    BY <2>1, SentIs, CfgTransferAssumption DEF Types
<1>2. /\ Len(Sent') = n + k /\ total' = total + k
      /\ \A i \in 1 .. n + k : Sent'[i] = IF i <= n THEN Sent[i] ELSE Pushed(t)[i - n]
  BY PushAppends
<1>3. count' = total' % LsbMod
  <2>1. count = total % LsbMod /\ count' = (count + k) % LsbMod
    BY PushAppends DEF Numbered
  <2> HIDE DEF k
  <2> QED
    BY <1>1, <1>2, <2>1, ModAdd
<1>4. ASSUME NEW i \in n + 1 .. n + k
      PROVE  Sent'[i].no = total + (i - n) /\ Sent'[i].lsb = (Sent'[i].no - 1) % LsbMod
  <2> DEFINE j == i - n
  <2>1. j \in 1 .. k /\ ~(i <= n) /\ i \in 1 .. n + k
    BY <1>1
  <2>2. Sent'[i] = Pushed(t)[j]
    BY <1>2, <2>1
  <2>3. Pushed(t)[j].lsb = (count + j - 1) % LsbMod /\ Pushed(t)[j].no = total + j
    BY <2>1 DEF Pushed
  <2> HIDE DEF j
  <2>4. j - 1 \in Nat /\ j \in Nat
    BY <1>1, <2>1
  <2>5. ((total % LsbMod) + (j - 1)) % LsbMod = (total + (j - 1)) % LsbMod
    BY ONLY <1>1, <2>4, ModAdd
  <2>6. count = total % LsbMod /\ count \in Int
    BY <1>1 DEF Numbered
  <2>7. (total % LsbMod) + (j - 1) = count + j - 1 /\ total + (j - 1) = total + j - 1
    BY <1>1, <2>4, <2>6
  <2>8. Sent'[i].lsb = (count + j - 1) % LsbMod /\ Sent'[i].no = total + j
    BY <2>2, <2>3
  <2>9. (count + j - 1) % LsbMod = (total + j - 1) % LsbMod
    BY <2>5, <2>7
  <2>10. Sent'[i].lsb = (Sent'[i].no - 1) % LsbMod
    <3> DEFINE x == total + j
               y == count + j - 1
    <3>1. x - 1 = total + j - 1
      BY <1>1, <2>4
    <3>2. y % LsbMod = (x - 1) % LsbMod
      BY <2>9, <3>1
    <3> HIDE DEF x, y
    <3>3. Sent'[i].no = x /\ Sent'[i].lsb = y % LsbMod
      BY <2>8 DEF x, y
    <3> QED
      BY <3>2, <3>3
  <2> QED
    BY <2>8, <2>10 DEF j
<1>5. ASSUME NEW i \in 1 .. n + k
      PROVE  /\ Sent'[i].no \in last + 1 .. total + k
             /\ Sent'[i].lsb = (Sent'[i].no - 1) % LsbMod
  <2>1. CASE i <= n
    <3>1. Sent'[i] = Sent[i] /\ i \in 1 .. n
      BY <1>1, <1>2, <2>1
    <3>2. Sent[i].no \in last + 1 .. total /\ Sent[i].lsb = (Sent[i].no - 1) % LsbMod
      BY <3>1 DEF Numbered
    <3> QED
      BY <1>1, <3>1, <3>2
  <2>2. CASE i > n
    <3>1. i \in n + 1 .. n + k
      BY <1>1, <2>2
    <3>2. last <= total
      BY DEF Numbered
    <3> QED
      BY <1>1, <1>4, <3>1, <3>2
  <2> QED
    BY <1>1, <2>1, <2>2
<1>6. ASSUME NEW i \in 1 .. n + k, NEW j \in 1 .. n + k, i < j
      PROVE  Sent'[i].no < Sent'[j].no
  <2>1. CASE j <= n
    <3>1. Sent'[i] = Sent[i] /\ Sent'[j] = Sent[j] /\ i \in 1 .. n /\ j \in 1 .. n
      BY <1>1, <1>2, <1>6, <2>1
    <3> QED
      BY <1>6, <3>1 DEF Numbered
  <2>2. CASE i <= n /\ j > n
    <3>1. Sent'[i] = Sent[i] /\ i \in 1 .. n /\ j \in n + 1 .. n + k
      BY <1>1, <1>2, <2>2
    <3>2. Sent[i].no \in last + 1 .. total
      BY <3>1 DEF Numbered
    <3> QED
      BY <1>1, <1>4, <3>1, <3>2
  <2>3. CASE i > n
    <3>1. i \in n + 1 .. n + k /\ j \in n + 1 .. n + k
      BY <1>1, <1>6, <2>3
    <3> QED
      BY <1>1, <1>4, <1>6, <3>1
  <2> QED
    BY <1>1, <2>1, <2>2, <2>3
<1>7. UNCHANGED <<expect, last, missing, comment>> /\ last <= total'
  <2>1. last <= total
    BY DEF Numbered
  <2> QED
    BY <1>1, <1>2, <2>1 DEF Push, rxVars
<1> QED
  BY <1>2, <1>3, <1>5, <1>6, <1>7 DEF Numbered

(* The oldest packet comes: it has the expected number exactly if none is  *)
(* missing, unless so many are that the numbers have wrapped.              *)
LEMMA ReceiveNumbered ==
  ASSUME Types, Numbered, Receive
  PROVE  Numbered'
<1> DEFINE p == Head(line)
           n == Len(Sent)
<1>1. /\ p = Sent[1] /\ n \in Nat \ {0} /\ Len(Sent') = n - 1
      /\ \A i \in 1 .. n - 1 : Sent'[i] = Sent[i + 1]
  BY TailTakes DEF Receive, txVars
<1>2. total \in Nat /\ last \in Nat /\ last <= total /\ LsbMod \in Nat \ {0}
  BY CfgTransferAssumption DEF Types, Numbered
<1>3. p.no \in last + 1 .. total /\ p.lsb = (p.no - 1) % LsbMod
  BY <1>1 DEF Numbered
<1>4. /\ comment' = (IF p.lsb # expect THEN "PacketLost" ELSE "Normal")
      /\ expect' = (p.lsb + 1) % LsbMod /\ missing' = p.no - last - 1 /\ last' = p.no
      /\ total' = total /\ count' = count
  BY DEF Receive, RecvPkt, txVars
<1>5. expect' = last' % LsbMod
  <2> DEFINE a == p.no - 1
  <2>1. a \in Nat /\ a + 1 = p.no
    BY <1>2, <1>3
  <2> HIDE DEF a
  <2>2. ((a % LsbMod) + 1) % LsbMod = (a + 1) % LsbMod
    BY ONLY <1>2, <2>1, 1 \in Nat, ModAdd
  <2> QED
    BY <1>3, <1>4, <2>1, <2>2 DEF a
<1>6. missing' \in Nat /\ last' <= total' /\ count' = total' % LsbMod
  <2>1. count = total % LsbMod
    BY DEF Numbered
  <2> QED
    BY <1>2, <1>3, <1>4, <2>1
<1>7. missing' < LsbMod => (comment' = "PacketLost" <=> missing' > 0)
  <2> SUFFICES ASSUME missing' < LsbMod PROVE comment' = "PacketLost" <=> missing' > 0
    OBVIOUS
  <2> DEFINE b == p.no - 1
  <2>1. b \in Nat /\ last <= b /\ b - last < LsbMod /\ missing' = b - last
    BY <1>2, <1>3, <1>4
  <2>2. comment' = "PacketLost" <=> b % LsbMod # last % LsbMod
    BY <1>3, <1>4 DEF Numbered
  <2> HIDE DEF b
  <2>3. last % LsbMod = b % LsbMod => last = b
    BY <1>2, <2>1, ModDiffer
  <2> QED
    BY <1>2, <2>1, <2>2, <2>3
<1>8. ASSUME NEW i \in 1 .. n - 1
      PROVE  /\ Sent'[i].no \in last' + 1 .. total'
             /\ Sent'[i].lsb = (Sent'[i].no - 1) % LsbMod
  <2>1. i + 1 \in 1 .. n /\ 1 \in 1 .. n /\ 1 < i + 1
    BY <1>1
  <2>2. Sent[i + 1].no \in last + 1 .. total /\ Sent[i + 1].lsb = (Sent[i + 1].no - 1) % LsbMod
    BY <2>1 DEF Numbered
  <2>3. Sent[1].no < Sent[i + 1].no
    BY <2>1 DEF Numbered
  <2>4. Sent'[i] = Sent[i + 1] /\ last' = Sent[1].no /\ total' = total
    BY <1>1, <1>4
  <2>5. Sent[1].no \in Nat
    BY <1>1, <1>2, <1>3
  <2>6. Sent[i + 1].no \in Sent[1].no + 1 .. total
    BY <1>2, <2>2, <2>3, <2>5
  <2> QED
    BY <2>2, <2>4, <2>6
<1>9. ASSUME NEW i \in 1 .. n - 1, NEW j \in 1 .. n - 1, i < j
      PROVE  Sent'[i].no < Sent'[j].no
  <2>1. i + 1 \in 1 .. n /\ j + 1 \in 1 .. n /\ i + 1 < j + 1
    BY <1>1, <1>9
  <2>2. Sent[i + 1].no < Sent[j + 1].no
    BY <2>1 DEF Numbered
  <2> QED
    BY <1>1, <2>2
<1>10. comment' \in {"Normal", "PacketLost"}
  BY <1>4
<1> QED
  BY <1>1, <1>5, <1>6, <1>7, <1>8, <1>9, <1>10 DEF Numbered

(* The other actions keep the numbers of the packets that remain. *)
LEMMA RestNumbered ==
  ASSUME Types, Numbered, UNCHANGED <<count, total, rxVars>>,
         NEW d \in Nat, Len(Sent') \in Nat, Len(Sent') + d <= Len(Sent),
         \A i \in 1 .. Len(Sent') : Sent'[i] = Sent[i + d]
  PROVE  Numbered'
<1>1. Len(Sent) \in Nat
  BY SentIs
<1>2. UNCHANGED <<count, total, expect, last, missing, comment>>
  BY DEF rxVars
<1>3. ASSUME NEW i \in 1 .. Len(Sent')
      PROVE  Sent'[i].no \in last + 1 .. total /\ Sent'[i].lsb = (Sent'[i].no - 1) % LsbMod
  <2>1. i + d \in 1 .. Len(Sent)
    BY <1>1
  <2> QED
    BY <2>1 DEF Numbered
<1>4. ASSUME NEW i \in 1 .. Len(Sent'), NEW j \in 1 .. Len(Sent'), i < j
      PROVE  Sent'[i].no < Sent'[j].no
  <2>1. i + d \in 1 .. Len(Sent) /\ j + d \in 1 .. Len(Sent) /\ i + d < j + d
    BY <1>1, <1>4
  <2>2. Sent[i + d].no < Sent[j + d].no
    BY <2>1 DEF Numbered
  <2> QED
    BY <2>2
<1> QED
  BY <1>2, <1>3, <1>4 DEF Numbered

LEMMA NextNumbered == ASSUME Types, Numbered, [Next]_vars PROVE Numbered'
<1>1. Len(Sent) \in Nat /\ \A i \in 1 .. Len(Sent) : i + 0 = i
  BY SentIs
<1>2. ASSUME Sent' = Sent, UNCHANGED <<count, total, rxVars>> PROVE Numbered'
  BY <1>1, <1>2, RestNumbered, 0 \in Nat
<1>3. CASE \E t \in Replies, n \in Lens : Send(t, n)
  BY <1>2, <1>3 DEF Send, Sent
<1>4. CASE \E t \in Replies : Check(t)
  BY <1>2, <1>4 DEF Check, Sent
<1>5. CASE \E t \in Replies : Push(t)
  BY <1>5, PushNumbered
<1>6. CASE Complete
  <2>1. UNCHANGED <<count, total, rxVars>>
    BY <1>6 DEF Complete
  <2> QED
    BY <1>2, <1>6, <2>1, CompleteKeeps
<1>7. CASE DropUnsent
  <2>1. UNCHANGED <<count, total, rxVars>>
    BY <1>7 DEF DropUnsent
  <2>2. Len(Sent') \in Nat /\ Len(Sent') + 0 <= Len(Sent)
    BY <1>1, <1>7, DropCuts
  <2>3. \A i \in 1 .. Len(Sent') : Sent'[i] = Sent[i + 0]
    BY <1>7, DropCuts
  <2> QED
    BY <2>1, <2>2, <2>3, RestNumbered, 0 \in Nat
<1>8. CASE Lose
  <2>1. UNCHANGED <<count, total, rxVars>>
    BY <1>8 DEF Lose, txVars
  <2>2. /\ Len(Sent') = Len(Sent) - 1 /\ Len(Sent) \in Nat \ {0}
        /\ \A i \in 1 .. Len(Sent') : Sent'[i] = Sent[i + 1]
    BY <1>8, TailTakes DEF Lose, txVars
  <2>3. Len(Sent') \in Nat /\ Len(Sent') + 1 <= Len(Sent)
    BY <2>2
  <2> QED
    BY <2>1, <2>2, <2>3, RestNumbered, 1 \in Nat
<1>9. CASE Receive
  BY <1>9, ReceiveNumbered
<1>10. CASE UNCHANGED vars
  BY <1>2, <1>10 DEF vars, txVars, Sent
<1> QED
  BY <1>3, <1>4, <1>5, <1>6, <1>7, <1>8, <1>9, <1>10 DEF Next
-----------------------------------------------------------------------------
(* The order of the bytes.                                                 *)
LEMMA InitOrder == Init => InOrder
<1> SUFFICES ASSUME Init PROVE InOrder
  OBVIOUS
<1>1. Len(Sent) = 0 /\ acc = <<>> /\ started = FALSE /\ accepted = <<>>
  BY DEF Init, Sent
<1>2. \A t \in Replies : todo[t] = <<>> /\ cfg[t] = <<>>
  BY DEF Init
<1> QED
  BY <1>1, <1>2 DEF InOrder, Sorted, Begun

(* Two byte strings one after the other. *)
LEMMA Joined ==
  ASSUME NEW r \in Seq(Byte), NEW s \in Seq(Byte)
  PROVE  /\ Len(r \o s) = Len(r) + Len(s) /\ Len(r) \in Nat /\ Len(s) \in Nat
         /\ \A i \in 1 .. Len(r \o s) :
              \/ i \in 1 .. Len(r) /\ (r \o s)[i] = r[i]
              \/ i - Len(r) \in 1 .. Len(s) /\ (r \o s)[i] = s[i - Len(r)] /\ i > Len(r)
<1>1. /\ Len(r \o s) = Len(r) + Len(s)
      /\ \A i \in 1 .. Len(r) + Len(s) : (r \o s)[i] = IF i <= Len(r) THEN r[i] ELSE s[i - Len(r)]
  BY ConcatProperties
<1>2. Len(r) \in Nat /\ Len(s) \in Nat
  OBVIOUS
<1> QED
  BY <1>1, <1>2

LEMMA JoinSorted ==
  ASSUME NEW r \in Seq(Byte), NEW s \in Seq(Byte), Sorted(r), Sorted(s), Precedes(r, s)
  PROVE  Sorted(r \o s)
<1> DEFINE u == r \o s
<1> SUFFICES ASSUME NEW j \in 1 .. Len(u), NEW k \in 1 .. Len(u), j < k, u[j][1] = u[k][1]
             PROVE  u[j][2] < u[k][2]
  BY DEF Sorted
<1> HIDE DEF u
<1>0. /\ Len(r) \in Nat /\ Len(s) \in Nat /\ Len(u) = Len(r) + Len(s)
      /\ \A i \in 1 .. Len(u) :
           \/ i \in 1 .. Len(r) /\ u[i] = r[i]
           \/ i - Len(r) \in 1 .. Len(s) /\ u[i] = s[i - Len(r)] /\ i > Len(r)
  BY Joined DEF u
<1>1. CASE k \in 1 .. Len(r) /\ u[k] = r[k]
  <2>1. j \in 1 .. Len(r) /\ u[j] = r[j]
    BY <1>0, <1>1
  <2> QED
    BY <1>1, <2>1 DEF Sorted
<1>2. CASE k - Len(r) \in 1 .. Len(s) /\ u[k] = s[k - Len(r)] /\ j \in 1 .. Len(r) /\ u[j] = r[j]
  BY <1>2 DEF Precedes
<1>3. CASE /\ k - Len(r) \in 1 .. Len(s) /\ u[k] = s[k - Len(r)]
           /\ j - Len(r) \in 1 .. Len(s) /\ u[j] = s[j - Len(r)]
  <2>1. j - Len(r) < k - Len(r)
    BY <1>0
  <2> QED
    BY <1>3, <2>1 DEF Sorted
<1> QED
  BY <1>0, <1>1, <1>2, <1>3

LEMMA JoinPrecedes ==
  ASSUME NEW r \in Seq(Byte), NEW s \in Seq(Byte), NEW v, Precedes(r, v), Precedes(s, v)
  PROVE  Precedes(r \o s, v)
<1> DEFINE u == r \o s
<1> SUFFICES ASSUME NEW j \in 1 .. Len(u), NEW k \in 1 .. Len(v), u[j][1] = v[k][1]
             PROVE  u[j][2] < v[k][2]
  BY DEF Precedes
<1>1. \/ j \in 1 .. Len(r) /\ u[j] = r[j]
      \/ j - Len(r) \in 1 .. Len(s) /\ u[j] = s[j - Len(r)]
  BY Joined
<1> HIDE DEF u
<1> QED
  BY <1>1 DEF Precedes

LEMMA JoinBegun ==
  ASSUME NEW r \in Seq(Byte), NEW s \in Seq(Byte), NEW p, Begun(p, r), Begun(p, s)
  PROVE  Begun(p, r \o s)
<1> DEFINE u == r \o s
<1> SUFFICES ASSUME NEW j \in 1 .. Len(u)
             PROVE  p[u[j][1]] # "new"
  BY DEF Begun
<1>1. \/ j \in 1 .. Len(r) /\ u[j] = r[j]
      \/ j - Len(r) \in 1 .. Len(s) /\ u[j] = s[j - Len(r)]
  BY Joined
<1> HIDE DEF u
<1> QED
  BY <1>1 DEF Begun

LEMMA JoinOpens ==
  ASSUME NEW r \in Seq(Byte), NEW s \in Seq(Byte), Opens(r)
  PROVE  Opens(r \o s)
<1>1. Len(r) \in Nat \ {0}
  BY DEF Opens
<1>2. Len(r \o s) = Len(r) + Len(s) /\ 1 \in 1 .. Len(r) + Len(s) /\ (r \o s)[1] = r[1]
  BY <1>1, ConcatProperties
<1>3. r \o s # <<>>
  BY <1>1, <1>2
<1> QED
  BY <1>2, <1>3 DEF Opens
(* The messages of a reply are in the order of its bytes. *)
LEMMA MessagesOrdered ==
  ASSUME NEW t \in Replies, NEW n \in Nat, NEW k \in 1 .. Pieces(n)
  PROVE  LET ms == Messages(Content(t, n)) IN
         /\ Sorted(ms[k].body) /\ BelongsTo(t, ms[k].body)
         /\ ms[k].first => Opens(ms[k].body)
         /\ \A l \in 1 .. Pieces(n) : k < l => Precedes(ms[k].body, ms[l].body)
<1> USE CfgTransferAssumption
<1> DEFINE ms == Messages(Content(t, n))
           s == Piece(t, n, k)
           a == (k - 1) * Mts
<1>1. /\ ms[k].body = s /\ (ms[k].first => k = 1)
      /\ \A l \in 1 .. Pieces(n) : ms[l].body = Piece(t, n, l)
  <2>1. \A l \in 1 .. Pieces(n) : ms[l] = [first |-> l = 1, body |-> Piece(t, n, l)]
    BY MessagesAre
  <2> HIDE DEF ms
  <2>2. ms[k] = [first |-> k = 1, body |-> s]
    BY <2>1
  <2>3. ms[k].first => k = 1
    <3> HIDE DEF s
    <3>1. CASE k = 1
      BY <3>1
    <3>2. CASE k # 1
      <4>1. (k = 1) = FALSE
        BY <3>2
      <4>2. ms[k] = [first |-> FALSE, body |-> s]
        BY <2>2, <4>1
      <4>3. ms[k].first = FALSE
        BY <4>2
      <4> QED
        BY <4>3
    <3> QED
      BY <3>1, <3>2
  <2>4. ASSUME NEW l \in 1 .. Pieces(n) PROVE ms[l].body = Piece(t, n, l)
    <3>1. ms[l] = [first |-> l = 1, body |-> Piece(t, n, l)]
      BY <2>1
    <3> QED
      BY <3>1
  <2> QED
    BY <2>3, <2>4
<1>2. /\ a \in Nat /\ s \in Seq(Byte) /\ Len(s) = Bound(n, k) - a /\ Bound(n, k) \in Nat
      /\ \A i \in 1 .. Len(s) : s[i] = <<t, a + i>>
  BY PieceShape, SMTT(30)
<1>3. Len(s) <= Mts
  <2>1. Pieces(n) \in Nat
    BY PiecesFit
  <2>2. CASE k < Pieces(n)
    <3>1. Bound(n, k) = a + Mts
      BY <2>2, PieceShape
    <3> HIDE DEF a, s
    <3> QED
      BY <1>2, <3>1
  <2>3. CASE k = Pieces(n)
    <3>1. Len(s) < Mts
      BY <2>3, PieceShape
    <3> HIDE DEF a, s
    <3> QED
      BY <1>2, <3>1
  <2> QED
    BY <2>1, <2>2, <2>3
<1>4. Sorted(s)
  <2> HIDE DEF a, s
  <2> QED
    BY <1>2 DEF Sorted
<1>5. BelongsTo(t, s)
  <2> HIDE DEF a, s
  <2> QED
    BY <1>2 DEF BelongsTo
<1>6. k = 1 => Opens(s)
  <2> SUFFICES ASSUME k = 1 PROVE Opens(s)
    OBVIOUS
  <2>1. a = 0
    OBVIOUS
  <2>2. Bound(n, k) > 0
    BY PiecesFit DEF Bound, Pieces
  <2> HIDE DEF a, s
  <2>3. Len(s) \in Nat \ {0} /\ s[1] = <<t, 1>>
    BY <1>2, <2>1, <2>2
  <2> QED
    BY <2>3 DEF Opens
<1>7. ASSUME NEW l \in 1 .. Pieces(n), k < l
      PROVE  Precedes(s, Piece(t, n, l))
  <2> DEFINE b == (l - 1) * Mts
             r == Piece(t, n, l)
  <2>1. /\ b \in Nat /\ r \in Seq(Byte)
        /\ \A i \in 1 .. Len(r) : r[i] = <<t, b + i>>
    BY PieceShape
  <2>2. a + Mts <= b
    <3>1. k \in Int /\ l \in Int /\ k <= l - 1 /\ Mts \in Nat
      BY <1>7
    <3>2. k * Mts = (k - 1) * Mts + Mts
      BY ONLY <3>1
    <3>3. k * Mts <= (l - 1) * Mts
      BY ONLY <3>1
    <3> QED
      BY <3>2, <3>3
  <2> HIDE DEF a, s, b, r
  <2>3. ASSUME NEW i \in 1 .. Len(s), NEW j \in 1 .. Len(r)
        PROVE  s[i][2] < r[j][2]
    <3>1. s[i][2] = a + i /\ r[j][2] = b + j
      BY <1>2, <2>1
    <3>2. Len(s) \in Nat /\ Len(r) \in Nat
      BY <1>2, <2>1
    <3> QED
      BY <1>2, <1>3, <2>1, <2>2, <3>1, <3>2
  <2> QED
    BY <2>3 DEF Precedes, r
<1> QED
  BY <1>1, <1>4, <1>5, <1>6, <1>7
(* A reply that has begun has begun for good. *)
LEMMA BegunStays ==
  ASSUME Types, [Next]_vars, NEW s \in Seq(Byte), Begun(pc, s)
  PROVE  Begun(pc', s)
<1>1. ASSUME NEW t \in Replies, pc[t] # "new" PROVE pc'[t] # "new"
  BY <1>1 DEF Types, Next, Send, Check, Push, Complete, DropUnsent, Lose, Receive, vars, txVars
<1>2. ASSUME NEW j \in 1 .. Len(s) PROVE s[j][1] \in Replies
  BY DEF Byte
<1> QED
  BY <1>1, <1>2 DEF Begun

LEMMA BodyTyped ==
  ASSUME Types
  PROVE  /\ \A i \in 1 .. Len(Sent) : Sent[i].msg \in Message /\ Sent[i].msg.body \in Seq(Byte)
         /\ \A t \in Replies : \A k \in 1 .. Len(todo[t]) :
              todo[t][k] \in Message /\ todo[t][k].body \in Seq(Byte)
         /\ \A t \in Replies : todo[t] \in Seq(Message) /\ Len(todo[t]) \in Nat
<1>1. ASSUME NEW i \in 1 .. Len(Sent) PROVE Sent[i].msg \in Message /\ Sent[i].msg.body \in Seq(Byte)
  <2>1. Sent[i] \in Packet
    BY SentIs
  <2> QED
    BY <2>1 DEF Packet, Message
<1>2. ASSUME NEW t \in Replies
      PROVE  /\ todo[t] \in Seq(Message) /\ Len(todo[t]) \in Nat
             /\ \A k \in 1 .. Len(todo[t]) : todo[t][k] \in Message /\ todo[t][k].body \in Seq(Byte)
  <2>1. todo[t] \in Seq(Message)
    BY DEF Types
  <2>2. Len(todo[t]) \in Nat
    BY <2>1
  <2>3. ASSUME NEW k \in 1 .. Len(todo[t])
        PROVE  todo[t][k] \in Message /\ todo[t][k].body \in Seq(Byte)
    <3>1. todo[t][k] \in Message
      BY <2>1, ElementOfSeq
    <3> QED
      BY <3>1 DEF Message
  <2> QED
    BY <2>1, <2>2, <2>3
<1> QED
  BY <1>1, <1>2

LEMMA SendOrder ==
  ASSUME Types, InOrder, NEW t \in Replies, NEW n \in Lens, Send(t, n)
  PROVE  InOrder'
<1> DEFINE ms == Messages(Content(t, n))
<1>1. n \in Nat
  BY CfgTransferAssumption
<1>2. /\ UNCHANGED <<acc, started, accepted>> /\ Sent' = Sent
      /\ todo' = [todo EXCEPT ![t] = ms] /\ cfg' = [cfg EXCEPT ![t] = Content(t, n)]
      /\ pc[t] = "new" /\ pc'[t] # "new" /\ \A x \in Replies \ {t} : pc'[x] = pc[x]
  BY DEF Send, rxVars, Sent, Types
<1>3. /\ ms \in Seq(Message) /\ Len(ms) = Pieces(n)
      /\ \A k \in 1 .. Len(ms) :
           /\ Sorted(ms[k].body) /\ BelongsTo(t, ms[k].body)
           /\ ms[k].first => Opens(ms[k].body)
           /\ \A l \in 1 .. Len(ms) : k < l => Precedes(ms[k].body, ms[l].body)
  BY <1>1, MessagesAre, MessagesOrdered
<1> HIDE DEF ms
<1>4. /\ todo'[t] = ms /\ \A x \in Replies \ {t} : todo'[x] = todo[x] /\ cfg'[x] = cfg[x]
  BY <1>2 DEF Types
<1>5. [Next]_vars
  BY DEF Next
<1>6. ASSUME NEW s \in Seq(Byte), Begun(pc, s), NEW r, BelongsTo(t, r) PROVE Precedes(s, r)
  <2>1. ASSUME NEW j \in 1 .. Len(s), NEW k \in 1 .. Len(r), s[j][1] = r[k][1] PROVE FALSE
    BY <1>2, <1>6, <2>1 DEF Begun, BelongsTo
  <2> QED
    BY <2>1 DEF Precedes
<1>7. acc \in Seq(Byte) /\ Begun(pc, acc) /\ Begun(pc', acc)
  <2>1. acc \in Seq(Byte) /\ Begun(pc, acc)
    BY DEF Types, InOrder
  <2> QED
    BY <1>5, <2>1, BegunStays
<1>8. ASSUME NEW i \in 1 .. Len(Sent)
      PROVE  /\ Follows(acc, Sent[i].msg) /\ Begun(pc', Sent[i].msg.body)
             /\ Begun(pc, Sent[i].msg.body) /\ Sent[i].msg.body \in Seq(Byte)
  <2>1. Sent[i].msg.body \in Seq(Byte)
    BY BodyTyped
  <2>2. Follows(acc, Sent[i].msg) /\ Begun(pc, Sent[i].msg.body)
    BY DEF InOrder
  <2>3. Begun(pc', Sent[i].msg.body)
    BY <1>5, <2>1, <2>2, BegunStays
  <2> QED
    BY <2>1, <2>2, <2>3
<1>9. ASSUME NEW x \in Replies, pc'[x] = "new" PROVE todo'[x] = <<>> /\ cfg'[x] = <<>>
  BY <1>2, <1>4, <1>9 DEF InOrder
<1>10. ASSUME NEW x \in Replies, NEW k \in 1 .. Len(todo'[x])
       PROVE  /\ Follows(acc, todo'[x][k]) /\ BelongsTo(x, todo'[x][k].body)
              /\ \A i \in 1 .. Len(Sent) : Precedes(Sent[i].msg.body, todo'[x][k].body)
              /\ \A l \in 1 .. Len(todo'[x]) : k < l => Precedes(todo'[x][k].body, todo'[x][l].body)
  <2>1. CASE x = t
    <3>1. todo'[x] = ms /\ k \in 1 .. Len(ms)
      BY <1>4, <2>1
    <3>2. Follows(acc, ms[k])
      BY <1>3, <1>6, <1>7, <3>1 DEF Follows
    <3>3. ASSUME NEW i \in 1 .. Len(Sent) PROVE Precedes(Sent[i].msg.body, ms[k].body)
      BY <1>3, <1>6, <1>8, <3>1
    <3> QED
      BY <1>3, <2>1, <3>1, <3>2, <3>3
  <2>2. CASE x # t
    <3>1. todo'[x] = todo[x]
      BY <1>4, <2>2
    <3> QED
      BY <3>1 DEF InOrder
  <2> QED
    BY <2>1, <2>2
<1>11. /\ Sorted(acc) /\ (started => Opens(acc))
       /\ \A i, j \in 1 .. Len(Sent) : i < j => Precedes(Sent[i].msg.body, Sent[j].msg.body)
       /\ \A i \in 1 .. Len(accepted) : Sorted(accepted[i]) /\ Opens(accepted[i])
  BY DEF InOrder
<1> QED
  BY <1>2, <1>7, <1>8, <1>9, <1>10, <1>11 DEF InOrder
(* Packets leave at either end, a thread gives up. *)
LEMMA RestOrder ==
  ASSUME Types, InOrder, [Next]_vars, UNCHANGED <<cfg, acc, started, accepted>>,
         NEW d \in Nat, Len(Sent') \in Nat, Len(Sent') + d <= Len(Sent),
         \A i \in 1 .. Len(Sent') : Sent'[i] = Sent[i + d],
         \A t \in Replies : /\ todo'[t] = todo[t] \/ todo'[t] = <<>>
                            /\ pc'[t] = "new" => pc[t] = "new"
  PROVE  InOrder'
<1>1. Len(Sent) \in Nat /\ \A i \in 1 .. Len(Sent') : i + d \in 1 .. Len(Sent)
  BY SentIs
<1>2. Begun(pc', acc)
  <2>1. acc \in Seq(Byte) /\ Begun(pc, acc)
    BY DEF Types, InOrder
  <2> QED
    BY <2>1, BegunStays
<1>3. ASSUME NEW i \in 1 .. Len(Sent')
      PROVE  Follows(acc, Sent'[i].msg) /\ Begun(pc', Sent'[i].msg.body)
  <2>1. Sent'[i] = Sent[i + d] /\ i + d \in 1 .. Len(Sent)
    BY <1>1
  <2>2. Follows(acc, Sent[i + d].msg) /\ Begun(pc, Sent[i + d].msg.body)
    BY <2>1 DEF InOrder
  <2>3. Begun(pc', Sent[i + d].msg.body)
    BY <2>1, <2>2, BodyTyped, BegunStays
  <2> QED
    BY <2>1, <2>2, <2>3
<1>4. ASSUME NEW i \in 1 .. Len(Sent'), NEW j \in 1 .. Len(Sent'), i < j
      PROVE  Precedes(Sent'[i].msg.body, Sent'[j].msg.body)
  <2>1. i + d < j + d
    BY <1>4
  <2> QED
    BY <1>1, <2>1 DEF InOrder
<1>5. ASSUME NEW t \in Replies, pc'[t] = "new" PROVE todo'[t] = <<>> /\ cfg'[t] = <<>>
  BY <1>5 DEF InOrder
<1>6. ASSUME NEW t \in Replies, NEW k \in 1 .. Len(todo'[t])
      PROVE  /\ Follows(acc, todo'[t][k]) /\ BelongsTo(t, todo'[t][k].body)
             /\ \A i \in 1 .. Len(Sent') : Precedes(Sent'[i].msg.body, todo'[t][k].body)
             /\ \A l \in 1 .. Len(todo'[t]) : k < l => Precedes(todo'[t][k].body, todo'[t][l].body)
  <2>1. todo'[t] # <<>>
    BY <1>6
  <2>2. todo'[t] = todo[t]
    BY <2>1
  <2>3. ASSUME NEW i \in 1 .. Len(Sent') PROVE Precedes(Sent'[i].msg.body, todo[t][k].body)
    BY <1>1, <2>2 DEF InOrder
  <2> QED
    BY <2>2, <2>3 DEF InOrder
<1>7. /\ Sorted(acc) /\ (started => Opens(acc))
      /\ \A i \in 1 .. Len(accepted) : Sorted(accepted[i]) /\ Opens(accepted[i])
  BY DEF InOrder
<1> QED
  BY <1>2, <1>3, <1>4, <1>5, <1>6, <1>7 DEF InOrder

(* The messages that are pushed pass from the thread to the ring. *)
LEMMA PushOrder ==
  ASSUME Types, InOrder, NEW t \in Replies, Push(t)
  PROVE  InOrder'
<1> DEFINE k == Fits(t)
           n == Len(Sent)
           all == todo[t]
<1>1. /\ k \in 0 .. Len(all) /\ n \in Nat /\ Len(Sent') = n + k
      /\ \A i \in 1 .. n + k : Sent'[i] = IF i <= n THEN Sent[i] ELSE Pushed(t)[i - n]
      /\ todo' = [todo EXCEPT ![t] = SubSeq(all, k + 1, Len(all))]
  BY PushAppends, SentIs
<1>2. all \in Seq(Message) /\ Len(all) \in Nat
  BY BodyTyped
<1>3. /\ UNCHANGED <<cfg, acc, started, accepted>> /\ pc[t] = "lock"
      /\ pc' \in [Replies -> {"new", "check", "lock", "done"}]
      /\ \A x \in Replies : pc'[x] = "new" => pc[x] = "new"
  BY DEF Push, rxVars, Types
<1>4. [Next]_vars
  BY DEF Next
<1>5. ASSUME NEW i \in 1 .. n + k
      PROVE  \/ i \in 1 .. n /\ Sent'[i] = Sent[i]
             \/ i - n \in 1 .. k /\ Sent'[i].msg = all[i - n] /\ i > n
  <2>1. CASE i <= n
    BY <1>1, <2>1
  <2>2. CASE i > n
    <3> DEFINE j == i - n
    <3>1. j \in 1 .. k /\ Sent'[i] = Pushed(t)[j]
      BY <1>1, <2>2
    <3>2. Pushed(t)[j].msg = all[j]
      BY <3>1 DEF Pushed
    <3> QED
      BY <2>2, <3>1, <3>2
  <2> QED
    BY <1>1, <2>1, <2>2
<1>6. \A i \in 1 .. k : i \in 1 .. Len(all)
  BY <1>1, <1>2
<1>7. /\ \A x \in Replies \ {t} : todo'[x] = todo[x]
      /\ \A i \in 1 .. Len(todo'[t]) : todo'[t][i] = all[k + i] /\ k + i \in k + 1 .. Len(all)
  <2>1. todo'[t] = SubSeq(all, k + 1, Len(all))
    BY <1>1 DEF Types
  <2>2. \A i \in k + 1 .. Len(all) : all[i] \in Message
    BY <1>1, <1>2, ElementOfSeq
  <2>3. /\ Len(todo'[t]) = IF k + 1 <= Len(all) THEN Len(all) - (k + 1) + 1 ELSE 0
        /\ \A i \in 1 .. Len(all) - (k + 1) + 1 : todo'[t][i] = all[k + 1 + i - 1]
    BY <1>1, <1>2, <2>1, <2>2, SubSeqProperties, SMTT(30)
  <2>4. k + 1 \in Int /\ Len(all) \in Int /\ k \in Int
    BY <1>1, <1>2
  <2> HIDE DEF k, all
  <2>5. \A i \in 1 .. Len(todo'[t]) : i \in 1 .. Len(all) - (k + 1) + 1 /\ k + 1 + i - 1 = k + i
    BY <2>3, <2>4
  <2>6. \A i \in 1 .. Len(todo'[t]) : todo'[t][i] = all[k + i] /\ k + i \in k + 1 .. Len(all)
    BY <2>3, <2>4, <2>5
  <2> QED
    BY <1>1, <2>6 DEF Types, k, all
<1>8. Begun(pc', acc)
  <2>1. acc \in Seq(Byte) /\ Begun(pc, acc)
    BY DEF Types, InOrder
  <2> QED
    BY <1>4, <2>1, BegunStays
<1>9. ASSUME NEW i \in 1 .. Len(all)
      PROVE  /\ Follows(acc, all[i]) /\ BelongsTo(t, all[i].body)
             /\ \A j \in 1 .. n : Precedes(Sent[j].msg.body, all[i].body)
             /\ \A j \in 1 .. Len(all) : i < j => Precedes(all[i].body, all[j].body)
             /\ Begun(pc, all[i].body) /\ all[i].body \in Seq(Byte)
  <2>1. /\ Follows(acc, all[i]) /\ BelongsTo(t, all[i].body)
        /\ \A j \in 1 .. n : Precedes(Sent[j].msg.body, all[i].body)
        /\ \A j \in 1 .. Len(all) : i < j => Precedes(all[i].body, all[j].body)
    BY DEF InOrder
  <2>2. all[i].body \in Seq(Byte)
    BY BodyTyped
  <2>3. Begun(pc, all[i].body)
    BY <1>3, <2>1 DEF Begun, BelongsTo
  <2> QED
    BY <2>1, <2>2, <2>3
<1> HIDE DEF k, n, all
<1>10. ASSUME NEW i \in 1 .. n + k
       PROVE  Follows(acc, Sent'[i].msg) /\ Begun(pc', Sent'[i].msg.body)
  <2>1. CASE i \in 1 .. n /\ Sent'[i] = Sent[i]
    <3>1. /\ Follows(acc, Sent[i].msg) /\ Begun(pc, Sent[i].msg.body)
          /\ Sent[i].msg.body \in Seq(Byte)
      BY <2>1, BodyTyped DEF InOrder, n
    <3> QED
      BY <1>4, <2>1, <3>1, BegunStays
  <2>2. CASE i - n \in 1 .. k /\ Sent'[i].msg = all[i - n]
    BY <1>4, <1>6, <1>9, <2>2, BegunStays
  <2> QED
    BY <1>5, <2>1, <2>2
<1>11. ASSUME NEW i \in 1 .. n + k, NEW j \in 1 .. n + k, i < j
       PROVE  Precedes(Sent'[i].msg.body, Sent'[j].msg.body)
  <2>1. CASE j \in 1 .. n /\ Sent'[j] = Sent[j]
    <3>1. i \in 1 .. n /\ Sent'[i] = Sent[i]
      BY <1>1, <1>5, <1>11, <2>1
    <3> QED
      BY <1>11, <2>1, <3>1 DEF InOrder, n
  <2>2. CASE i \in 1 .. n /\ Sent'[i] = Sent[i] /\ j - n \in 1 .. k /\ Sent'[j].msg = all[j - n]
    BY <1>6, <1>9, <2>2
  <2>3. CASE /\ i - n \in 1 .. k /\ Sent'[i].msg = all[i - n]
             /\ j - n \in 1 .. k /\ Sent'[j].msg = all[j - n]
    <3>1. i - n < j - n
      BY <1>1, <1>11
    <3> QED
      BY <1>6, <1>9, <2>3, <3>1
  <2> QED
    BY <1>5, <2>1, <2>2, <2>3
<1>12. ASSUME NEW x \in Replies, pc'[x] = "new" PROVE todo'[x] = <<>> /\ cfg'[x] = <<>>
  <2>1. pc[x] = "new" /\ x # t
    BY <1>3, <1>12
  <2> QED
    BY <1>3, <1>7, <2>1 DEF InOrder
<1>13. ASSUME NEW x \in Replies, NEW l \in 1 .. Len(todo'[x])
       PROVE  /\ Follows(acc, todo'[x][l]) /\ BelongsTo(x, todo'[x][l].body)
              /\ \A i \in 1 .. n + k : Precedes(Sent'[i].msg.body, todo'[x][l].body)
              /\ \A j \in 1 .. Len(todo'[x]) : l < j => Precedes(todo'[x][l].body, todo'[x][j].body)
  <2>1. CASE x = t
    <3>1. todo'[x][l] = all[k + l] /\ k + l \in k + 1 .. Len(all) /\ k + l \in 1 .. Len(all)
      BY <1>1, <1>2, <1>7, <2>1
    <3>2. ASSUME NEW j \in 1 .. Len(todo'[x]), l < j
          PROVE  Precedes(todo'[x][l].body, todo'[x][j].body)
      <4>1. todo'[x][j] = all[k + j] /\ k + j \in 1 .. Len(all) /\ k + l < k + j
        BY <1>1, <1>2, <1>7, <2>1, <3>2
      <4> QED
        BY <1>9, <3>1, <4>1
    <3>3. ASSUME NEW i \in 1 .. n + k PROVE Precedes(Sent'[i].msg.body, all[k + l].body)
      <4>1. CASE i \in 1 .. n /\ Sent'[i] = Sent[i]
        BY <1>9, <3>1, <4>1
      <4>2. CASE i - n \in 1 .. k /\ Sent'[i].msg = all[i - n]
        <5>1. i - n < k + l
          BY <1>1, <4>2
        <5> QED
          BY <1>6, <1>9, <3>1, <4>2, <5>1
      <4> QED
        BY <1>5, <4>1, <4>2
    <3> QED
      BY <1>9, <2>1, <3>1, <3>2, <3>3
  <2>2. CASE x # t
    <3>1. todo'[x] = todo[x]
      BY <1>7, <2>2
    <3>2. ASSUME NEW i \in 1 .. n + k PROVE Precedes(Sent'[i].msg.body, todo[x][l].body)
      <4>1. CASE i \in 1 .. n /\ Sent'[i] = Sent[i]
        BY <3>1, <4>1 DEF InOrder, n
      <4>2. CASE i - n \in 1 .. k /\ Sent'[i].msg = all[i - n]
        <5>1. BelongsTo(x, todo[x][l].body)
          BY <3>1 DEF InOrder
        <5>2. BelongsTo(t, all[i - n].body)
          BY <1>6, <1>9, <4>2
        <5>3. Precedes(all[i - n].body, todo[x][l].body)
          BY <2>2, <5>1, <5>2 DEF BelongsTo, Precedes
        <5> QED
          BY <4>2, <5>3
      <4> QED
        BY <1>5, <4>1, <4>2
    <3> QED
      BY <3>1, <3>2 DEF InOrder
  <2> QED
    BY <2>1, <2>2
<1>14. /\ Sorted(acc) /\ (started => Opens(acc))
       /\ \A i \in 1 .. Len(accepted) : Sorted(accepted[i]) /\ Opens(accepted[i])
  BY DEF InOrder
<1> QED
  BY <1>1, <1>3, <1>8, <1>10, <1>11, <1>12, <1>13, <1>14 DEF InOrder
(* The oldest packet comes and its message is collected. *)
LEMMA ReceiveOrder ==
  ASSUME Types, InOrder, Receive
  PROVE  InOrder'
<1> DEFINE m == Head(line).msg
           n == Len(Sent)
           kept == IF m.first THEN <<>> ELSE acc
           body == kept \o m.body
<1>1. /\ m = Sent[1].msg /\ n \in Nat \ {0} /\ Len(Sent') = n - 1
      /\ \A i \in 1 .. n - 1 : Sent'[i] = Sent[i + 1]
  BY TailTakes DEF Receive, txVars
<1>2. UNCHANGED <<cfg, todo, pc>> /\ GetChunk(m)
  BY DEF Receive, txVars
<1>3. m \in Message /\ m.body \in Seq(Byte) /\ Follows(acc, m) /\ Begun(pc, m.body)
  BY <1>1, BodyTyped DEF InOrder
<1>4. /\ acc \in Seq(Byte) /\ Sorted(acc) /\ Begun(pc, acc) /\ (started => Opens(acc))
      /\ <<>> \in Seq(Byte) /\ Sorted(<<>>) /\ Begun(pc, <<>>)
      /\ \A s \in Seq(Byte) : Precedes(<<>>, s)
  <2>1. acc \in Seq(Byte) /\ Sorted(acc) /\ Begun(pc, acc) /\ (started => Opens(acc))
    BY DEF Types, InOrder
  <2>2. <<>> \in Seq(Byte) /\ 1 .. Len(<<>>) = {}
    OBVIOUS
  <2>3. Sorted(<<>>) /\ Begun(pc, <<>>) /\ \A s \in Seq(Byte) : Precedes(<<>>, s)
    BY ONLY <2>2 DEF Sorted, Begun, Precedes
  <2> QED
    BY <2>1, <2>2, <2>3
<1>5. kept \in Seq(Byte) /\ Sorted(kept) /\ Begun(pc, kept) /\ Precedes(kept, m.body)
  BY <1>3, <1>4 DEF Follows
<1>6. body \in Seq(Byte) /\ Sorted(body) /\ Begun(pc, body)
  <2> HIDE DEF kept, m
  <2> QED
    BY <1>3, <1>5, JoinSorted, JoinBegun, ConcatProperties DEF Follows
<1>7. ASSUME m.first \/ started PROVE Opens(body)
  <2>1. CASE m.first
    <3>1. body = m.body
      <4> HIDE DEF m
      <4> QED
        BY <1>3, <2>1, ConcatEmptySeq
    <3> QED
      BY <1>3, <2>1, <3>1 DEF Follows
  <2>2. CASE ~m.first
    <3>1. kept = acc /\ Opens(kept)
      BY <1>4, <1>7, <2>2
    <3> HIDE DEF kept, m
    <3> QED
      BY <1>3, <1>5, <3>1, JoinOpens
  <2> QED
    BY <2>1, <2>2
<1>8. ASSUME NEW s \in Seq(Byte), Precedes(acc, s), Precedes(m.body, s)
      PROVE  Precedes(body, s) /\ Precedes(<<>>, s)
  <2>1. Precedes(kept, s) /\ Precedes(<<>>, s)
    BY <1>4, <1>8
  <2> HIDE DEF kept, m
  <2> QED
    BY <1>3, <1>5, <1>8, <2>1, JoinPrecedes
<1>9. ASSUME NEW i \in 1 .. n - 1
      PROVE  /\ i + 1 \in 1 .. n /\ Sent'[i] = Sent[i + 1]
             /\ Sent[i + 1].msg.body \in Seq(Byte)
             /\ Sorted(Sent[i + 1].msg.body) /\ Begun(pc, Sent[i + 1].msg.body)
             /\ Sent[i + 1].msg.first => Opens(Sent[i + 1].msg.body)
             /\ Precedes(acc, Sent[i + 1].msg.body) /\ Precedes(m.body, Sent[i + 1].msg.body)
  <2>1. i + 1 \in 1 .. n /\ 1 \in 1 .. n /\ 1 < i + 1
    BY <1>1
  <2>2. Follows(acc, Sent[i + 1].msg) /\ Begun(pc, Sent[i + 1].msg.body)
    BY <2>1 DEF InOrder
  <2>3. Precedes(Sent[1].msg.body, Sent[i + 1].msg.body)
    BY <2>1 DEF InOrder
  <2>4. Sent[i + 1].msg.body \in Seq(Byte)
    BY <2>1, BodyTyped
  <2> QED
    BY <1>1, <2>1, <2>2, <2>3, <2>4 DEF Follows
<1>10. ASSUME NEW t \in Replies, NEW k \in 1 .. Len(todo[t])
       PROVE  /\ todo[t][k].body \in Seq(Byte) /\ Sorted(todo[t][k].body)
              /\ todo[t][k].first => Opens(todo[t][k].body)
              /\ BelongsTo(t, todo[t][k].body)
              /\ Precedes(acc, todo[t][k].body) /\ Precedes(m.body, todo[t][k].body)
  <2>1. 1 \in 1 .. n
    BY <1>1
  <2>2. Precedes(Sent[1].msg.body, todo[t][k].body)
    BY <2>1 DEF InOrder
  <2>3. Follows(acc, todo[t][k]) /\ BelongsTo(t, todo[t][k].body)
    BY DEF InOrder
  <2> QED
    BY <1>1, <2>2, <2>3, BodyTyped DEF Follows
<1> HIDE DEF body, kept
<1>11. /\ acc' \in {body, <<>>}
       /\ started' \in BOOLEAN /\ (started' => Opens(acc'))
       /\ accepted' = accepted \/ (accepted' = Append(accepted, body) /\ Opens(body))
  <2>1. CASE LastPkt(m) /\ (m.first \/ started)
    <3>1. accepted' = Append(accepted, body) /\ acc' = <<>> /\ started' = FALSE
      BY <1>2, <2>1 DEF GetChunk, body, kept
    <3> QED
      BY <1>7, <2>1, <3>1
  <2>2. CASE ~(LastPkt(m) /\ (m.first \/ started))
    <3>1. acc' = body /\ started' = (m.first \/ started) /\ accepted' = accepted
      BY <1>2, <2>2 DEF GetChunk, body, kept
    <3>2. CASE m.first \/ started
      BY <1>7, <3>1, <3>2
    <3>3. CASE ~(m.first \/ started)
      BY <3>1, <3>3
    <3> QED
      BY <3>2, <3>3
  <2> QED
    BY <2>1, <2>2
<1>12. Sorted(acc') /\ Begun(pc', acc')
  BY <1>2, <1>4, <1>6, <1>11
<1>13. \A i \in 1 .. n - 1 : Follows(acc', Sent'[i].msg) /\ Begun(pc', Sent'[i].msg.body)
  BY <1>2, <1>8, <1>9, <1>11 DEF Follows
<1>14. ASSUME NEW i \in 1 .. n - 1, NEW j \in 1 .. n - 1, i < j
       PROVE  Precedes(Sent'[i].msg.body, Sent'[j].msg.body)
  <2>1. i + 1 < j + 1
    BY <1>14
  <2> QED
    BY <1>9, <2>1 DEF InOrder
<1>15. \A t \in Replies : pc'[t] = "new" => todo'[t] = <<>> /\ cfg'[t] = <<>>
  BY <1>2 DEF InOrder
<1>16. ASSUME NEW t \in Replies, NEW k \in 1 .. Len(todo'[t])
       PROVE  /\ Follows(acc', todo'[t][k]) /\ BelongsTo(t, todo'[t][k].body)
              /\ \A i \in 1 .. n - 1 : Precedes(Sent'[i].msg.body, todo'[t][k].body)
              /\ \A l \in 1 .. Len(todo'[t]) : k < l => Precedes(todo'[t][k].body, todo'[t][l].body)
  <2>1. todo' = todo
    BY <1>2
  <2>2. Follows(acc', todo[t][k])
    BY <1>8, <1>10, <1>11, <2>1 DEF Follows
  <2>3. ASSUME NEW i \in 1 .. n - 1 PROVE Precedes(Sent'[i].msg.body, todo[t][k].body)
    BY <1>9, <2>1 DEF InOrder
  <2> QED
    BY <1>10, <2>1, <2>2, <2>3 DEF InOrder
<1>17. \A i \in 1 .. Len(accepted') : Sorted(accepted'[i]) /\ Opens(accepted'[i])
  <2>1. \A i \in 1 .. Len(accepted) : Sorted(accepted[i]) /\ Opens(accepted[i])
    BY DEF InOrder
  <2>2. CASE accepted' = accepted
    BY <2>1, <2>2
  <2>3. CASE accepted' = Append(accepted, body) /\ Opens(body)
    <3>1. accepted \in Seq(Seq(Byte)) /\ Len(accepted) \in Nat
      BY DEF Types
    <3>2. /\ Len(accepted') = Len(accepted) + 1
          /\ \A i \in 1 .. Len(accepted) + 1 :
               accepted'[i] = IF i = Len(accepted) + 1 THEN body ELSE accepted[i]
      BY <1>6, <2>3, <3>1, AppendProperties
    <3> QED
      BY <1>6, <2>1, <2>3, <3>1, <3>2
  <2> QED
    BY <1>11, <2>2, <2>3
<1> QED
  BY <1>1, <1>11, <1>12, <1>13, <1>14, <1>15, <1>16, <1>17 DEF InOrder

LEMMA NextOrder == ASSUME Types, InOrder, [Next]_vars PROVE InOrder'
<1>1. Len(Sent) \in Nat /\ \A i \in 1 .. Len(Sent) : i + 0 = i
  BY SentIs
<1>2. ASSUME Sent' = Sent, UNCHANGED <<cfg, acc, started, accepted>>,
             \A t \in Replies : /\ todo'[t] = todo[t] \/ todo'[t] = <<>>
                                /\ pc'[t] = "new" => pc[t] = "new"
      PROVE  InOrder'
  BY <1>1, <1>2, RestOrder, 0 \in Nat
<1>3. CASE \E t \in Replies, k \in Lens : Send(t, k)
  BY <1>3, SendOrder
<1>4. CASE \E t \in Replies : Check(t)
  BY <1>2, <1>4 DEF Check, Sent, rxVars, Types
<1>5. CASE \E t \in Replies : Push(t)
  BY <1>5, PushOrder
<1>6. CASE Complete
  BY <1>2, <1>6, CompleteKeeps DEF Complete, rxVars
<1>7. CASE DropUnsent
  <2>1. UNCHANGED <<cfg, todo, pc, rxVars>>
    BY <1>7 DEF DropUnsent
  <2>2. Len(Sent') \in Nat /\ Len(Sent') + 0 <= Len(Sent)
    BY <1>1, <1>7, DropCuts
  <2>3. \A i \in 1 .. Len(Sent') : Sent'[i] = Sent[i + 0]
    BY <1>7, DropCuts
  <2> QED
    BY <2>1, <2>2, <2>3, RestOrder, 0 \in Nat DEF rxVars
<1>8. CASE Lose
  <2>1. UNCHANGED <<cfg, todo, pc, rxVars>>
    BY <1>8 DEF Lose, txVars
  <2>2. /\ Len(Sent') = Len(Sent) - 1 /\ Len(Sent) \in Nat \ {0}
        /\ \A i \in 1 .. Len(Sent') : Sent'[i] = Sent[i + 1]
    BY <1>8, TailTakes DEF Lose, txVars
  <2>3. Len(Sent') \in Nat /\ Len(Sent') + 1 <= Len(Sent)
    BY <2>2
  <2> QED
    BY <2>1, <2>2, <2>3, RestOrder, 1 \in Nat DEF rxVars
<1>9. CASE Receive
  BY <1>9, ReceiveOrder
<1>10. CASE UNCHANGED vars
  BY <1>2, <1>10 DEF vars, txVars, rxVars, Sent
<1> QED
  BY <1>3, <1>4, <1>5, <1>6, <1>7, <1>8, <1>9, <1>10 DEF Next
-----------------------------------------------------------------------------
(* Replies that stay whole.                                                *)
LEMMA PartIs ==
  ASSUME NEW t \in Replies, NEW n \in Nat, NEW k \in 1 .. Pieces(n)
  PROVE  LET m == Messages(Content(t, n))[k] IN
         /\ m.body = Piece(t, n, k) /\ (m.first <=> k = 1)
         /\ LastPkt(m) <=> k = Pieces(n)
         /\ k < Pieces(n) => Len(m.body) = Mts
<1> DEFINE m == Messages(Content(t, n))[k]
           s == Piece(t, n, k)
<1>1. m = [first |-> k = 1, body |-> s]
  BY MessagesAre
<1> HIDE DEF m, s
<1>2. m.body = s /\ (m.first <=> k = 1)
  <2>1. CASE k = 1
    <3>1. m = [first |-> TRUE, body |-> s]
      BY <1>1, <2>1
    <3> QED
      BY <2>1, <3>1
  <2>2. CASE k # 1
    <3>1. (k = 1) = FALSE
      BY <2>2
    <3>2. m = [first |-> FALSE, body |-> s]
      BY <1>1, <3>1
    <3> QED
      BY <2>2, <3>2
  <2> QED
    BY <2>1, <2>2
<1>3. Pieces(n) \in Nat
  BY PiecesFit
<1>4. k < Pieces(n) => Len(s) = Mts
  <2> SUFFICES ASSUME k < Pieces(n) PROVE Len(s) = Mts
    OBVIOUS
  <2> DEFINE a == (k - 1) * Mts
  <2>1. a \in Nat /\ Len(s) = Bound(n, k) - a /\ Bound(n, k) = a + Mts
    BY PieceShape DEF s
  <2> HIDE DEF a
  <2> QED
    BY <2>1, CfgTransferAssumption
<1>5. k = Pieces(n) => Len(s) < Mts
  BY PieceShape DEF s
<1>6. Len(s) \in Nat
  BY PieceShape DEF s
<1>7. LastPkt(m) <=> k = Pieces(n)
  BY <1>2, <1>3, <1>4, <1>5, <1>6, CfgTransferAssumption DEF LastPkt
<1> QED
  BY <1>2, <1>4, <1>7 DEF m, s

(* What has been collected and the next message make what is collected     *)
(* next, and in the end the whole configuration.                           *)
LEMMA Collects ==
  ASSUME NEW t \in Replies, NEW n \in Nat, NEW k \in 1 .. Pieces(n)
  PROVE  /\ SubSeq(Content(t, n), 1, (k - 1) * Mts) \o Piece(t, n, k)
               = SubSeq(Content(t, n), 1, Bound(n, k))
         /\ k = 1 => SubSeq(Content(t, n), 1, (k - 1) * Mts) = <<>>
         /\ k = Pieces(n) => SubSeq(Content(t, n), 1, Bound(n, k)) = Content(t, n)
         /\ k < Pieces(n) => Bound(n, k) = k * Mts
<1> DEFINE a == (k - 1) * Mts
           b == Bound(n, k)
           c == Content(t, n)
<1>1. c \in Seq(Byte) /\ Len(c) = n
  BY ContentIs
<1>2. a \in Nat /\ b \in a .. n /\ Piece(t, n, k) = SubSeq(c, a + 1, b)
  BY PieceShape DEF Piece
<1>3. k = 1 => a = 0
  BY CfgTransferAssumption
<1>4. k < Pieces(n) => b = k * Mts
  BY DEF Bound
<1>5. k = Pieces(n) => b = n
  BY PieceShape
<1> HIDE DEF a, b, c
<1>6. SubSeq(c, 1, a) \o SubSeq(c, a + 1, b) = SubSeq(c, 1, b)
  <2>1. 1 \in 1 .. Len(c) + 1 /\ a \in 1 - 1 .. Len(c) /\ b \in a .. Len(c)
    BY <1>1, <1>2
  <2> QED
    BY ONLY <1>1, <2>1, ConcatAdjacentSubSeq
<1>7. k = 1 => SubSeq(c, 1, a) = <<>>
  BY <1>3, SubSeqEmpty
<1>8. k = Pieces(n) => SubSeq(c, 1, b) = c
  BY <1>1, <1>5, SubSeqFull
<1> QED
  BY <1>2, <1>4, <1>6, <1>7, <1>8 DEF a, b, c

(* A full message belongs to one reply, at one place in it.                *)
LEMMA OnePlace ==
  ASSUME NEW t \in Replies, NEW n \in Nat, NEW k \in 1 .. Pieces(n), k < Pieces(n),
         NEW u \in Replies, NEW l \in Nat, NEW j \in 1 .. Pieces(l),
         Messages(Content(t, n))[k] = Messages(Content(u, l))[j]
  PROVE  t = u /\ k = j
<1> DEFINE a == (k - 1) * Mts
           b == (j - 1) * Mts
           s == Piece(t, n, k)
<1>1. s = Piece(u, l, j)
  <2>1. /\ Messages(Content(t, n))[k].body = Piece(t, n, k)
        /\ Messages(Content(u, l))[j].body = Piece(u, l, j)
    BY PartIs
  <2> QED
    BY <2>1
<1>2. Len(s) = Mts
  <2>1. Messages(Content(t, n))[k].body = Piece(t, n, k) /\ Len(Messages(Content(t, n))[k].body) = Mts
    BY PartIs
  <2> QED
    BY <2>1
<1>3. 1 \in 1 .. Len(s)
  BY <1>2, CfgTransferAssumption
<1>4. s[1] = <<t, a + 1>>
  BY <1>3, PieceShape
<1>5. Piece(u, l, j)[1] = <<u, b + 1>>
  BY <1>1, <1>3, PieceShape, SMTT(30)
<1>6. t = u /\ a + 1 = b + 1
  BY <1>1, <1>4, <1>5
<1>7. k = j
  <2>1. k \in Int /\ j \in Int /\ Mts \in Nat \ {0}
    BY CfgTransferAssumption
  <2>2. a = Mts * (k - 1) /\ b = Mts * (j - 1) /\ a \in Int /\ b \in Int
    BY ONLY <2>1
  <2>3. Mts * (k - 1) = Mts * (j - 1)
    <3> HIDE DEF a, b
    <3> QED
      BY <1>6, <2>2
  <2>4. ASSUME k < j PROVE FALSE
    <3>1. Mts * (k - 1) < Mts * (j - 1)
      BY ONLY <2>1, k < j
    <3> QED
      BY <2>1, <2>3, <3>1
  <2>5. ASSUME j < k PROVE FALSE
    <3>1. Mts * (j - 1) < Mts * (k - 1)
      BY ONLY <2>1, j < k
    <3> QED
      BY <2>1, <2>3, <3>1
  <2> QED
    BY <2>1, <2>4, <2>5
<1> QED
  BY <1>6, <1>7
LEMMA CfgIs ==
  ASSUME Types, Whole, NEW t \in Replies
  PROVE  /\ Len(cfg[t]) \in Nat /\ cfg[t] = Content(t, Len(cfg[t]))
         /\ Messages(cfg[t]) \in Seq(Message)
         /\ Len(Messages(cfg[t])) = Pieces(Len(cfg[t])) /\ Pieces(Len(cfg[t])) \in Nat
<1>1. Len(cfg[t]) \in Nat
  BY DEF Types
<1>2. cfg[t] = Content(t, Len(cfg[t]))
  BY DEF Whole
<1>3. /\ Messages(Content(t, Len(cfg[t]))) \in Seq(Message)
      /\ Len(Messages(Content(t, Len(cfg[t])))) = Pieces(Len(cfg[t]))
  BY <1>1, MessagesAre
<1> QED
  BY <1>1, <1>2, <1>3, PiecesFit

LEMMA InitWhole == Init => Whole
<1> SUFFICES ASSUME Init PROVE Whole
  OBVIOUS
<1>1. Len(Sent) = 0 /\ accepted = <<>>
  BY DEF Init, Sent
<1>2. ASSUME NEW t \in Replies PROVE cfg[t] = Content(t, Len(cfg[t])) /\ pc[t] = "new"
  <2>1. cfg[t] = <<>> /\ Len(cfg[t]) = 0 /\ pc[t] = "new"
    BY DEF Init
  <2>2. Content(t, 0) = <<>>
    BY DEF Content
  <2> QED
    BY <2>1, <2>2
<1> QED
  BY <1>1, <1>2 DEF Whole, Unsplit, Linked, AcceptedIsSent

(* A configuration that is given to a thread is new: no packet is part of  *)
(* it, and the replies of the others are what they were.                   *)
LEMMA SendWhole ==
  ASSUME Types, InOrder, Whole, NEW t \in Replies, NEW n \in Lens, Send(t, n)
  PROVE  Whole'
<1> DEFINE c == Content(t, n)
<1>1. n \in Nat /\ c \in Seq(Byte) /\ Len(c) = n
  BY CfgTransferAssumption, ContentIs
<1>2. /\ UNCHANGED <<acc, started, accepted, mishaps>> /\ Sent' = Sent
      /\ todo' = [todo EXCEPT ![t] = Messages(c)] /\ cfg' = [cfg EXCEPT ![t] = c]
      /\ pc[t] = "new" /\ cfg[t] = <<>> /\ \A x \in Replies \ {t} : pc'[x] = pc[x]
  BY DEF Send, rxVars, Sent, Types, InOrder
<1> HIDE DEF c
<1>3. /\ cfg'[t] = c /\ todo'[t] = Messages(c)
      /\ \A x \in Replies \ {t} : cfg'[x] = cfg[x] /\ todo'[x] = todo[x]
  BY <1>2 DEF Types
<1>4. ASSUME NEW x \in Replies PROVE cfg'[x] = Content(x, Len(cfg'[x]))
  <2>1. CASE x = t
    BY <1>1, <1>3, <2>1 DEF c
  <2>2. CASE x # t
    BY <1>3, <2>2 DEF Whole
  <2> QED
    BY <2>1, <2>2
<1>5. ASSUME mishaps' \subseteq {"dropped", "refused"}
      PROVE  Unsplit' /\ Linked' /\ AcceptedIsSent'
  <2>1. Unsplit /\ Linked /\ AcceptedIsSent
    BY <1>2, <1>5 DEF Whole
  <2>2. Unsplit'
    <3> SUFFICES ASSUME NEW x \in Replies, pc'[x] \in {"check", "lock"}
                 PROVE  todo'[x] = Messages(cfg'[x])
      BY DEF Unsplit
    <3>1. CASE x = t
      BY <1>3, <3>1
    <3>2. CASE x # t
      BY <1>2, <1>3, <2>1, <3>2 DEF Unsplit
    <3> QED
      BY <3>1, <3>2
  <2>3. Linked'
    <3> SUFFICES ASSUME NEW i \in 1 .. Len(Sent')
                 PROVE  \E x \in Replies : \E k \in 1 .. Len(Messages(cfg'[x])) : Follow(x, k, i)'
      BY DEF Linked
    <3>1. i \in 1 .. Len(Sent)
      BY <1>2
    <3>2. PICK x \in Replies : \E k \in 1 .. Len(Messages(cfg[x])) : Follow(x, k, i)
      BY <2>1, <3>1 DEF Linked
    <3>3. PICK k \in 1 .. Len(Messages(cfg[x])) : Follow(x, k, i)
      BY <3>2
    <3>4. x # t
      <4>1. Len(Messages(cfg[x])) = Pieces(Len(cfg[x]))
        BY CfgIs
      <4>2. ASSUME x = t PROVE FALSE
        <5>1. Len(cfg[x]) = 0 /\ Pieces(0) = 0
          BY <1>2, <4>2 DEF Pieces
        <5> QED
          BY <4>1, <5>1
      <4> QED
        BY <4>2
    <3>5. cfg'[x] = cfg[x]
      BY <1>3, <3>4
    <3>6. Follow(x, k, i)'
      BY <1>2, <3>3, <3>5 DEF Follow
    <3> QED
      BY <3>5, <3>6
  <2>4. AcceptedIsSent'
    <3> SUFFICES ASSUME NEW i \in DOMAIN accepted
                 PROVE  \E x \in Replies : accepted[i] = cfg'[x] /\ cfg'[x] # <<>>
      BY <1>2 DEF AcceptedIsSent
    <3>1. PICK x \in Replies : accepted[i] = cfg[x] /\ cfg[x] # <<>>
      BY <2>1 DEF AcceptedIsSent
    <3> QED
      BY <1>2, <1>3, <3>1
  <2> QED
    BY <2>2, <2>3, <2>4
<1> QED
  BY <1>4, <1>5 DEF Whole

(* A reply is pushed all at once. *)
LEMMA PushWhole ==
  ASSUME Types, InOrder, Whole, NEW t \in Replies, Push(t)
  PROVE  Whole'
<1> DEFINE k == Fits(t)
           n == Len(Sent)
<1>1. /\ k \in 0 .. Len(todo[t]) /\ n \in Nat /\ Len(Sent') = n + k
      /\ \A i \in 1 .. n + k : Sent'[i] = IF i <= n THEN Sent[i] ELSE Pushed(t)[i - n]
      /\ todo' = [todo EXCEPT ![t] = SubSeq(todo[t], k + 1, Len(todo[t]))]
  BY PushAppends, SentIs
<1>2. UNCHANGED <<cfg, acc, started, accepted>> /\ pc[t] = "lock"
  BY DEF Push, rxVars
<1>3. /\ k = Len(todo[t]) => mishaps' = mishaps /\ pc'[t] = "done"
      /\ k # Len(todo[t]) => "split" \in mishaps'
      /\ \A x \in Replies \ {t} : pc'[x] = pc[x]
  BY DEF Push, Fits, Types
<1> HIDE DEF k, n
<1>4. \A x \in Replies : cfg'[x] = Content(x, Len(cfg'[x]))
  BY <1>2 DEF Whole
<1>5. ASSUME mishaps' \subseteq {"dropped", "refused"}
      PROVE  Unsplit' /\ Linked' /\ AcceptedIsSent'
  <2>1. k = Len(todo[t]) /\ mishaps' = mishaps /\ pc'[t] = "done"
    BY <1>3, <1>5
  <2>2. Unsplit /\ Linked /\ AcceptedIsSent
    BY <1>5, <2>1 DEF Whole
  <2>3. todo[t] = Messages(cfg[t])
    BY <1>2, <2>2 DEF Unsplit
  <2>4. Unsplit'
    <3> SUFFICES ASSUME NEW x \in Replies, pc'[x] \in {"check", "lock"}
                 PROVE  todo'[x] = Messages(cfg'[x])
      BY DEF Unsplit
    <3>1. x # t
      BY <2>1
    <3>2. todo'[x] = todo[x] /\ pc'[x] = pc[x]
      BY <1>1, <1>3, <3>1 DEF Types
    <3> QED
      BY <1>2, <2>2, <3>2 DEF Unsplit
  <2>5. Linked'
    <3> SUFFICES ASSUME NEW i \in 1 .. n + k
                 PROVE  \E x \in Replies : \E l \in 1 .. Len(Messages(cfg[x])) : Follow(x, l, i)'
      BY <1>1, <1>2 DEF Linked
    <3>1. CASE i <= n
      <4>1. i \in 1 .. Len(Sent) /\ Sent'[i] = Sent[i] /\ (i > 1 => Sent'[i - 1] = Sent[i - 1])
        BY <1>1, <3>1 DEF n
      <4>2. PICK x \in Replies : \E l \in 1 .. Len(Messages(cfg[x])) : Follow(x, l, i)
        BY <2>2, <4>1 DEF Linked
      <4>3. PICK l \in 1 .. Len(Messages(cfg[x])) : Follow(x, l, i)
        BY <4>2
      <4>4. Follow(x, l, i)'
        BY <1>2, <4>1, <4>3 DEF Follow
      <4> QED
        BY <4>4
    <3>2. CASE i > n
      <4> PICK l \in Nat : l = i - n
        BY <1>1, <3>2
      <4>1. l \in 1 .. k /\ Sent'[i] = Pushed(t)[l] /\ l \in 1 .. Len(Messages(cfg[t]))
        BY <1>1, <2>1, <2>3, <3>2
      <4>2. Sent'[i].msg = todo[t][l]
        BY <4>1 DEF Pushed, k
      <4>3. ASSUME l > 1 PROVE Sent'[i - 1].msg = todo[t][l - 1] /\ i > 1
        <5>1. /\ l - 1 \in 1 .. k /\ i - 1 \in 1 .. n + k /\ ~(i - 1 <= n) /\ i - 1 - n = l - 1
              /\ i > 1
          BY <1>1, <4>1, <4>3
        <5>2. Sent'[i - 1] = Pushed(t)[l - 1]
          BY <1>1, <5>1
        <5>3. Pushed(t)[l - 1].msg = todo[t][l - 1]
          BY <5>1 DEF Pushed, k
        <5> QED
          BY <5>1, <5>2, <5>3
      <4>4. Follow(t, l, i)'
        BY <1>2, <2>3, <4>2, <4>3 DEF Follow
      <4> QED
        BY <4>1, <4>4
    <3> QED
      BY <1>1, <3>1, <3>2
  <2>6. AcceptedIsSent'
    BY <1>2, <2>2 DEF AcceptedIsSent
  <2> QED
    BY <2>4, <2>5, <2>6
<1> QED
  BY <1>4, <1>5 DEF Whole
(* Packets leave at the end, a thread gives up. *)
LEMMA RestWhole ==
  ASSUME Types, Whole, UNCHANGED <<cfg, acc, started, accepted>>, mishaps \subseteq mishaps',
         Len(Sent') \in 0 .. Len(Sent), \A i \in 1 .. Len(Sent') : Sent'[i] = Sent[i],
         \A t \in Replies : pc'[t] \in {"check", "lock"} =>
           pc[t] \in {"check", "lock"} /\ todo'[t] = todo[t]
  PROVE  Whole'
<1>1. \A x \in Replies : cfg'[x] = Content(x, Len(cfg'[x]))
  BY DEF Whole
<1>2. ASSUME mishaps' \subseteq {"dropped", "refused"}
      PROVE  Unsplit' /\ Linked' /\ AcceptedIsSent'
  <2>1. Unsplit /\ Linked /\ AcceptedIsSent
    BY <1>2 DEF Whole
  <2>2. Unsplit'
    BY <2>1 DEF Unsplit
  <2>3. Linked'
    <3> SUFFICES ASSUME NEW i \in 1 .. Len(Sent')
                 PROVE  \E x \in Replies : \E l \in 1 .. Len(Messages(cfg[x])) : Follow(x, l, i)'
      BY DEF Linked
    <3>1. /\ i \in 1 .. Len(Sent) /\ Sent'[i] = Sent[i]
          /\ (i > 1 => i - 1 \in 1 .. Len(Sent') /\ Sent'[i - 1] = Sent[i - 1])
      BY SentIs
    <3>2. PICK x \in Replies : \E l \in 1 .. Len(Messages(cfg[x])) : Follow(x, l, i)
      BY <2>1, <3>1 DEF Linked
    <3>3. PICK l \in 1 .. Len(Messages(cfg[x])) : Follow(x, l, i)
      BY <3>2
    <3>4. Follow(x, l, i)'
      BY <3>1, <3>3 DEF Follow
    <3> QED
      BY <3>4
  <2>4. AcceptedIsSent'
    BY <2>1 DEF AcceptedIsSent
  <2> QED
    BY <2>2, <2>3, <2>4
<1> QED
  BY <1>1, <1>2 DEF Whole

(* The oldest packet comes: it goes on with the reply that is collected,   *)
(* or begins one, and the last one completes it.                           *)
LEMMA ReceiveWhole ==
  ASSUME Types, Whole, Receive
  PROVE  Whole'
<1> DEFINE m == Head(line).msg
           n == Len(Sent)
           body == (IF m.first THEN <<>> ELSE acc) \o m.body
<1>1. /\ m = Sent[1].msg /\ n \in Nat \ {0} /\ Len(Sent') = n - 1
      /\ \A i \in 1 .. n - 1 : Sent'[i] = Sent[i + 1]
  BY TailTakes DEF Receive, txVars
<1>2. UNCHANGED <<cfg, todo, pc, mishaps>> /\ GetChunk(m)
  BY DEF Receive, txVars
<1>3. \A x \in Replies : cfg'[x] = Content(x, Len(cfg'[x]))
  BY <1>2 DEF Whole
<1>4. ASSUME mishaps' \subseteq {"dropped", "refused"}
      PROVE  Unsplit' /\ Linked' /\ AcceptedIsSent'
  <2>1. Unsplit /\ Linked /\ AcceptedIsSent
    BY <1>2, <1>4 DEF Whole
  <2>2. Unsplit'
    BY <1>2, <2>1 DEF Unsplit
  <2>3. PICK t \in Replies : \E k \in 1 .. Len(Messages(cfg[t])) : Follow(t, k, 1)
    BY <1>1, <2>1 DEF Linked
  <2>4. PICK k \in 1 .. Len(Messages(cfg[t])) : Follow(t, k, 1)
    BY <2>3
  <2>5. PICK l \in Nat : l = Len(cfg[t])
    BY CfgIs
  <2>6. cfg[t] = Content(t, l) /\ k \in 1 .. Pieces(l) /\ Pieces(l) \in Nat
    BY <2>5, CfgIs
  <2>7. m = Messages(Content(t, l))[k]
    BY <1>1, <2>4, <2>6 DEF Follow
  <2>8. m.body = Piece(t, l, k) /\ (m.first <=> k = 1) /\ (LastPkt(m) <=> k = Pieces(l))
    BY <2>6, <2>7, PartIs
  <2>9. /\ k > 1 => started /\ acc = SubSeq(cfg[t], 1, (k - 1) * Mts)
        /\ m.first \/ started
    BY <2>4, <2>6, <2>8 DEF Follow
  <2>10. body = SubSeq(Content(t, l), 1, Bound(l, k))
    <3>1. (IF m.first THEN <<>> ELSE acc) = SubSeq(Content(t, l), 1, (k - 1) * Mts)
      <4>1. CASE k = 1
        BY <2>6, <2>8, <4>1, Collects
      <4>2. CASE k > 1
        BY <2>6, <2>8, <2>9, <4>2
      <4> QED
        BY <2>6, <4>1, <4>2
    <3>2. body = SubSeq(Content(t, l), 1, (k - 1) * Mts) \o Piece(t, l, k)
      BY <2>8, <3>1
    <3> HIDE DEF body, m
    <3> QED
      BY <2>6, <3>2, Collects
  <2> HIDE DEF m, body
  <2>11. CASE k = Pieces(l)
    <3>1. accepted' = Append(accepted, body)
      BY <1>2, <2>8, <2>9, <2>11 DEF GetChunk, body
    <3>2. body = cfg[t] /\ cfg[t] # <<>>
      <4>1. body = cfg[t]
        BY <2>6, <2>10, <2>11, Collects
      <4>2. l # 0
        BY <2>6 DEF Pieces
      <4> QED
        BY <2>5, <4>1, <4>2
    <3>3. AcceptedIsSent'
      <4> SUFFICES ASSUME NEW i \in DOMAIN accepted'
                   PROVE  \E x \in Replies : accepted'[i] = cfg[x] /\ cfg[x] # <<>>
        BY <1>2 DEF AcceptedIsSent
      <4>1. accepted \in Seq(Seq(Byte)) /\ cfg[t] \in Seq(Byte)
        BY DEF Types
      <4>2. /\ accepted' \in Seq(Seq(Byte)) /\ Len(accepted') = Len(accepted) + 1
            /\ accepted'[Len(accepted) + 1] = cfg[t]
            /\ \A j \in 1 .. Len(accepted) : accepted'[j] = accepted[j]
        BY <3>1, <3>2, <4>1, AppendProperties
      <4>3. i \in 1 .. Len(accepted) + 1 /\ DOMAIN accepted = 1 .. Len(accepted) /\ Len(accepted) \in Nat
        BY <4>1, <4>2
      <4>4. CASE i = Len(accepted) + 1
        BY <3>2, <4>2, <4>4
      <4>5. CASE i # Len(accepted) + 1
        <5>1. i \in DOMAIN accepted /\ accepted'[i] = accepted[i]
          BY <4>2, <4>3, <4>5
        <5> QED
          BY <2>1, <5>1 DEF AcceptedIsSent
      <4> QED
        BY <4>4, <4>5
    <3>4. Linked'
      <4> SUFFICES ASSUME NEW i \in 1 .. n - 1
                   PROVE  \E x \in Replies : \E j \in 1 .. Len(Messages(cfg[x])) : Follow(x, j, i)'
        BY <1>1, <1>2 DEF Linked
      <4>1. i + 1 \in 1 .. n /\ Sent'[i] = Sent[i + 1] /\ i + 1 > 1 /\ i + 1 - 1 = i
            /\ (i > 1 => Sent'[i - 1] = Sent[i])
        BY <1>1
      <4>2. PICK x \in Replies : \E j \in 1 .. Len(Messages(cfg[x])) : Follow(x, j, i + 1)
        BY <2>1, <4>1 DEF Linked
      <4>3. PICK j \in 1 .. Len(Messages(cfg[x])) : Follow(x, j, i + 1)
        BY <4>2
      <4>4. Sent[i + 1].msg = Messages(cfg[x])[j] /\ (j > 1 => Sent[i].msg = Messages(cfg[x])[j - 1])
        BY <4>1, <4>3 DEF Follow
      <4>5. ASSUME j > 1, i = 1 PROVE FALSE
        <5>1. PICK q \in Nat : q = Len(cfg[x])
          BY CfgIs
        <5>2. cfg[x] = Content(x, q) /\ j - 1 \in 1 .. Pieces(q) /\ j - 1 < Pieces(q)
          BY <4>5, <5>1, CfgIs
        <5>3. m = Messages(Content(x, q))[j - 1]
          BY <1>1, <4>4, <4>5, <5>2 DEF m
        <5>4. ~LastPkt(m)
          BY <5>2, <5>3, PartIs
        <5> QED
          BY <2>8, <2>11, <5>4
      <4>6. Follow(x, j, i)'
        BY <1>2, <4>1, <4>4, <4>5 DEF Follow
      <4> QED
        BY <4>6
    <3> QED
      BY <2>2, <3>3, <3>4
  <2>12. CASE k < Pieces(l)
    <3>1. acc' = body /\ started' = TRUE /\ accepted' = accepted
      <4>1. acc' = body /\ started' = (m.first \/ started) /\ accepted' = accepted
        BY <1>2, <2>8, <2>12 DEF GetChunk, body
      <4>2. started \in BOOLEAN
        BY DEF Types
      <4> QED
        BY <2>8, <2>9, <4>1, <4>2
    <3>2. acc' = SubSeq(cfg[t], 1, k * Mts)
      BY <2>6, <2>10, <2>12, <3>1, Collects
    <3>3. AcceptedIsSent'
      BY <1>2, <2>1, <3>1 DEF AcceptedIsSent
    <3>4. Linked'
      <4> SUFFICES ASSUME NEW i \in 1 .. n - 1
                   PROVE  \E x \in Replies : \E j \in 1 .. Len(Messages(cfg[x])) : Follow(x, j, i)'
        BY <1>1, <1>2 DEF Linked
      <4>1. i + 1 \in 1 .. n /\ Sent'[i] = Sent[i + 1] /\ i + 1 > 1 /\ i + 1 - 1 = i
            /\ (i > 1 => Sent'[i - 1] = Sent[i])
        BY <1>1
      <4>2. PICK x \in Replies : \E j \in 1 .. Len(Messages(cfg[x])) : Follow(x, j, i + 1)
        BY <2>1, <4>1 DEF Linked
      <4>3. PICK j \in 1 .. Len(Messages(cfg[x])) : Follow(x, j, i + 1)
        BY <4>2
      <4>4. Sent[i + 1].msg = Messages(cfg[x])[j] /\ (j > 1 => Sent[i].msg = Messages(cfg[x])[j - 1])
        BY <4>1, <4>3 DEF Follow
      <4>5. ASSUME j > 1, i = 1 PROVE x = t /\ j - 1 = k
        <5>1. PICK q \in Nat : q = Len(cfg[x])
          BY CfgIs
        <5>2. cfg[x] = Content(x, q) /\ j - 1 \in 1 .. Pieces(q) /\ j - 1 < Pieces(q)
          BY <4>5, <5>1, CfgIs
        <5>3. Messages(Content(t, l))[k] = Messages(Content(x, q))[j - 1]
          BY <1>1, <2>7, <4>4, <4>5, <5>2 DEF m
        <5>4. t = x /\ k = j - 1
          BY <2>6, <2>12, <5>2, <5>3, OnePlace
        <5> QED
          BY <5>4
      <4>6. Follow(x, j, i)'
        BY <1>2, <3>1, <3>2, <4>1, <4>4, <4>5 DEF Follow
      <4> QED
        BY <4>6
    <3> QED
      BY <2>2, <3>3, <3>4
  <2> QED
    BY <2>6, <2>11, <2>12
<1> QED
  BY <1>3, <1>4 DEF Whole

LEMMA NextWhole == ASSUME Types, InOrder, Whole, [Next]_vars PROVE Whole'
<1>1. Len(Sent) \in Nat
  BY SentIs
<1>2. CASE \E t \in Replies, n \in Lens : Send(t, n)
  BY <1>2, SendWhole
<1>3. CASE \E t \in Replies : Check(t)
  <2>1. UNCHANGED <<cfg, acc, started, accepted>> /\ Sent' = Sent /\ mishaps \subseteq mishaps'
    BY <1>3 DEF Check, Sent, rxVars
  <2>2. \A t \in Replies : pc'[t] \in {"check", "lock"} =>
          pc[t] \in {"check", "lock"} /\ todo'[t] = todo[t]
    BY <1>3 DEF Check, Types
  <2> QED
    BY <1>1, <2>1, <2>2, RestWhole
<1>4. CASE \E t \in Replies : Push(t)
  BY <1>4, PushWhole
<1>5. CASE Complete
  <2>1. UNCHANGED <<cfg, todo, pc, mishaps, rxVars>>
    BY <1>5 DEF Complete
  <2> QED
    BY <1>1, <1>5, <2>1, CompleteKeeps, RestWhole DEF rxVars
<1>6. CASE DropUnsent
  <2>1. UNCHANGED <<cfg, todo, pc, rxVars>> /\ mishaps \subseteq mishaps'
    BY <1>6 DEF DropUnsent
  <2> QED
    BY <1>6, <2>1, DropCuts, RestWhole DEF rxVars
<1>7. CASE Lose
  <2>1. UNCHANGED cfg /\ "lost" \in mishaps'
    BY <1>7 DEF Lose, txVars
  <2> QED
    BY <2>1 DEF Whole
<1>8. CASE Receive
  BY <1>8, ReceiveWhole
<1>9. CASE UNCHANGED vars
  <2>1. UNCHANGED <<cfg, todo, pc, mishaps, rxVars>> /\ Sent' = Sent
    BY <1>9 DEF vars, txVars, Sent
  <2> QED
    BY <1>1, <2>1, RestWhole DEF rxVars
<1> QED
  BY <1>2, <1>3, <1>4, <1>5, <1>6, <1>7, <1>8, <1>9 DEF Next
-----------------------------------------------------------------------------
(* Replies that arrive.                                                    *)
LEMMA InitSomewhere == Init => Somewhere
  BY DEF Init, Somewhere

(* Nothing changes for a reply when others append packets.                 *)
LEMMA OthersAppend ==
  ASSUME Types, Whole, Whole', NEW t \in Replies, cfg'[t] = cfg[t], todo'[t] = todo[t],
         UNCHANGED <<acc, started, accepted>>,
         Len(Sent') \in Nat, Len(Sent) <= Len(Sent'),
         \A i \in 1 .. Len(Sent) : Sent'[i] = Sent[i],
         \A i \in Len(Sent) + 1 .. Len(Sent') : Free(t, Sent'[i].msg.body),
         Waits(t) \/ (\E o \in Int : TravelsBehind(t, o)) \/ Arrived(t)
  PROVE  Waits(t)' \/ (\E o \in Int : TravelsBehind(t, o)') \/ Arrived(t)'
<1> DEFINE n == Len(Sent)
           ms == Messages(cfg[t])
<1>1. n \in Nat /\ Len(ms) \in Nat
  BY SentIs, CfgIs
<1>2. ASSUME \A i \in 1 .. n : Free(t, Sent[i].msg.body)
      PROVE  \A i \in 1 .. Len(Sent') : Free(t, Sent'[i].msg.body)
  <2> SUFFICES ASSUME NEW i \in 1 .. Len(Sent') PROVE Free(t, Sent'[i].msg.body)
    OBVIOUS
  <2>1. i \in 1 .. n \/ i \in n + 1 .. Len(Sent')
    BY <1>1
  <2> QED
    BY <1>2, <2>1
<1>3. CASE Waits(t)
  BY <1>2, <1>3 DEF Waits, Unaccepted
<1>4. CASE Arrived(t)
  BY <1>2, <1>4 DEF Arrived
<1>5. CASE \E o \in Int : TravelsBehind(t, o)
  <2>1. PICK o \in Int : TravelsBehind(t, o)
    BY <1>5
  <2>2. /\ todo[t] = <<>> /\ Unaccepted(t)
        /\ o + Len(ms) \in 1 .. n
        /\ \A k \in 1 .. Len(ms) : o + k >= 1 => Sent[o + k].msg = ms[k]
        /\ \A i \in 1 .. n : i \notin o + 1 .. o + Len(ms) => Free(t, Sent[i].msg.body)
        /\ IF o < 0 THEN started /\ acc = SubSeq(cfg[t], 1, (0 - o) * Mts) ELSE Free(t, acc)
    BY <2>1 DEF TravelsBehind
  <2>3. ASSUME NEW k \in 1 .. Len(ms), o + k >= 1 PROVE Sent'[o + k].msg = ms[k]
    <3>1. o + k \in 1 .. n
      BY <1>1, <2>2, <2>3
    <3> QED
      BY <2>2, <2>3, <3>1
  <2>4. ASSUME NEW i \in 1 .. Len(Sent'), i \notin o + 1 .. o + Len(ms)
        PROVE  Free(t, Sent'[i].msg.body)
    <3>1. i \in 1 .. n \/ i \in n + 1 .. Len(Sent')
      BY <1>1
    <3> QED
      BY <2>2, <2>4, <3>1
  <2>5. o + Len(ms) \in 1 .. Len(Sent')
    BY <1>1, <2>2
  <2>6. Unaccepted(t)'
    BY <2>2 DEF Unaccepted
  <2>7. TravelsBehind(t, o)'
    BY <2>2, <2>3, <2>4, <2>5, <2>6 DEF TravelsBehind
  <2> QED
    BY <2>7
<1> QED
  BY <1>3, <1>4, <1>5

LEMMA SendSomewhere ==
  ASSUME Types, InOrder, Whole, Whole', Somewhere, NEW u \in Replies, NEW n \in Lens, Send(u, n)
  PROVE  Somewhere'
<1> SUFFICES ASSUME mishaps' = {}, NEW t \in Replies, cfg'[t] # <<>>
             PROVE  Waits(t)' \/ (\E o \in Int : TravelsBehind(t, o)') \/ Arrived(t)'
  BY DEF Somewhere
<1>1. /\ UNCHANGED <<acc, started, accepted, mishaps>> /\ Sent' = Sent
      /\ todo' = [todo EXCEPT ![u] = Messages(Content(u, n))] /\ cfg' = [cfg EXCEPT ![u] = Content(u, n)]
      /\ pc[u] = "new" /\ cfg[u] = <<>>
  BY DEF Send, rxVars, Sent, InOrder
<1>2. CASE t # u
  <2>1. cfg'[t] = cfg[t] /\ todo'[t] = todo[t]
    BY <1>1, <1>2 DEF Types
  <2>2. Waits(t) \/ (\E o \in Int : TravelsBehind(t, o)) \/ Arrived(t)
    BY <1>1, <2>1 DEF Somewhere
  <2>3. Len(Sent') \in Nat /\ Len(Sent) <= Len(Sent') /\ Len(Sent) + 1 .. Len(Sent') = {}
    BY <1>1, SentIs
  <2> QED
    BY <1>1, <2>1, <2>2, <2>3, OthersAppend
<1>3. CASE t = u
  <2>1. cfg'[t] = Content(t, n) /\ todo'[t] = Messages(cfg'[t])
    BY <1>1, <1>3 DEF Types
  <2>2. Free(t, acc) /\ \A i \in 1 .. Len(Sent) : Free(t, Sent[i].msg.body)
    BY <1>1, <1>3 DEF InOrder, Begun, Free
  <2>3. ASSUME NEW i \in 1 .. Len(accepted) PROVE accepted[i] # cfg'[t]
    <3>1. i \in DOMAIN accepted
      BY DEF Types
    <3>2. PICK x \in Replies : accepted[i] = cfg[x] /\ cfg[x] # <<>>
      BY <1>1, <3>1 DEF Whole, AcceptedIsSent
    <3>3. x # t
      BY <1>1, <1>3, <3>2
    <3>4. PICK l \in Nat : l = Len(cfg[x])
      BY CfgIs
    <3>5. cfg[x] = Content(x, l) /\ cfg[x] \in Seq(Byte) /\ l > 0
      BY <3>2, <3>4, CfgIs DEF Types
    <3>6. cfg[x][1] = <<x, 1>>
      <4>1. 1 \in 1 .. l /\ \A j \in 1 .. l : Content(x, l)[j] = <<x, j>>
        BY <3>5, ContentIs
      <4> QED
        BY <3>5, <4>1
    <3>7. n \in Nat
      BY CfgTransferAssumption
    <3>8. Content(t, n) \in Seq(Byte) /\ Len(Content(t, n)) = n
      BY <3>7, ContentIs
    <3>9. n > 0
      BY <2>1, <3>7, <3>8
    <3>10. Content(t, n)[1] = <<t, 1>>
      BY <3>7, <3>9, ContentIs
    <3> QED
      BY <2>1, <3>2, <3>3, <3>6, <3>10
  <2>4. Waits(t)'
    BY <1>1, <2>1, <2>2, <2>3 DEF Waits, Unaccepted
  <2> QED
    BY <2>4
<1> QED
  BY <1>2, <1>3

LEMMA PushSomewhere ==
  ASSUME Types, InOrder, Whole, Whole', Somewhere, NEW u \in Replies, Push(u)
  PROVE  Somewhere'
<1> SUFFICES ASSUME mishaps' = {}, NEW t \in Replies, cfg'[t] # <<>>
             PROVE  Waits(t)' \/ (\E o \in Int : TravelsBehind(t, o)') \/ Arrived(t)'
  BY DEF Somewhere
<1> DEFINE k == Fits(u)
           n == Len(Sent)
<1>1. /\ k \in 0 .. Len(todo[u]) /\ n \in Nat /\ Len(Sent') = n + k
      /\ \A i \in 1 .. n + k : Sent'[i] = IF i <= n THEN Sent[i] ELSE Pushed(u)[i - n]
      /\ todo' = [todo EXCEPT ![u] = SubSeq(todo[u], k + 1, Len(todo[u]))]
  <2>1. n \in Nat
    BY SentIs
  <2> QED
    BY <2>1, PushAppends
<1>2. UNCHANGED <<cfg, acc, started, accepted>> /\ pc[u] = "lock"
  BY DEF Push, rxVars
<1>3. k = Len(todo[u]) /\ mishaps = {}
  <2>1. k # Len(todo[u]) => "split" \in mishaps'
    BY DEF Push, Fits
  <2>2. mishaps \subseteq mishaps'
    BY DEF Push
  <2> QED
    BY <2>1, <2>2
<1>4. todo[u] = Messages(cfg[u])
  BY <1>2, <1>3 DEF Whole, Unsplit
<1>5. ASSUME NEW i \in n + 1 .. n + k
      PROVE  Sent'[i].msg = todo[u][i - n] /\ BelongsTo(u, Sent'[i].msg.body)
  <2>1. i - n \in 1 .. k /\ ~(i <= n) /\ i \in 1 .. n + k
    BY <1>1
  <2>2. Sent'[i] = Pushed(u)[i - n]
    BY <1>1, <2>1
  <2>3. Pushed(u)[i - n].msg = todo[u][i - n]
    BY <2>1 DEF Pushed
  <2>4. BelongsTo(u, todo[u][i - n].body)
    BY <1>3, <2>1 DEF InOrder
  <2> QED
    BY <2>2, <2>3, <2>4
<1>6. Waits(t) \/ (\E o \in Int : TravelsBehind(t, o)) \/ Arrived(t)
  BY <1>2, <1>3 DEF Somewhere
<1>7. k \in Nat /\ Len(todo[u]) \in Nat
  BY <1>1, BodyTyped
<1>8. CASE t # u
  <2>1. cfg'[t] = cfg[t] /\ todo'[t] = todo[t]
    BY <1>1, <1>2, <1>8 DEF Types
  <2>2. \A i \in n + 1 .. Len(Sent') : Free(t, Sent'[i].msg.body)
    BY <1>1, <1>5, <1>8 DEF BelongsTo, Free
  <2>3. Len(Sent') \in Nat /\ n <= Len(Sent') /\ \A i \in 1 .. n : Sent'[i] = Sent[i]
    BY <1>1, <1>7
  <2> QED
    BY <1>2, <1>6, <2>1, <2>2, <2>3, OthersAppend
<1>9. CASE t = u
  <2> DEFINE ms == Messages(cfg[t])
  <2>1. Len(ms) \in Nat \ {0} /\ k = Len(ms)
    <3>1. PICK l \in Nat : l = Len(cfg[t])
      BY CfgIs
    <3>2. cfg[t] \in Seq(Byte) /\ l # 0
      BY <1>2, <3>1 DEF Types
    <3>3. Len(ms) = Pieces(l) /\ Pieces(l) > 0
      BY <3>1, <3>2, CfgIs, PiecesFit, SMTT(30)
    <3> QED
      BY <1>3, <1>4, <1>7, <1>9, <3>3
  <2>2. todo[t] # <<>>
    BY <1>4, <1>9, <2>1
  <2>3. Waits(t)
    BY <1>6, <2>2 DEF TravelsBehind, Arrived
  <2>4. todo'[t] = <<>>
    <3>1. todo'[t] = SubSeq(todo[t], k + 1, Len(todo[t]))
      BY <1>1, <1>9 DEF Types
    <3>2. k + 1 \in Int /\ Len(todo[t]) \in Int /\ Len(todo[t]) < k + 1
      BY <1>3, <1>7, <1>9
    <3> QED
      BY <3>1, <3>2, SubSeqEmpty
  <2>5. PICK o \in Int : o = n
    BY <1>1
  <2>6. ASSUME NEW i \in 1 .. Len(Sent'), i \notin o + 1 .. o + Len(ms)
        PROVE  Free(t, Sent'[i].msg.body)
    <3>1. i \in 1 .. n /\ Sent'[i] = Sent[i]
      BY <1>1, <1>7, <2>1, <2>5, <2>6
    <3> QED
      BY <2>3, <3>1 DEF Waits
  <2>7. ASSUME NEW j \in 1 .. Len(ms) PROVE Sent'[o + j].msg = ms[j]
    <3>1. o + j \in n + 1 .. n + k /\ o + j - n = j
      BY <1>1, <1>7, <2>1, <2>5
    <3> QED
      BY <1>4, <1>5, <1>9, <3>1
  <2>8. o + Len(ms) \in 1 .. Len(Sent') /\ ~(o < 0)
    BY <1>1, <1>7, <2>1, <2>5
  <2>9. Unaccepted(t)' /\ Free(t, acc')
    BY <1>2, <2>3 DEF Waits, Unaccepted
  <2>10. TravelsBehind(t, o)'
    BY <1>2, <2>4, <2>6, <2>7, <2>8, <2>9 DEF TravelsBehind
  <2> QED
    BY <2>10
<1> QED
  BY <1>8, <1>9
(* A message of another reply comes. *)
LEMMA OthersCome ==
  ASSUME Types, Whole, Receive, NEW t \in Replies, cfg[t] # <<>>,
         Free(t, acc), Free(t, Sent[1].msg.body)
  PROVE  /\ Free(t, acc')
         /\ \/ accepted' = accepted
            \/ \E b \in Seq(Byte) : b # cfg[t] /\ accepted' = Append(accepted, b)
<1> DEFINE m == Head(line).msg
           kept == IF m.first THEN <<>> ELSE acc
           body == kept \o m.body
<1>1. m = Sent[1].msg /\ 1 \in 1 .. Len(Sent)
  BY TailTakes DEF Receive, txVars
<1>2. GetChunk(m)
  BY DEF Receive
<1>3. m.body \in Seq(Byte) /\ Free(t, m.body)
  BY <1>1, BodyTyped
<1>4. acc \in Seq(Byte) /\ <<>> \in Seq(Byte) /\ Len(<<>>) = 0 /\ Free(t, <<>>)
  BY DEF Types, Free
<1>5. kept \in Seq(Byte) /\ Free(t, kept)
  BY <1>4
<1> HIDE DEF kept, m
<1>6. body \in Seq(Byte)
  BY <1>3, <1>5, ConcatProperties
<1>7. Free(t, body)
  <2> SUFFICES ASSUME NEW j \in 1 .. Len(body) PROVE body[j][1] # t
    BY DEF Free
  <2>1. \/ j \in 1 .. Len(kept) /\ body[j] = kept[j]
        \/ j - Len(kept) \in 1 .. Len(m.body) /\ body[j] = m.body[j - Len(kept)]
    BY <1>3, <1>5, Joined
  <2> HIDE DEF body
  <2> QED
    BY <1>3, <1>5, <2>1 DEF Free
<1>8. body # cfg[t]
  <2>1. PICK l \in Nat : l = Len(cfg[t])
    BY CfgIs
  <2>2. cfg[t] = Content(t, l) /\ cfg[t] \in Seq(Byte) /\ l > 0
    BY <2>1, CfgIs DEF Types
  <2>3. 1 \in 1 .. l /\ \A j \in 1 .. l : Content(t, l)[j] = <<t, j>>
    <3>1. \A j \in 1 .. l : Content(t, l)[j] = <<t, j>>
      BY ContentIs
    <3> QED
      BY <2>2, <3>1
  <2>4. cfg[t][1][1] = t /\ 1 \in 1 .. Len(cfg[t])
    BY <2>1, <2>2, <2>3
  <2> HIDE DEF body
  <2> QED
    BY <1>7, <2>4 DEF Free
<1>9. /\ acc' \in {body, <<>>}
      /\ accepted' = accepted \/ accepted' = Append(accepted, body)
  BY <1>2 DEF GetChunk, body, kept
<1> HIDE DEF body
<1> QED
  BY <1>4, <1>6, <1>7, <1>8, <1>9

LEMMA StillUnaccepted ==
  ASSUME Types, NEW c, NEW b \in Seq(Byte), accepted' = Append(accepted, b)
  PROVE  /\ Len(accepted) \in Nat /\ Len(accepted') = Len(accepted) + 1
         /\ \A i \in 1 .. Len(accepted) : accepted'[i] = accepted[i]
         /\ accepted'[Len(accepted) + 1] = b
         /\ (b # c /\ \A i \in 1 .. Len(accepted) : accepted[i] # c) =>
              \A i \in 1 .. Len(accepted') : accepted'[i] # c
<1>1. accepted \in Seq(Seq(Byte)) /\ Len(accepted) \in Nat
  BY DEF Types
<1>2. /\ Len(accepted') = Len(accepted) + 1
      /\ \A i \in 1 .. Len(accepted) : accepted'[i] = accepted[i]
      /\ accepted'[Len(accepted) + 1] = b
  BY <1>1, AppendProperties
<1>3. ASSUME b # c, \A i \in 1 .. Len(accepted) : accepted[i] # c, NEW i \in 1 .. Len(accepted')
      PROVE  accepted'[i] # c
  <2>1. i \in 1 .. Len(accepted) \/ i = Len(accepted) + 1
    BY <1>1, <1>2
  <2> QED
    BY <1>2, <1>3, <2>1
<1> QED
  BY <1>1, <1>2, <1>3

(* The next message of a reply that is on its way comes. *)
LEMMA OwnComes ==
  ASSUME Types, Whole, Receive, NEW t \in Replies, NEW l \in Nat, l = Len(cfg[t]),
         NEW k \in 1 .. Pieces(l), Sent[1].msg = Messages(cfg[t])[k],
         k > 1 => started /\ acc = SubSeq(cfg[t], 1, (k - 1) * Mts)
  PROVE  /\ k = Pieces(l) => acc' = <<>> /\ accepted' = Append(accepted, cfg[t])
         /\ k < Pieces(l) => /\ acc' = SubSeq(cfg[t], 1, k * Mts) /\ started' = TRUE
                             /\ accepted' = accepted
<1> DEFINE m == Head(line).msg
           body == (IF m.first THEN <<>> ELSE acc) \o m.body
<1>1. m = Sent[1].msg /\ GetChunk(m)
  BY TailTakes DEF Receive, txVars
<1>2. cfg[t] = Content(t, l) /\ Pieces(l) \in Nat
  BY CfgIs
<1>3. m.body = Piece(t, l, k) /\ (m.first <=> k = 1) /\ (LastPkt(m) <=> k = Pieces(l))
  BY <1>1, <1>2, PartIs
<1>4. body = SubSeq(Content(t, l), 1, Bound(l, k))
  <2>1. (IF m.first THEN <<>> ELSE acc) = SubSeq(Content(t, l), 1, (k - 1) * Mts)
    <3>1. CASE k = 1
      BY <1>3, <3>1, Collects
    <3>2. CASE k > 1
      BY <1>2, <1>3, <3>2
    <3> QED
      BY <3>1, <3>2
  <2>2. body = SubSeq(Content(t, l), 1, (k - 1) * Mts) \o Piece(t, l, k)
    BY <1>3, <2>1
  <2> HIDE DEF body, m
  <2> QED
    BY <2>2, Collects
<1>5. m.first \/ started
  BY <1>3
<1> HIDE DEF m, body
<1>6. CASE k = Pieces(l)
  <2>1. accepted' = Append(accepted, body) /\ acc' = <<>>
    BY <1>1, <1>3, <1>6, <1>5 DEF GetChunk, body
  <2>2. body = cfg[t]
    BY <1>2, <1>4, <1>6, Collects
  <2>3. ~(k < Pieces(l))
    <3>1. k \in Int /\ k = Pieces(l)
      BY <1>6
    <3> QED
      BY ONLY <3>1
  <2> QED
    BY <2>1, <2>2, <2>3
<1>7. CASE k < Pieces(l)
  <2>1. acc' = body /\ started' = (m.first \/ started) /\ accepted' = accepted
    <3>1. ~(LastPkt(m) /\ (m.first \/ started))
      BY <1>2, <1>3, <1>7
    <3> QED
      BY <1>1, <3>1 DEF GetChunk, body
  <2>2. started' = TRUE
    <3>1. m.first \in BOOLEAN /\ started \in BOOLEAN
      <4>1. Head(line) \in Packet
        BY TailTakes DEF Receive, txVars
      <4> QED
        BY <4>1 DEF Packet, Message, Types, m
    <3> QED
      BY <1>5, <2>1, <3>1
  <2>3. body = SubSeq(cfg[t], 1, k * Mts)
    BY <1>2, <1>4, <1>7, Collects
  <2> QED
    BY <1>2, <1>7, <2>1, <2>2, <2>3
<1> QED
  BY <1>2, <1>6, <1>7

LEMMA ReceiveSomewhere ==
  ASSUME Types, Whole, Somewhere, Receive
  PROVE  Somewhere'
<1> DEFINE n == Len(Sent)
<1>1. /\ n \in Nat \ {0} /\ Len(Sent') = n - 1
      /\ \A i \in 1 .. n - 1 : Sent'[i] = Sent[i + 1]
  BY TailTakes DEF Receive, txVars
<1>2. UNCHANGED <<cfg, todo, mishaps>>
  BY DEF Receive, txVars
<1> SUFFICES ASSUME mishaps = {}, NEW t \in Replies, cfg[t] # <<>>
             PROVE  Waits(t)' \/ (\E o \in Int : TravelsBehind(t, o)') \/ Arrived(t)'
  BY <1>2 DEF Somewhere
<1> DEFINE ms == Messages(cfg[t])
<1>3. ASSUME \A i \in 1 .. n : Free(t, Sent[i].msg.body)
      PROVE  \A i \in 1 .. Len(Sent') : Free(t, Sent'[i].msg.body)
  <2>1. ASSUME NEW i \in 1 .. n - 1 PROVE i + 1 \in 1 .. n
    BY <1>1
  <2> QED
    BY <1>1, <1>3, <2>1
<1>4. ASSUME Unaccepted(t), Free(t, acc), Free(t, Sent[1].msg.body) PROVE Unaccepted(t)' /\ Free(t, acc')
  <2>1. Free(t, acc')
    BY <1>4, OthersCome
  <2>2. CASE accepted' = accepted
    BY <1>2, <1>4, <2>1, <2>2 DEF Unaccepted
  <2>3. CASE \E b \in Seq(Byte) : b # cfg[t] /\ accepted' = Append(accepted, b)
    <3>1. PICK b \in Seq(Byte) : b # cfg[t] /\ accepted' = Append(accepted, b)
      BY <2>3
    <3>2. \A i \in 1 .. Len(accepted') : accepted'[i] # cfg[t]
      BY <1>4, <3>1, StillUnaccepted DEF Unaccepted
    <3> QED
      BY <1>2, <2>1, <3>2 DEF Unaccepted
  <2> QED
    BY <1>4, <2>2, <2>3, OthersCome
<1>5. 1 \in 1 .. n
  BY <1>1
<1>6. CASE Waits(t)
  <2>1. Free(t, Sent[1].msg.body) /\ Free(t, acc) /\ Unaccepted(t)
    BY <1>5, <1>6 DEF Waits
  <2>2. Waits(t)'
    BY <1>2, <1>3, <1>4, <1>6, <2>1 DEF Waits
  <2> QED
    BY <2>2
<1>7. CASE Arrived(t)
  <2>1. Free(t, Sent[1].msg.body) /\ Free(t, acc)
    BY <1>5, <1>7 DEF Arrived
  <2>2. PICK i \in 1 .. Len(accepted) : /\ accepted[i] = cfg[t]
                                       /\ \A j \in 1 .. Len(accepted) \ {i} : accepted[j] # cfg[t]
    BY <1>7 DEF Arrived
  <2>3. i \in 1 .. Len(accepted') /\ accepted'[i] = cfg[t]
        /\ \A j \in 1 .. Len(accepted') \ {i} : accepted'[j] # cfg[t]
    <3>1. CASE accepted' = accepted
      BY <2>2, <3>1
    <3>2. CASE \E b \in Seq(Byte) : b # cfg[t] /\ accepted' = Append(accepted, b)
      <4>1. PICK b \in Seq(Byte) : b # cfg[t] /\ accepted' = Append(accepted, b)
        BY <3>2
      <4>2. /\ Len(accepted) \in Nat /\ Len(accepted') = Len(accepted) + 1
            /\ \A j \in 1 .. Len(accepted) : accepted'[j] = accepted[j]
            /\ accepted'[Len(accepted) + 1] = b
        BY <4>1, StillUnaccepted
      <4>3. ASSUME NEW j \in 1 .. Len(accepted') \ {i} PROVE accepted'[j] # cfg[t]
        <5>1. (j \in 1 .. Len(accepted) /\ j # i) \/ j = Len(accepted) + 1
          BY <4>2
        <5> QED
          BY <2>2, <4>1, <4>2, <5>1
      <4> QED
        BY <2>2, <4>2, <4>3
    <3> QED
      BY <2>1, <3>1, <3>2, OthersCome
  <2>4. Free(t, acc')
    BY <2>1, OthersCome
  <2>5. Arrived(t)'
    BY <1>2, <1>3, <1>7, <2>3, <2>4 DEF Arrived
  <2> QED
    BY <2>5
<1>8. CASE \E o \in Int : TravelsBehind(t, o)
  <2>1. PICK o \in Int : TravelsBehind(t, o)
    BY <1>8
  <2>2. /\ todo[t] = <<>> /\ Unaccepted(t)
        /\ o + Len(ms) \in 1 .. n
        /\ \A k \in 1 .. Len(ms) : o + k >= 1 => Sent[o + k].msg = ms[k]
        /\ \A i \in 1 .. n : i \notin o + 1 .. o + Len(ms) => Free(t, Sent[i].msg.body)
        /\ IF o < 0 THEN started /\ acc = SubSeq(cfg[t], 1, (0 - o) * Mts) ELSE Free(t, acc)
    BY <2>1 DEF TravelsBehind
  <2>3. PICK l \in Nat : l = Len(cfg[t])
    BY CfgIs
  <2>4. Len(ms) = Pieces(l) /\ Pieces(l) \in Nat \ {0} /\ cfg[t] \in Seq(Byte)
    <3>1. cfg[t] \in Seq(Byte) /\ l > 0
      BY <2>3 DEF Types
    <3> QED
      BY <2>3, <3>1, CfgIs, PiecesFit
  <2> HIDE DEF n, ms
  <2>5. ASSUME NEW i \in 1 .. n - 1, i \notin o .. o + Len(ms) - 1
        PROVE  Free(t, Sent'[i].msg.body)
    <3>1. i + 1 \in 1 .. n /\ i + 1 \notin o + 1 .. o + Len(ms)
      BY <1>1, <2>4, <2>5
    <3> QED
      BY <1>1, <2>2, <3>1
  <2>6. ASSUME NEW k \in 1 .. Len(ms), o - 1 + k >= 1 PROVE Sent'[o - 1 + k].msg = ms[k]
    <3>1. o - 1 + k \in 1 .. n - 1 /\ o - 1 + k + 1 = o + k /\ o + k >= 1
      BY <1>1, <2>2, <2>4, <2>6, SMTT(30)
    <3>2. Sent'[o - 1 + k] = Sent[o + k]
      BY <1>1, <3>1
    <3> QED
      BY <2>2, <3>1, <3>2
  <2>7. CASE o >= 1
    <3>1. Free(t, acc) /\ Free(t, Sent[1].msg.body)
      BY <1>5, <2>2, <2>7
    <3>2. Unaccepted(t)' /\ Free(t, acc')
      BY <1>4, <2>2, <3>1
    <3>3. TravelsBehind(t, o - 1)'
      <4>1. o - 1 + Len(ms) \in 1 .. n - 1 /\ ~(o - 1 < 0)
        BY <1>1, <2>2, <2>4, <2>7
      <4> QED
        BY <1>1, <1>2, <2>2, <2>5, <2>6, <3>2, <4>1 DEF TravelsBehind, ms
    <3> QED
      BY <3>3
  <2>8. CASE o <= 0
    <3>1. PICK k \in Nat : k = 1 - o
      BY <2>8
    <3>2. k \in 1 .. Pieces(l) /\ Sent[1].msg = ms[k]
      BY <2>2, <2>4, <2>8, <3>1
    <3>3. k > 1 => started /\ acc = SubSeq(cfg[t], 1, (k - 1) * Mts)
      <4>1. k > 1 => o < 0 /\ 0 - o = k - 1
        BY <3>1
      <4> QED
        BY <2>2, <4>1
    <3>4. /\ k = Pieces(l) => acc' = <<>> /\ accepted' = Append(accepted, cfg[t])
          /\ k < Pieces(l) => /\ acc' = SubSeq(cfg[t], 1, k * Mts) /\ started' = TRUE
                              /\ accepted' = accepted
      BY <2>3, <3>2, <3>3, OwnComes DEF ms
    <3>5. CASE k = Pieces(l)
      <4>1. acc' = <<>> /\ accepted' = Append(accepted, cfg[t])
        BY <3>4, <3>5
      <4>2. \A i \in 1 .. n - 1 : Free(t, Sent'[i].msg.body)
        BY <1>1, <2>4, <2>5, <3>1, <3>5
      <4>3. /\ Len(accepted) \in Nat /\ Len(accepted') = Len(accepted) + 1
            /\ \A j \in 1 .. Len(accepted) : accepted'[j] = accepted[j]
            /\ accepted'[Len(accepted) + 1] = cfg[t]
        BY <2>4, <4>1, StillUnaccepted
      <4>4. PICK e \in 1 .. Len(accepted') : e = Len(accepted) + 1
        BY <4>3
      <4>5. ASSUME NEW j \in 1 .. Len(accepted') \ {e} PROVE accepted'[j] # cfg[t]
        <5>1. j \in 1 .. Len(accepted) /\ accepted'[j] = accepted[j]
          BY <4>3, <4>4
        <5> QED
          BY <2>2, <5>1 DEF Unaccepted
      <4>6. Free(t, acc')
        BY <4>1 DEF Free
      <4> QED
        BY <1>1, <1>2, <2>2, <4>2, <4>3, <4>4, <4>5, <4>6 DEF Arrived
    <3>6. CASE k < Pieces(l)
      <4>1. acc' = SubSeq(cfg[t], 1, k * Mts) /\ started' = TRUE /\ accepted' = accepted
        BY <3>4, <3>6
      <4>2. o - 1 + Len(ms) \in 1 .. n - 1 /\ o - 1 < 0 /\ 0 - (o - 1) = k
        BY <1>1, <2>2, <2>4, <2>8, <3>1, <3>6
      <4>3. Unaccepted(t)'
        BY <1>2, <2>2, <4>1 DEF Unaccepted
      <4>4. IF o - 1 < 0 THEN started' /\ acc' = SubSeq(cfg'[t], 1, (0 - (o - 1)) * Mts) ELSE Free(t, acc')
        BY <1>2, <4>1, <4>2
      <4>5. TravelsBehind(t, o - 1)'
        <5>1. Messages(cfg'[t]) = ms /\ Len(Sent') = n - 1 /\ todo'[t] = <<>>
          BY <1>1, <1>2, <2>2 DEF ms, n
        <5>2. o - 1 + Len(ms) \in 1 .. Len(Sent')
          BY <4>2, <5>1
        <5>3. \A x \in 1 .. Len(ms) : o - 1 + x >= 1 => Sent'[o - 1 + x].msg = ms[x]
          BY <2>6
        <5>4. ASSUME NEW i \in 1 .. Len(Sent'), i \notin (o - 1) + 1 .. o - 1 + Len(ms)
              PROVE  Free(t, Sent'[i].msg.body)
          <6>1. (o - 1) + 1 = o /\ o - 1 + Len(ms) = o + Len(ms) - 1
            BY <2>4
          <6> QED
            BY <2>5, <5>1, <5>4, <6>1
        <5> QED
          BY <4>3, <4>4, <5>1, <5>2, <5>3, <5>4 DEF TravelsBehind
      <4> QED
        BY <4>5
    <3> QED
      BY <2>4, <3>2, <3>5, <3>6
  <2> QED
    BY <2>7, <2>8
<1> QED
  BY <1>6, <1>7, <1>8 DEF Somewhere
LEMMA NextSomewhere ==
  ASSUME Types, InOrder, Whole, Whole', Somewhere, [Next]_vars
  PROVE  Somewhere'
<1>1. ASSUME Sent' = Sent, UNCHANGED <<cfg, todo, acc, started, accepted, mishaps>>
      PROVE  Somewhere'
  <2>1. Len(Sent') \in Nat /\ Len(Sent) <= Len(Sent') /\ Len(Sent) + 1 .. Len(Sent') = {}
    BY <1>1, SentIs
  <2> SUFFICES ASSUME mishaps = {}, NEW t \in Replies, cfg[t] # <<>>
               PROVE  Waits(t)' \/ (\E o \in Int : TravelsBehind(t, o)') \/ Arrived(t)'
    BY <1>1 DEF Somewhere
  <2>2. Waits(t) \/ (\E o \in Int : TravelsBehind(t, o)) \/ Arrived(t)
    BY DEF Somewhere
  <2> QED
    BY <1>1, <2>1, <2>2, OthersAppend
<1>2. CASE \E t \in Replies, n \in Lens : Send(t, n)
  BY <1>2, SendSomewhere
<1>3. CASE \E t \in Replies : Check(t)
  <2>1. PICK t \in Replies : Check(t)
    BY <1>3
  <2>2. CASE Len(ring) = room
    <3>1. "refused" \in mishaps'
      BY <2>1, <2>2 DEF Check
    <3> QED
      BY <3>1 DEF Somewhere
  <2>3. CASE Len(ring) # room
    BY <1>1, <2>1, <2>3 DEF Check, Sent, rxVars
  <2> QED
    BY <2>2, <2>3
<1>4. CASE \E t \in Replies : Push(t)
  BY <1>4, PushSomewhere
<1>5. CASE Complete
  <2>1. UNCHANGED <<cfg, todo, mishaps, rxVars>> /\ Sent' = Sent
    BY <1>5, CompleteKeeps DEF Complete
  <2> QED
    BY <1>1, <2>1 DEF rxVars
<1>6. CASE DropUnsent
  <2>1. "dropped" \in mishaps'
    BY <1>6 DEF DropUnsent
  <2> QED
    BY <2>1 DEF Somewhere
<1>7. CASE Lose
  <2>1. "lost" \in mishaps'
    BY <1>7 DEF Lose
  <2> QED
    BY <2>1 DEF Somewhere
<1>8. CASE Receive
  BY <1>8, ReceiveSomewhere
<1>9. CASE UNCHANGED vars
  <2>1. UNCHANGED <<cfg, todo, mishaps, rxVars>> /\ Sent' = Sent
    BY <1>9 DEF vars, txVars, Sent
  <2> QED
    BY <1>1, <2>1 DEF rxVars
<1> QED
  BY <1>2, <1>3, <1>4, <1>5, <1>6, <1>7, <1>8, <1>9 DEF Next

-----------------------------------------------------------------------------
(* The inductive invariant holds in every state. *)
THEOREM Invariant == Spec => []IInv
<1>1. Init => IInv
  BY InitTypes, InitNumbered, InitOrder, InitWhole, InitSomewhere DEF IInv
<1>2. IInv /\ [Next]_vars => IInv'
  <2> SUFFICES ASSUME IInv, [Next]_vars PROVE IInv'
    OBVIOUS
  <2>1. Types /\ Numbered /\ InOrder /\ Whole /\ Somewhere
    BY DEF IInv
  <2>2. Types' /\ Numbered' /\ InOrder' /\ Whole'
    BY <2>1, NextTypes, NextNumbered, NextOrder, NextWhole
  <2>3. Somewhere'
    BY <2>1, <2>2, NextSomewhere
  <2> QED
    BY <2>2, <2>3 DEF IInv
<1> QED
  BY <1>1, <1>2, PTL DEF Spec

(* The types and the bounds of the ring. *)
THEOREM Typed == Spec => []TypeOK
<1>1. IInv => TypeOK
  <2> SUFFICES ASSUME IInv PROVE TypeOK
    OBVIOUS
  <2>1. Types /\ Numbered
    BY DEF IInv
  <2> QED
    BY <2>1 DEF Types, Numbered, TypeOK
<1> QED
  BY <1>1, Invariant, PTL

(* recv_pkt() says PacketLost exactly of the packets before which some are *)
(* missing, unless as many are missing as there are numbers: for every     *)
(* modulus, however packets are lost, dropped, refused and split.          *)
THEOREM LossIsSeen == Spec => []LossFlagged
<1>1. IInv => LossFlagged
  BY DEF IInv, Numbered, LossFlagged
<1> QED
  BY <1>1, Invariant, PTL

(* Whatever is lost or mixed up, getEncCfgChunk() accepts a configuration  *)
(* that begins with a first byte and keeps the bytes of a reply in order.  *)
THEOREM AcceptedInOrder == Spec => []Framed
<1>1. IInv => Framed
  <2> SUFFICES ASSUME IInv, NEW i \in DOMAIN accepted
               PROVE  LET c == accepted[i] IN
                      /\ c # <<>> /\ c[1][2] = 1
                      /\ \A j, k \in DOMAIN c : j < k /\ c[j][1] = c[k][1] => c[j][2] < c[k][2]
    BY DEF Framed
  <2>1. Types /\ InOrder
    BY DEF IInv
  <2>2. i \in 1 .. Len(accepted) /\ accepted[i] \in Seq(Byte) /\ DOMAIN accepted[i] = 1 .. Len(accepted[i])
    BY <2>1 DEF Types
  <2>3. Sorted(accepted[i]) /\ Opens(accepted[i])
    BY <2>1, <2>2 DEF InOrder
  <2> QED
    BY <2>2, <2>3 DEF Sorted, Opens
<1> QED
  BY <1>1, Invariant, PTL

(* As long as no packet is lost and no reply is pushed in two parts, what  *)
(* is accepted is what a thread sent, byte for byte: a reply that is cut   *)
(* short by drop_unsent() or refused never gets into another.              *)
THEOREM WholeOrNothing == Spec => []AcceptedUnlessSplit
<1>1. IInv => AcceptedUnlessSplit
  BY DEF IInv, Whole, AcceptedUnlessSplit
<1> QED
  BY <1>1, Invariant, PTL

(* If nothing goes wrong, then once nothing is left to send or to receive  *)
(* every configuration that is not empty has been accepted exactly once.   *)
THEOREM ExactlyOnce == Spec => []AllArrive
<1>1. IInv => AllArrive
  <2> SUFFICES ASSUME IInv, \A x \in Replies : todo[x] = <<>>, ring = <<>>, line = <<>>, mishaps = {},
                      NEW t \in Replies, cfg[t] # <<>>
               PROVE  \E i \in DOMAIN accepted : /\ accepted[i] = cfg[t]
                                                /\ \A j \in DOMAIN accepted \ {i} : accepted[j] # cfg[t]
    BY DEF AllArrive
  <2>1. Types /\ Whole /\ Somewhere
    BY DEF IInv
  <2>2. Len(Sent) = 0
    BY DEF Sent
  <2>3. ~ \E o \in Int : TravelsBehind(t, o)
    BY <2>2 DEF TravelsBehind
  <2>4. Messages(cfg[t]) # <<>>
    <3>1. PICK l \in Nat : l = Len(cfg[t])
      BY <2>1, CfgIs
    <3>2. l > 0
      BY <2>1, <3>1 DEF Types
    <3>3. Len(Messages(cfg[t])) > 0
      BY <2>1, <3>1, <3>2, CfgIs, PiecesFit
    <3> QED
      BY <3>3
  <2>5. ~Waits(t)
    BY <2>4 DEF Waits
  <2>6. Arrived(t)
    BY <2>1, <2>3, <2>5 DEF Somewhere
  <2>7. DOMAIN accepted = 1 .. Len(accepted)
    BY <2>1 DEF Types
  <2> QED
    BY <2>6, <2>7 DEF Arrived
<1> QED
  BY <1>1, Invariant, PTL
=============================================================================
