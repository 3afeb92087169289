---------------------------- MODULE CommRxProofs ----------------------------
(***************************************************************************)
(* Proofs about CommRx for every size of packets and of buffers (a buffer  *)
(* holds a packet), every byte stream, and every way the port cuts it.     *)
(***************************************************************************)
EXTENDS CommRx, SequenceTheorems, WellFoundedInduction, TLAPS

Buffer == [Offsets -> Bytes]

(* The bytes before Pos are done with: the bytes left of the other buffer  *)
(* come before those of the current one.                                   *)
Pos == seen - pend - remains + cur

Types ==
  /\ stream \in [1 .. MaxBytes -> Bytes] /\ seen \in 0 .. MaxBytes
  /\ inbuf \in [0 .. 1 -> Buffer] /\ ff \in 0 .. 1
  /\ pend \in 0 .. BufLen /\ cur \in 0 .. pend /\ remains \in 0 .. PktLen - 1
  /\ pc \in {"wait", "loop", "straddle", "scan", "rearm", "stopped"}
  /\ got \in Seq(Seq(Bytes))

(* The two buffers hold the bytes of the stream from Pos on. *)
Buffered ==
  /\ remains + pend <= seen
  /\ \A o \in 0 .. pend - 1 : inbuf[ff][o] = stream[seen - pend + o + 1]
  /\ \A o \in BufLen - remains .. BufLen - 1 : inbuf[1 - ff][o] = stream[seen - pend - BufLen + o + 1]

(* Bytes are left of the other buffer only while none of the current one   *)
(* is done with, and less than a packet is left when the loop ends.        *)
Left == /\ remains > 0 => cur = 0
        /\ pc = "scan" => remains = 0
        /\ pc = "straddle" => remains > 0 /\ remains + pend >= PktLen
        /\ pc \in {"wait", "rearm"} => remains + pend - cur < PktLen

(* Among the first n bytes of the stream, the packets behind the first p.  *)
Item(s, g, i) == IF i + PktLen - 1 > Len(s) THEN <<>>
                 ELSE IF s[i] = Pre THEN <<SubSeq(s, i, i + PktLen - 1)>> \o g[i + PktLen]
                 ELSE g[i + 1]
Positions(s) == 1 .. Len(s) + PktLen
Finds(s, g) == g = [i \in Positions(s) |-> Item(s, g, i)]
From(s) == CHOOSE g : Finds(s, g)
Prefix(n) == SubSeq(stream, 1, n)
Found(n, p) == From(Prefix(n))[p + 1]

(* However the stream goes on, its packets are those that were found and   *)
(* those behind Pos.                                                       *)
Parsed == \A n \in seen .. MaxBytes : Found(n, 0) = got \o Found(n, Pos)

IInv == Types /\ Buffered /\ Left /\ Parsed
-----------------------------------------------------------------------------
(* Every set of natural numbers has a least one. *)
Less == {ss \in Nat \X Nat : ss[1] < ss[2]}

LEMMA Least == ASSUME NEW T \in SUBSET Nat, T # {} PROVE \E x \in T : \A y \in T : x <= y
<1>1. IsWellFoundedOn(Less, Nat)
  BY NatLessThanWellFounded, Zenon DEF OpToRel, Less
<1>2. T \subseteq Nat
  OBVIOUS
<1>3. PICK x \in T : \A y \in T : ~(<<y, x>> \in Less)
  BY ONLY <1>1, <1>2, WFMin, T # {}, Zenon
<1>4. ASSUME NEW y \in T PROVE x <= y
  <2>1. x \in Nat /\ y \in Nat /\ ~(<<y, x>> \in Less)
    BY <1>3
  <2> QED
    BY <2>1 DEF Less
<1> QED
  BY <1>4

(* std::find() returns the first preamble, or the end. *)
LEMMA FindIs ==
  ASSUME NEW b, NEW from \in Nat, NEW to \in Nat, from <= to
  PROVE  /\ Find(b, from, to) \in from .. to
         /\ Find(b, from, to) = to \/ b[Find(b, from, to)] = Pre
         /\ \A j \in from .. Find(b, from, to) - 1 : b[j] # Pre
<1> DEFINE T == {i \in from .. to : i = to \/ b[i] = Pre}
<1>1. T \in SUBSET Nat /\ to \in T
  OBVIOUS
<1>2. PICK x \in T : \A y \in T : x <= y
  BY <1>1, Least
<1>3. \A j \in from .. x - 1 : b[j] # Pre
  <2> SUFFICES ASSUME NEW j \in from .. x - 1, b[j] = Pre PROVE FALSE
    OBVIOUS
  <2>1. x \in from .. to /\ j \in T
    BY <1>2
  <2> QED
    BY <1>2, <2>1
<1>4. \E i \in from .. to : (i = to \/ b[i] = Pre) /\ \A j \in from .. i - 1 : b[j] # Pre
  BY <1>2, <1>3
<1> HIDE DEF T
<1> QED
  BY <1>4, Zenon DEF Find
-----------------------------------------------------------------------------
(* The packets of a stream: the recursion is well defined, from the end of *)
(* the stream backwards.                                                   *)
LEMMA FindsExists == ASSUME NEW s \in Seq(Bytes) PROVE \E g : Finds(s, g)
<1> DEFINE L == Len(s) + PktLen
           Good(m) == \E g : /\ g = [i \in Positions(s) |-> g[i]]
                              /\ \A i \in Positions(s) : i >= m => g[i] = Item(s, g, i)
           T == {d \in Nat : d <= L /\ ~Good(L + 1 - d)}
<1>1. L \in Nat /\ Positions(s) = 1 .. L /\ Len(s) \in Nat /\ PktLen \in Nat \ {0}
  BY CommRxAssumption DEF Positions
<1>2. SUFFICES Good(1)
  <2>1. PICK g : g = [i \in Positions(s) |-> g[i]] /\ \A i \in Positions(s) : i >= 1 => g[i] = Item(s, g, i)
    BY <1>2
  <2>2. \A i \in Positions(s) : g[i] = Item(s, g, i)
    <3>1. \A i \in Positions(s) : i >= 1
      BY ONLY <1>1, Positions(s) = 1 .. L, L \in Nat DEF Positions
    <3> QED
      BY ONLY <2>1, <3>1, Zenon
  <2>3. g = [i \in Positions(s) |-> Item(s, g, i)]
    BY ONLY <2>1, <2>2
  <2> QED
    BY <2>3 DEF Finds
<1>3. SUFFICES ASSUME T # {} PROVE FALSE
  <2>1. L \in Nat /\ L <= L /\ L + 1 - L = 1
    BY <1>1
  <2> QED
    BY <1>3, <2>1
<1>4. T \in SUBSET Nat
  OBVIOUS
<1>5. PICK x \in T : \A y \in T : x <= y
  BY <1>3, <1>4, Least
<1>6. x \in Nat /\ x <= L /\ ~Good(L + 1 - x)
  BY <1>5
<1>7. CASE x = 0
  <2> DEFINE g == [i \in Positions(s) |-> i]
  <2>1. \A i \in Positions(s) : i >= L + 1 - x => g[i] = Item(s, g, i)
    BY <1>1, <1>7
  <2>2. g = [i \in Positions(s) |-> g[i]]
    OBVIOUS
  <2> QED
    BY <1>6, <2>1, <2>2
<1>8. CASE x > 0
  <2>1. PICK m \in Positions(s) : m = L + 1 - x
    BY <1>1, <1>6, <1>8
  <2>2. Good(m + 1)
    <3>1. x - 1 \in Nat /\ x - 1 <= L /\ ~(x <= x - 1) /\ L + 1 - (x - 1) = m + 1
      BY <1>1, <1>6, <1>8, <2>1
    <3> QED
      BY <1>5, <3>1
  <2>3. PICK g : g = [i \in Positions(s) |-> g[i]] /\ \A i \in Positions(s) : i >= m + 1 => g[i] = Item(s, g, i)
    BY <2>2
  <2> DEFINE h == [i \in Positions(s) |-> IF i = m THEN Item(s, g, m) ELSE g[i]]
  <2>4. \A i \in Positions(s) : i # m => h[i] = g[i]
    OBVIOUS
  <2>5. h[m] = Item(s, g, m) /\ h = [i \in Positions(s) |-> h[i]]
    OBVIOUS
  <2> HIDE DEF h
  <2>6. \A i \in Positions(s) : i >= m => Item(s, h, i) = Item(s, g, i)
    <3> SUFFICES ASSUME NEW i \in Positions(s), i >= m PROVE Item(s, h, i) = Item(s, g, i)
      OBVIOUS
    <3>1. CASE i + PktLen - 1 > Len(s)
      BY <3>1 DEF Item
    <3>2. CASE ~(i + PktLen - 1 > Len(s))
      <4>1. i + PktLen \in Positions(s) /\ i + 1 \in Positions(s) /\ i + PktLen # m /\ i + 1 # m
        BY <1>1, <2>1, <3>2
      <4> QED
        BY <2>4, <3>2, <4>1 DEF Item
    <3> QED
      BY <3>1, <3>2
  <2>7. \A i \in Positions(s) : i >= m => h[i] = Item(s, h, i)
    <3> SUFFICES ASSUME NEW i \in Positions(s), i >= m PROVE h[i] = Item(s, g, i)
      BY <2>6
    <3>1. CASE i = m
      BY <2>5, <3>1
    <3>2. CASE i # m
      <4>1. i >= m + 1
        BY <1>1, <2>1, <3>2
      <4> QED
        BY <2>3, <2>4, <3>2, <4>1
    <3> QED
      BY <3>1, <3>2
  <2> QED
    BY <1>6, <2>1, <2>5, <2>7
<1> QED
  BY <1>6, <1>7, <1>8

LEMMA FromIs == ASSUME NEW s \in Seq(Bytes)
                PROVE  /\ \A i \in Positions(s) : From(s)[i] = Item(s, From(s), i)
                       /\ PacketsOf(s) = From(s)[1]
<1>1. PICK g : Finds(s, g)
  BY FindsExists
<1>2. Finds(s, From(s))
  BY <1>1, Zenon DEF From
<1>3. PacketsOf(s) = From(s)[1]
  BY Zenon DEF PacketsOf, From, Finds, Item, Positions
<1> QED
  BY <1>2, <1>3, Zenon DEF Finds

LEMMA FromType == ASSUME NEW s \in Seq(Bytes), NEW i \in Positions(s)
                  PROVE  From(s)[i] \in Seq(Seq(Bytes))
<1> DEFINE L == Len(s) + PktLen
           T == {d \in Nat : d < L /\ From(s)[L - d] \notin Seq(Seq(Bytes))}
<1>1. L \in Nat /\ Positions(s) = 1 .. L /\ Len(s) \in Nat /\ PktLen \in Nat \ {0}
  BY CommRxAssumption DEF Positions
<1>2. SUFFICES ASSUME T # {} PROVE FALSE
  <2>1. L - i \in Nat /\ L - i < L /\ L - (L - i) = i
    BY <1>1
  <2> QED
    BY <1>2, <2>1
<1>3. T \in SUBSET Nat
  OBVIOUS
<1>4. PICK x \in T : \A y \in T : x <= y
  BY <1>2, <1>3, Least
<1>5. PICK m \in Positions(s) : m = L - x /\ x \in Nat /\ From(s)[m] \notin Seq(Seq(Bytes))
  BY <1>1, <1>4
<1>6. \A k \in Positions(s) : k > m => From(s)[k] \in Seq(Seq(Bytes))
  <2> SUFFICES ASSUME NEW k \in Positions(s), k > m, From(s)[k] \notin Seq(Seq(Bytes)) PROVE FALSE
    OBVIOUS
  <2>1. L - k \in T /\ ~(x <= L - k)
    <3>1. L - k \in Nat /\ L - k < L /\ L - (L - k) = k
      BY <1>1
    <3> QED
      BY <1>1, <1>5, <3>1
  <2> QED
    BY <1>4, <2>1
<1>7. From(s)[m] = Item(s, From(s), m)
  BY FromIs
<1>8. CASE m + PktLen - 1 > Len(s)
  BY <1>5, <1>7, <1>8 DEF Item
<1>9. CASE ~(m + PktLen - 1 > Len(s))
  <2>1. m + PktLen \in Positions(s) /\ m + 1 \in Positions(s) /\ m + PktLen > m /\ m + 1 > m
    BY <1>1, <1>9
  <2>2. SubSeq(s, m, m + PktLen - 1) \in Seq(Bytes)
    BY <1>1, <1>9, SubSeqProperties
  <2>3. <<SubSeq(s, m, m + PktLen - 1)>> \o From(s)[m + PktLen] \in Seq(Seq(Bytes))
    BY <1>6, <2>1, <2>2, ConcatProperties
  <2>4. From(s)[m + 1] \in Seq(Seq(Bytes))
    BY <1>6, <2>1
  <2> QED
    BY <1>5, <1>7, <1>9, <2>3, <2>4 DEF Item
<1> QED
  BY <1>8, <1>9
-----------------------------------------------------------------------------
(* What the handler needs to know of the packets of the stream. *)
LEMMA PrefixIs ==
  ASSUME Types, NEW n \in 0 .. MaxBytes
  PROVE  /\ Prefix(n) \in Seq(Bytes) /\ Len(Prefix(n)) = n
         /\ \A i \in 1 .. n : Prefix(n)[i] = stream[i]
         /\ n \in Nat /\ Positions(Prefix(n)) = 1 .. n + PktLen
<1>1. stream \in Seq(Bytes) /\ Len(stream) = MaxBytes /\ MaxBytes \in Nat
  BY CommRxAssumption, IsASeq DEF Types
<1>2. /\ Prefix(n) \in Seq(Bytes) /\ Len(Prefix(n)) = n
      /\ \A i \in 1 .. n : Prefix(n)[i] = stream[i]
  <2>1. CASE n = 0
    BY <1>1, <2>1, SubSeqEmpty DEF Prefix
  <2>2. CASE n > 0
    BY <1>1, <2>2, SubSeqProperties DEF Prefix
  <2> QED
    BY <1>1, <2>1, <2>2
<1> QED
  BY <1>1, <1>2 DEF Positions

LEMMA FoundIs ==
  ASSUME Types, NEW n \in 0 .. MaxBytes, NEW p \in 0 .. n
  PROVE  /\ Found(n, p) \in Seq(Seq(Bytes))
         /\ PacketsOf(Prefix(n)) = Found(n, 0)
         /\ p + 1 \in Positions(Prefix(n))
         /\ Found(n, p) = Item(Prefix(n), From(Prefix(n)), p + 1)
<1>1. p + 1 \in Positions(Prefix(n))
  BY PrefixIs, CommRxAssumption
<1> QED
  BY <1>1, PrefixIs, FromIs, FromType DEF Found

LEMMA FoundNone ==
  ASSUME Types, NEW n \in 0 .. MaxBytes, NEW p \in 0 .. n, n - p < PktLen
  PROVE  Found(n, p) = <<>>
<1>1. Len(Prefix(n)) = n /\ Found(n, p) = Item(Prefix(n), From(Prefix(n)), p + 1)
  BY FoundIs, PrefixIs
<1>2. p + 1 + PktLen - 1 > n
  BY CommRxAssumption
<1> QED
  BY <1>1, <1>2 DEF Item

(* Bytes that are no preamble do not matter. *)
LEMMA FoundSkip ==
  ASSUME Types, NEW n \in 0 .. MaxBytes, NEW p \in 0 .. n, NEW q \in p .. n,
         \A k \in p + 1 .. q : stream[k] # Pre
  PROVE  Found(n, p) = Found(n, q)
<1> DEFINE T == {k \in Nat : k >= p /\ k <= q /\ Found(n, k) # Found(n, p)}
<1>1. SUFFICES ASSUME T # {} PROVE FALSE
  OBVIOUS
<1>2. T \in SUBSET Nat
  OBVIOUS
<1>3. PICK x \in T : \A y \in T : x <= y
  BY <1>1, <1>2, Least
<1>4. x \in Nat /\ x > p /\ x <= q /\ Found(n, x) # Found(n, p) /\ n \in Nat /\ p \in Nat /\ q \in Nat
  BY <1>3
<1>5. PICK z \in Nat : z = x - 1
  BY <1>4
<1>6. Found(n, z) = Found(n, p)
  <2>1. z >= p /\ z <= q /\ ~(x <= z)
    BY <1>4, <1>5
  <2> QED
    BY <1>3, <2>1
<1>7. z \in 0 .. n /\ x \in 0 .. n /\ z + 1 = x /\ x \in 1 .. n /\ x \in p + 1 .. q
  BY <1>4, <1>5
<1>8. Prefix(n)[x] # Pre /\ Len(Prefix(n)) = n
  BY <1>7, PrefixIs
<1>9. Found(n, z) = Item(Prefix(n), From(Prefix(n)), x)
  BY <1>7, FoundIs
<1>10. CASE x + PktLen - 1 > n
  <2>1. Found(n, z) = <<>>
    BY <1>8, <1>9, <1>10 DEF Item
  <2>2. Found(n, x) = <<>>
    <3>1. n - x < PktLen
      BY <1>4, <1>10, CommRxAssumption
    <3> QED
      BY <1>7, <3>1, FoundNone
  <2> QED
    BY <1>4, <1>6, <2>1, <2>2
<1>11. CASE ~(x + PktLen - 1 > n)
  BY <1>4, <1>6, <1>8, <1>9, <1>11 DEF Item, Found
<1> QED
  BY <1>10, <1>11

(* A preamble and what is behind it is a packet. *)
Packet(p) == [k \in 1 .. PktLen |-> stream[p + k]]

LEMMA FoundPacket ==
  ASSUME Types, NEW n \in 0 .. MaxBytes, NEW p \in 0 .. n, p + PktLen <= n, stream[p + 1] = Pre
  PROVE  /\ Packet(p) \in Seq(Bytes)
         /\ Found(n, p) = <<Packet(p)>> \o Found(n, p + PktLen)
<1>1. /\ n \in Nat /\ p \in Nat /\ PktLen \in Nat \ {0} /\ MaxBytes \in Nat /\ n <= MaxBytes
      /\ Len(Prefix(n)) = n /\ Prefix(n) \in Seq(Bytes)
      /\ \A i \in 1 .. n : Prefix(n)[i] = stream[i]
  BY PrefixIs, CommRxAssumption
<1>2. \A k \in 1 .. PktLen : p + k \in 1 .. n /\ stream[p + k] \in Bytes
  BY <1>1 DEF Types
<1>3. Packet(p) \in Seq(Bytes) /\ Len(Packet(p)) = PktLen
  BY <1>1, <1>2, IsASeq DEF Packet
<1>4. PICK j \in p + 1 .. n : j = p + 1 + PktLen - 1 /\ p + 1 \in 1 .. n
  BY <1>1
<1>5. SubSeq(Prefix(n), p + 1, j) = Packet(p)
  <2>1. /\ SubSeq(Prefix(n), p + 1, j) \in Seq(Bytes) /\ Len(SubSeq(Prefix(n), p + 1, j)) = PktLen
        /\ \A i \in 1 .. PktLen : SubSeq(Prefix(n), p + 1, j)[i] = Prefix(n)[p + 1 + i - 1]
    BY <1>1, <1>4, SubSeqProperties
  <2>2. \A i \in 1 .. PktLen : SubSeq(Prefix(n), p + 1, j)[i] = Packet(p)[i]
    BY <1>1, <1>2, <2>1 DEF Packet
  <2> QED
    BY <1>3, <2>1, <2>2, SeqEqual
<1>6. Found(n, p) = Item(Prefix(n), From(Prefix(n)), p + 1)
  BY FoundIs
<1>7. Prefix(n)[p + 1] = Pre /\ ~(p + 1 + PktLen - 1 > Len(Prefix(n))) /\ p + 1 + PktLen = p + PktLen + 1
  BY <1>1, <1>4
<1> QED
  BY <1>3, <1>4, <1>5, <1>6, <1>7 DEF Item, Found
-----------------------------------------------------------------------------
LEMMA Sizes == /\ PktLen \in Nat \ {0} /\ BufLen \in Nat \ {0} /\ BufLen >= PktLen /\ MaxBytes \in Nat
               /\ Pre \in Bytes
BY CommRxAssumption DEF Bytes

LEMMA PosIn == ASSUME Types, Buffered PROVE Pos \in 0 .. seen
BY Sizes DEF Types, Buffered, Pos

LEMMA SameStream == ASSUME stream' = stream
                    PROVE  \A n, p : Found(n, p)' = Found(n, p)
BY DEF Found, Prefix, From

(* The handler goes over bytes that begin no packet. *)
LEMMA GoesOn ==
  ASSUME IInv, stream' = stream, seen' = seen, got' = got, Pos' \in Pos .. seen,
         \A k \in Pos + 1 .. Pos' : stream[k] # Pre
  PROVE  Parsed'
<1>1. Pos \in 0 .. seen /\ seen \in 0 .. MaxBytes
  BY PosIn DEF IInv, Types
<1>2. ASSUME NEW n \in seen .. MaxBytes PROVE Found(n, 0) = got \o Found(n, Pos')
  <2>1. n \in 0 .. MaxBytes /\ Pos \in 0 .. n /\ Pos' \in Pos .. n
    BY <1>1
  <2>2. Found(n, Pos) = Found(n, Pos')
    BY <2>1, FoundSkip DEF IInv
  <2> QED
    BY <2>2 DEF IInv, Parsed
<1> QED
  BY <1>2, SameStream DEF Parsed

(* The handler gives the packet that begins behind p to recv_pkt(). *)
LEMMA Delivers ==
  ASSUME IInv, stream' = stream, seen' = seen, NEW p \in Pos .. seen,
         \A k \in Pos + 1 .. p : stream[k] # Pre,
         p + PktLen <= seen, stream[p + 1] = Pre,
         Pos' = p + PktLen, got' = Append(got, Packet(p))
  PROVE  Parsed' /\ got' \in Seq(Seq(Bytes))
<1>1. Pos \in 0 .. seen /\ seen \in 0 .. MaxBytes /\ got \in Seq(Seq(Bytes))
  BY PosIn DEF IInv, Types
<1>2. ASSUME NEW n \in seen .. MaxBytes
      PROVE  /\ Packet(p) \in Seq(Bytes)
             /\ Found(n, 0) = Append(got, Packet(p)) \o Found(n, p + PktLen)
  <2>1. n \in 0 .. MaxBytes /\ Pos \in 0 .. n /\ p \in Pos .. n /\ p \in 0 .. n /\ p + PktLen <= n
    BY <1>1
  <2>2. p + PktLen \in 0 .. n
    BY <1>1, <2>1, Sizes
  <2>3. Found(n, Pos) = Found(n, p)
    BY <2>1, FoundSkip DEF IInv
  <2>4. Packet(p) \in Seq(Bytes) /\ Found(n, p) = <<Packet(p)>> \o Found(n, p + PktLen)
    BY <2>1, FoundPacket DEF IInv
  <2>5. Found(n, p + PktLen) \in Seq(Seq(Bytes))
    BY <2>1, <2>2, FoundIs DEF IInv
  <2>6. got \o (<<Packet(p)>> \o Found(n, p + PktLen)) = (got \o <<Packet(p)>>) \o Found(n, p + PktLen)
    <3>1. <<Packet(p)>> \in Seq(Seq(Bytes))
      BY <2>4
    <3>2. got \in Seq(Seq(Bytes))
      BY <1>1
    <3> QED
      BY ONLY <2>5, <3>1, <3>2, ConcatAssociative, SMTT(20)
  <2>7. got \o <<Packet(p)>> = Append(got, Packet(p))
    BY <1>1, <2>4, AppendIsConcat
  <2> QED
    BY <2>3, <2>4, <2>6, <2>7 DEF IInv, Parsed
<1>3. Parsed'
  BY <1>2, SameStream DEF Parsed
<1>4. seen \in seen .. MaxBytes
  BY <1>1
<1> QED
  BY <1>1, <1>2, <1>3, <1>4, AppendProperties

LEMMA InitIInv == ASSUME Init PROVE IInv
<1>1. Types
  BY Sizes DEF Init, Types, Buffer
<1>2. Buffered /\ Left
  BY Sizes DEF Init, Buffered, Left
<1>3. Pos = 0 /\ seen = 0 /\ got = <<>>
  BY DEF Init, Pos
<1>4. ASSUME NEW n \in seen .. MaxBytes PROVE Found(n, 0) = got \o Found(n, Pos)
  <2>1. Found(n, 0) \in Seq(Seq(Bytes))
    BY <1>1, <1>3, FoundIs, Sizes
  <2> QED
    BY <1>3, <2>1, ConcatEmptySeq
<1> QED
  BY <1>1, <1>2, <1>4 DEF IInv, Parsed

LEMMA ReceiveKeeps == ASSUME IInv, NEW n \in 1 .. BufLen, Receive(n) PROVE IInv'
<1>1. /\ pc = "wait" /\ pc' = "loop" /\ n <= BufLen - pend /\ seen + n <= MaxBytes
      /\ pend' = pend + n /\ seen' = seen + n
      /\ UNCHANGED <<stream, ff, cur, remains, got>>
  BY DEF Receive
<1>2. /\ stream \in [1 .. MaxBytes -> Bytes] /\ seen \in 0 .. MaxBytes
      /\ inbuf \in [0 .. 1 -> Buffer] /\ ff \in 0 .. 1 /\ 1 - ff \in 0 .. 1 /\ ff # 1 - ff
      /\ pend \in 0 .. BufLen /\ cur \in 0 .. pend /\ remains \in 0 .. PktLen - 1
      /\ remains + pend <= seen
  BY DEF IInv, Types, Buffered
<1> DEFINE new == [o \in Offsets |-> IF o \in pend .. pend + n - 1
                                     THEN stream[seen + o - pend + 1] ELSE inbuf[ff][o]]
<1>3. new \in Buffer
  <2> SUFFICES ASSUME NEW o \in Offsets PROVE new[o] \in Bytes
    BY DEF Buffer
  <2>1. inbuf[ff][o] \in Bytes
    BY <1>2 DEF Buffer
  <2>2. o \in pend .. pend + n - 1 => seen + o - pend + 1 \in 1 .. MaxBytes
    BY <1>1, <1>2, Sizes DEF Offsets
  <2> QED
    BY <1>2, <2>1, <2>2
<1>4. inbuf' = [inbuf EXCEPT ![ff] = new]
  BY DEF Receive
<1>5. inbuf' \in [0 .. 1 -> Buffer] /\ inbuf'[ff] = new /\ inbuf'[1 - ff] = inbuf[1 - ff]
  BY <1>2, <1>3, <1>4
<1>6. \A o \in 0 .. pend + n - 1 : new[o] = stream[seen - pend + o + 1]
  <2> SUFFICES ASSUME NEW o \in 0 .. pend + n - 1 PROVE new[o] = stream[seen - pend + o + 1]
    OBVIOUS
  <2>1. o \in Offsets /\ seen + o - pend + 1 = seen - pend + o + 1
    BY <1>1, <1>2, Sizes DEF Offsets
  <2>2. o \notin pend .. pend + n - 1 => o \in 0 .. pend - 1
    BY <1>1, <1>2
  <2> QED
    BY <2>1, <2>2 DEF IInv, Buffered
<1> HIDE DEF new
<1>7. Types'
  BY <1>1, <1>2, <1>5, Sizes DEF IInv, Types
<1>8. seen' - pend' = seen - pend /\ Pos' = Pos
  BY <1>1, <1>2, Sizes DEF Pos
<1>9. Buffered'
  <2>1. remains' + pend' <= seen'
    BY <1>1, <1>2, Sizes
  <2>2. \A o \in 0 .. pend' - 1 : inbuf'[ff'][o] = stream'[seen' - pend' + o + 1]
    <3>1. ASSUME NEW o \in 0 .. pend + n - 1
          PROVE  inbuf'[ff][o] = stream[seen' - pend' + o + 1]
      <4>1. seen' - pend' + o + 1 = seen - pend + o + 1
        BY <1>8
      <4> QED
        BY <1>5, <1>6, <4>1
    <3>2. ff' = ff /\ stream' = stream /\ pend' - 1 = pend + n - 1
      BY <1>1, <1>2
    <3> QED
      BY ONLY <3>1, <3>2
  <2>3. \A o \in BufLen - remains' .. BufLen - 1 :
           inbuf'[1 - ff'][o] = stream'[seen' - pend' - BufLen + o + 1]
    BY <1>1, <1>5, <1>8 DEF IInv, Buffered
  <2> QED
    BY <2>1, <2>2, <2>3 DEF Buffered
<1>10. Parsed'
  BY <1>1, <1>2, <1>8, SameStream, SMTT(20) DEF IInv, Parsed
<1> QED
  BY <1>1, <1>7, <1>9, <1>10 DEF IInv, Left

LEMMA LoopKeeps == ASSUME IInv, Loop PROVE IInv'
<1>1. Pos' = Pos /\ UNCHANGED <<stream, seen, got>>
  BY DEF Loop, Pos
<1>2. Parsed'
  BY <1>1, SameStream DEF IInv, Parsed
<1>3. Left'
  BY Sizes DEF IInv, Types, Left, Loop
<1> QED
  BY <1>2, <1>3 DEF IInv, Types, Buffered, Loop

LEMMA ErrorKeeps == ASSUME IInv, ReceiveError \/ UNCHANGED vars PROVE IInv'
<1>1. Pos' = Pos /\ UNCHANGED <<stream, seen, got>>
  BY DEF ReceiveError, Pos, vars
<1>2. Parsed'
  BY <1>1, SameStream DEF IInv, Parsed
<1> QED
  BY <1>2 DEF IInv, Types, Buffered, Left, ReceiveError, vars

LEMMA RearmKeeps == ASSUME IInv, Rearm PROVE IInv'
<1>1. /\ pc = "rearm" /\ pc' = "wait" /\ UNCHANGED <<stream, seen, inbuf, got>>
  BY DEF Rearm
<1>2. /\ stream \in [1 .. MaxBytes -> Bytes] /\ seen \in 0 .. MaxBytes /\ ff \in 0 .. 1
      /\ pend \in 0 .. BufLen /\ cur \in 0 .. pend /\ remains \in 0 .. PktLen - 1
      /\ remains + pend <= seen /\ remains + pend - cur < PktLen /\ (remains > 0 => cur = 0)
  BY <1>1 DEF IInv, Types, Buffered, Left
<1>3. CASE pend < BufLen
  <2>1. UNCHANGED <<ff, cur, pend, remains>>
    BY <1>3 DEF Rearm
  <2>2. Pos' = Pos
    BY <1>1, <2>1 DEF Pos
  <2>3. Parsed'
    BY <1>1, <2>2, SameStream DEF IInv, Parsed
  <2> QED
    BY <1>1, <2>1, <2>3 DEF IInv, Types, Buffered, Left
<1>4. CASE ~(pend < BufLen)
  <2>1. remains' = BufLen - cur /\ ff' = 1 - ff /\ cur' = 0 /\ pend' = 0
    BY <1>4 DEF Rearm
  <2>2. pend = BufLen /\ remains = 0
    BY <1>2, <1>4, Sizes
  <2>3. Types'
    <3>1. remains' \in 0 .. PktLen - 1 /\ ff' \in 0 .. 1 /\ pend' \in 0 .. BufLen /\ cur' \in 0 .. pend'
      BY <1>2, <2>1, <2>2, Sizes
    <3> QED
      BY <1>1, <3>1 DEF IInv, Types
  <2>4. Buffered'
    <3>1. remains' + pend' <= seen'
      BY <1>1, <1>2, <2>1, <2>2, Sizes
    <3>2. 1 - ff' = ff
      BY <1>2, <2>1
    <3>3. \A o \in BufLen - remains' .. BufLen - 1 :
             inbuf[ff][o] = stream[seen - 0 - BufLen + o + 1]
      BY <1>2, <2>1, <2>2, Sizes DEF IInv, Buffered
    <3>4. \A o \in 0 .. pend' - 1 : FALSE
      BY <2>1
    <3> QED
      BY <1>1, <2>1, <3>1, <3>2, <3>3, <3>4 DEF Buffered
  <2>5. Left'
    BY <1>1, <1>2, <2>1, <2>2, Sizes DEF Left
  <2>6. Pos' = Pos
    BY <1>1, <1>2, <2>1, <2>2, Sizes DEF Pos
  <2>7. Parsed'
    BY <1>1, <2>6, SameStream DEF IInv, Parsed
  <2> QED
    BY <2>3, <2>4, <2>5, <2>7 DEF IInv
<1> QED
  BY <1>3, <1>4

LEMMA ScanKeeps == ASSUME IInv, Scan PROVE IInv'
<1> DEFINE start == Find(inbuf[ff], cur, pend)
<1>1. /\ pc = "scan" /\ UNCHANGED <<stream, seen, inbuf, ff, pend, remains>>
  BY DEF Scan
<1>2. /\ stream \in [1 .. MaxBytes -> Bytes] /\ seen \in 0 .. MaxBytes /\ ff \in 0 .. 1
      /\ pend \in 0 .. BufLen /\ cur \in 0 .. pend /\ remains = 0
      /\ remains + pend <= seen
      /\ \A o \in 0 .. pend - 1 : inbuf[ff][o] = stream[seen - pend + o + 1]
  BY <1>1 DEF IInv, Types, Buffered, Left
<1>3. /\ start \in cur .. pend
      /\ start = pend \/ inbuf[ff][start] = Pre
      /\ \A j \in cur .. start - 1 : inbuf[ff][j] # Pre
  <2>1. cur \in Nat /\ pend \in Nat /\ cur <= pend
    BY <1>2, Sizes
  <2> QED
    BY <2>1, FindIs
<1>4. PICK st \in cur .. pend : st = start
  BY <1>3
<1> HIDE DEF start
<1>5. PICK p \in Nat : p = seen - pend + st
  BY <1>2, Sizes
<1>6. Pos = seen - pend + cur /\ p \in Pos .. seen
  BY <1>2, <1>5, Sizes DEF Pos
<1>7. \A k \in Pos + 1 .. p : stream[k] # Pre
  <2> SUFFICES ASSUME NEW k \in Pos + 1 .. p PROVE stream[k] # Pre
    OBVIOUS
  <2>1. PICK j \in cur .. st - 1 : k = seen - pend + j + 1
    <3>1. k - 1 - (seen - pend) \in cur .. st - 1 /\ k = seen - pend + (k - 1 - (seen - pend)) + 1
      BY <1>2, <1>5, <1>6, Sizes
    <3> QED
      BY <3>1
  <2>2. j \in 0 .. pend - 1
    BY <1>2, <2>1, Sizes
  <2> QED
    BY <1>2, <1>3, <1>4, <2>1, <2>2
<1>8. CASE pend - st >= PktLen
  <2>1. got' = Append(got, Piece(inbuf[ff], st, PktLen)) /\ cur' = st + PktLen /\ pc' = "loop"
    BY <1>4, <1>8 DEF Scan, start
  <2>2. st \in 0 .. pend - 1 /\ inbuf[ff][st] = Pre
    BY <1>2, <1>3, <1>4, <1>8, Sizes
  <2>3. stream[p + 1] = Pre /\ p + PktLen <= seen
    BY <1>2, <1>5, <1>8, <2>2, Sizes
  <2>4. Piece(inbuf[ff], st, PktLen) = Packet(p)
    <3> SUFFICES ASSUME NEW k \in 1 .. PktLen PROVE inbuf[ff][st + k - 1] = stream[p + k]
      BY DEF Piece, Packet
    <3>1. st + k - 1 \in 0 .. pend - 1 /\ seen - pend + (st + k - 1) + 1 = p + k
      <4>1. st \in Nat /\ pend \in Nat /\ seen \in Nat /\ PktLen \in Nat
        BY <1>2, Sizes
      <4> QED
        BY ONLY <4>1, <1>5, <1>8, k \in 1 .. PktLen, p \in Nat
    <3> QED
      BY <1>2, <3>1
  <2>5. Pos' = p + PktLen /\ cur' \in 0 .. pend
    BY <1>1, <1>2, <1>5, <1>8, <2>1, Sizes DEF Pos
  <2>6. Parsed' /\ got' \in Seq(Seq(Bytes))
    BY <1>1, <1>6, <1>7, <2>1, <2>3, <2>4, <2>5, Delivers
  <2>7. Types' /\ Buffered'
    BY <1>1, <2>1, <2>5, <2>6 DEF IInv, Types, Buffered
  <2>8. Left'
    BY <1>1, <1>2, <2>1 DEF Left
  <2> QED
    BY <2>6, <2>7, <2>8 DEF IInv
<1>9. CASE ~(pend - st >= PktLen)
  <2>1. got' = got /\ cur' = st /\ pc' = "rearm"
    BY <1>4, <1>9 DEF Scan, start
  <2>2. Pos' = p /\ cur' \in 0 .. pend
    BY <1>1, <1>2, <1>5, <2>1, Sizes DEF Pos
  <2>3. Parsed'
    BY <1>1, <1>6, <1>7, <2>1, <2>2, GoesOn
  <2>4. Types' /\ Buffered'
    BY <1>1, <2>1, <2>2 DEF IInv, Types, Buffered
  <2>5. Left'
    BY <1>1, <1>2, <1>9, <2>1, Sizes DEF Left
  <2> QED
    BY <2>3, <2>4, <2>5 DEF IInv
<1> QED
  BY <1>8, <1>9

(* The two pieces of a packet that straddles the buffers make the packet.  *)
LEMMA TwoPieces ==
  ASSUME Types, NEW p \in Nat, NEW n \in 0 .. PktLen, p + PktLen <= seen, NEW one, NEW two,
         one = [k \in 1 .. n |-> stream[p + k]],
         two = [k \in 1 .. PktLen - n |-> stream[p + n + k]]
  PROVE  one \o two = Packet(p)
<1>1. /\ PktLen \in Nat /\ seen \in Nat /\ seen <= MaxBytes /\ MaxBytes \in Nat /\ n \in Nat /\ PktLen - n \in Nat
      /\ stream \in [1 .. MaxBytes -> Bytes]
  BY Sizes DEF Types
<1>2. \A k \in 1 .. PktLen : stream[p + k] \in Bytes
  <2> SUFFICES ASSUME NEW k \in 1 .. PktLen PROVE p + k \in 1 .. MaxBytes
    BY <1>1
  <2> QED
    BY <1>1
<1>3. one \in Seq(Bytes) /\ Len(one) = n
  <2>1. \A k \in 1 .. n : stream[p + k] \in Bytes
    <3>1. \A k \in 1 .. n : k \in 1 .. PktLen
      BY <1>1
    <3> QED
      BY <1>2, <3>1
  <2> QED
    BY <1>1, <2>1, IsASeq
<1>4. two \in Seq(Bytes) /\ Len(two) = PktLen - n
  <2>1. \A k \in 1 .. PktLen - n : n + k \in 1 .. PktLen /\ p + n + k = p + (n + k)
    BY <1>1
  <2>2. \A k \in 1 .. PktLen - n : stream[p + n + k] \in Bytes
    BY <1>2, <2>1
  <2> QED
    BY <1>1, <2>2, IsASeq
<1>5. Packet(p) \in Seq(Bytes) /\ Len(Packet(p)) = PktLen
  BY <1>1, <1>2, IsASeq DEF Packet
<1>6. n + (PktLen - n) = PktLen
  BY <1>1
<1>7. /\ one \o two \in Seq(Bytes) /\ Len(one \o two) = PktLen
      /\ \A k \in 1 .. PktLen : (one \o two)[k] = IF k <= n THEN one[k] ELSE two[k - n]
  <2>1. /\ one \o two \in Seq(Bytes) /\ Len(one \o two) = Len(one) + Len(two)
        /\ \A k \in 1 .. Len(one) + Len(two) :
             (one \o two)[k] = IF k <= Len(one) THEN one[k] ELSE two[k - Len(one)]
    BY ONLY <1>3, <1>4, ConcatProperties
  <2> QED
    BY ONLY <1>3, <1>4, <1>6, <2>1
<1>8. ASSUME NEW k \in 1 .. PktLen PROVE (one \o two)[k] = Packet(p)[k]
  <2>1. CASE k <= n
    <3>1. k \in 1 .. n
      BY <1>1, <2>1
    <3> QED
      BY <1>7, <2>1, <3>1 DEF Packet
  <2>2. CASE ~(k <= n)
    <3>1. k - n \in 1 .. PktLen - n /\ p + n + (k - n) = p + k
      BY <1>1, <2>2
    <3>2. two[k - n] = stream[p + n + (k - n)]
      BY <3>1
    <3> QED
      BY <1>7, <2>2, <3>1, <3>2 DEF Packet
  <2> QED
    BY <2>1, <2>2
<1> QED
  BY <1>5, <1>7, <1>8, SeqEqual

LEMMA StraddleKeeps == ASSUME IInv, Straddle PROVE IInv'
<1> DEFINE old   == inbuf[1 - ff]
           start == Find(old, BufLen - remains, BufLen)
<1>1. /\ pc = "straddle" /\ UNCHANGED <<stream, seen, inbuf, ff, pend>>
  BY DEF Straddle
<1>2. /\ stream \in [1 .. MaxBytes -> Bytes] /\ seen \in 0 .. MaxBytes /\ ff \in 0 .. 1
      /\ pend \in 0 .. BufLen /\ cur = 0 /\ remains \in 1 .. PktLen - 1
      /\ remains + pend <= seen /\ got \in Seq(Seq(Bytes))
      /\ \A o \in 0 .. pend - 1 : inbuf[ff][o] = stream[seen - pend + o + 1]
      /\ \A o \in BufLen - remains .. BufLen - 1 : old[o] = stream[seen - pend - BufLen + o + 1]
  <2>1. remains \in 1 .. PktLen - 1 /\ cur = 0
    BY <1>1, Sizes DEF IInv, Types, Left
  <2> QED
    BY <1>1, <2>1 DEF IInv, Types, Buffered
<1>3. /\ start \in BufLen - remains .. BufLen
      /\ start = BufLen \/ old[start] = Pre
      /\ \A j \in BufLen - remains .. start - 1 : old[j] # Pre
  <2>1. BufLen - remains \in Nat /\ BufLen \in Nat /\ BufLen - remains <= BufLen
    BY <1>2, Sizes
  <2> QED
    BY <2>1, FindIs
<1>4. PICK st \in BufLen - remains .. BufLen : st = start
  BY <1>3
<1>5. PICK len \in 0 .. remains : len = BufLen - st
  BY <1>2, Sizes
<1>6. /\ IF len + pend - cur < PktLen
         THEN remains' = len /\ pc' = "rearm" /\ UNCHANGED <<cur, got>>
         ELSE /\ remains' = 0 /\ pc' = "scan"
              /\ IF len = 0 THEN UNCHANGED <<cur, got>>
                 ELSE /\ got' = Append(got, Piece(old, st, len) \o Piece(inbuf[ff], cur, PktLen - len))
                      /\ cur' = cur + PktLen - len
  BY <1>4, <1>5 DEF Straddle
<1> HIDE DEF start, old
<1>7. PICK p \in Nat : p = seen - pend - len
  BY <1>2, Sizes
<1>8. Pos = seen - pend - remains /\ p \in Pos .. seen
  BY <1>2, <1>7, Sizes DEF Pos
<1>9. \A k \in Pos + 1 .. p : stream[k] # Pre
  <2> SUFFICES ASSUME NEW k \in Pos + 1 .. p PROVE stream[k] # Pre
    OBVIOUS
  <2>1. PICK j \in BufLen - remains .. st - 1 : k = seen - pend - BufLen + j + 1
    <3> DEFINE j == k - 1 - (seen - pend - BufLen)
    <3>1. seen \in Nat /\ pend \in Nat /\ BufLen \in Nat /\ remains \in Nat /\ st \in Nat
      BY <1>2, Sizes
    <3>2. j \in BufLen - remains .. st - 1 /\ k = seen - pend - BufLen + j + 1
      BY <1>5, <1>7, <1>8, <3>1
    <3> QED
      BY <3>2
  <2>2. j \in BufLen - remains .. BufLen - 1
    BY <1>2, <2>1, Sizes
  <2> QED
    BY <1>2, <1>3, <1>4, <2>1, <2>2
<1>10. CASE len + pend - cur < PktLen
  <2>1. remains' = len /\ pc' = "rearm" /\ cur' = 0 /\ got' = got
    BY <1>2, <1>6, <1>10
  <2>2. Pos' = p
    BY <1>1, <1>2, <1>7, <2>1, Sizes DEF Pos
  <2>3. Parsed'
    BY <1>1, <1>8, <1>9, <2>1, <2>2, GoesOn
  <2>4. Types'
    BY <1>1, <1>2, <2>1, Sizes DEF IInv, Types
  <2>5. Buffered'
    <3>1. remains' + pend' <= seen'
      BY <1>1, <1>2, <2>1, Sizes
    <3>2. \A o \in BufLen - remains' .. BufLen - 1 : o \in BufLen - remains .. BufLen - 1
      BY <1>2, <2>1, Sizes
    <3> QED
      BY <1>1, <1>2, <3>1, <3>2 DEF Buffered, old
  <2>6. Left'
    BY <1>1, <1>2, <1>10, <2>1, Sizes DEF Left
  <2> QED
    BY <2>3, <2>4, <2>5, <2>6 DEF IInv
<1>11. CASE ~(len + pend - cur < PktLen)
  <2>1. remains' = 0 /\ pc' = "scan"
    BY <1>6, <1>11
  <2>2. Buffered' /\ Left'
    <3>1. remains' + pend' <= seen' /\ \A o \in BufLen - remains' .. BufLen - 1 : FALSE
      BY <1>1, <1>2, <2>1, Sizes
    <3> QED
      BY <1>1, <1>2, <2>1, <3>1 DEF Buffered, Left
  <2>3. CASE len = 0
    <3>1. cur' = 0 /\ got' = got
      BY <1>2, <1>6, <1>11, <2>3
    <3>2. Pos' = p
      BY <1>1, <1>2, <1>7, <2>1, <2>3, <3>1, Sizes DEF Pos
    <3>3. Parsed'
      BY <1>1, <1>8, <1>9, <3>1, <3>2, GoesOn
    <3>4. Types'
      BY <1>1, <1>2, <2>1, <3>1, Sizes DEF IInv, Types
    <3> QED
      BY <2>2, <3>3, <3>4 DEF IInv
  <2>4. CASE len # 0
    <3>1. cur' = PktLen - len /\ got' = Append(got, Piece(old, st, len) \o Piece(inbuf[ff], 0, PktLen - len))
      BY <1>2, <1>6, <1>11, <2>4, Sizes
    <3>2. /\ seen \in Nat /\ pend \in Nat /\ BufLen \in Nat /\ remains \in Nat /\ st \in Nat /\ PktLen \in Nat
          /\ len \in 1 .. PktLen /\ st = BufLen - len /\ PktLen - len <= pend
      BY <1>2, <1>5, <1>11, <2>4, Sizes
    <3>3. \A k \in 1 .. len : old[st + k - 1] = stream[p + k]
      <4> SUFFICES ASSUME NEW k \in 1 .. len PROVE old[st + k - 1] = stream[p + k]
        OBVIOUS
      <4>1. st + k - 1 \in BufLen - remains .. BufLen - 1 /\ seen - pend - BufLen + (st + k - 1) + 1 = p + k
        BY <1>5, <1>7, <3>2
      <4> QED
        BY <1>2, <4>1
    <3>4. \A k \in 1 .. PktLen - len : inbuf[ff][0 + k - 1] = stream[p + len + k]
      <4> SUFFICES ASSUME NEW k \in 1 .. PktLen - len PROVE inbuf[ff][0 + k - 1] = stream[p + len + k]
        OBVIOUS
      <4>1. 0 + k - 1 \in 0 .. pend - 1 /\ seen - pend + (0 + k - 1) + 1 = p + len + k
        BY <1>7, <3>2
      <4> QED
        BY <1>2, <4>1
    <3>5. stream[p + 1] = Pre /\ p + PktLen <= seen
      <4>1. 1 \in 1 .. len /\ st + 1 - 1 = st /\ st # BufLen /\ p + PktLen <= seen
        BY <1>7, <3>2
      <4> QED
        BY <1>3, <1>4, <3>3, <4>1
    <3>6. Piece(old, st, len) \o Piece(inbuf[ff], 0, PktLen - len) = Packet(p)
      <4>1. Piece(old, st, len) = [k \in 1 .. len |-> stream[p + k]]
        BY <3>3 DEF Piece
      <4>2. Piece(inbuf[ff], 0, PktLen - len) = [k \in 1 .. PktLen - len |-> stream[p + len + k]]
        BY <3>4 DEF Piece
      <4>3. len \in 0 .. PktLen /\ Types
        BY <3>2 DEF IInv
      <4> QED
        BY <3>5, <4>1, <4>2, <4>3, TwoPieces, ZenonT(30)
    <3>7. Pos' = p + PktLen /\ cur' \in 0 .. pend
      BY <1>1, <1>7, <2>1, <3>1, <3>2 DEF Pos
    <3>8. Parsed' /\ got' \in Seq(Seq(Bytes))
      BY <1>1, <1>8, <1>9, <3>1, <3>5, <3>6, <3>7, Delivers
    <3>9. Types'
      BY <1>1, <2>1, <3>7, <3>8, Sizes DEF IInv, Types
    <3> QED
      BY <2>2, <3>8, <3>9 DEF IInv
  <2> QED
    BY <2>3, <2>4
<1> QED
  BY <1>10, <1>11

(* The buffers hold the bytes that are not done with, and what was         *)
(* delivered are the packets before them.                                  *)
THEOREM Invariant == Spec => []IInv
<1>1. ASSUME IInv, [Next]_vars PROVE IInv'
  BY <1>1, ReceiveKeeps, ErrorKeeps, LoopKeeps, StraddleKeeps, ScanKeeps, RearmKeeps DEF Next
<1> QED
  BY <1>1, InitIInv, PTL DEF Spec

(* Between two deliveries recv_chunk() has found exactly the packets of    *)
(* the bytes received: for every stream, every cut of it, every size of    *)
(* the buffers.                                                            *)
THEOREM PacketsAreThoseSent == Spec => []CutIndependent
<1>1. IInv => CutIndependent
  <2> SUFFICES ASSUME IInv, pc = "wait" PROVE got = PacketsOf(Prefix(seen))
    BY DEF CutIndependent, Prefix
  <2>1. Pos \in 0 .. seen /\ seen \in 0 .. MaxBytes /\ seen - Pos < PktLen /\ seen \in seen .. MaxBytes
    BY PosIn, Sizes DEF IInv, Types, Left, Pos
  <2>2. Found(seen, Pos) = <<>>
    BY <2>1, FoundNone DEF IInv
  <2>3. PacketsOf(Prefix(seen)) = Found(seen, 0)
    BY <2>1, FoundIs DEF IInv
  <2>4. Found(seen, 0) = got \o <<>>
    BY <2>1, <2>2 DEF IInv, Parsed
  <2> QED
    BY <2>3, <2>4, ConcatEmptySeq DEF IInv, Types
<1> QED
  BY <1>1, Invariant, PTL
=============================================================================
