--------------------------- MODULE RecorderProofs ---------------------------
(***************************************************************************)
(* Proofs about Recorder for every length of the segments, every number of *)
(* capture buffers, frames and recorders, and every radix of the names.    *)
(***************************************************************************)
EXTENDS Recorder, SequenceTheorems, WellFoundedInduction, TLAPS

File  == [name : Nat \X Nat, id : Nat]
Entry == [file : Nat, pos : Nat, ts : Nat]

Types ==
  /\ pc \in {"off", "add", "next", "code", "unwind", "terminated"}
  /\ ring \in Seq(Buffers) /\ done \in 0 .. Len(ring) /\ Len(ring) <= Bufs /\ live \in Buffers
  /\ held \in [Buffers -> Nat] /\ now \in Nat /\ now + done <= MaxFrames
  /\ runs \in Nat /\ stamp \in Nat /\ start \in 0 .. now /\ born \in 0 .. start
  /\ checked \in BOOLEAN /\ ready \in BOOLEAN /\ copyTo = ready /\ (ready => checked)
  /\ names \in Seq(File) /\ stick \in Seq(File) /\ data \in Seq(Seq(Nat)) /\ data # <<>>
  /\ frames \in Seq(Entry) /\ absent \subseteq broken
  /\ cur \in Nat /\ reader \in [file : Nat, bad : BOOLEAN]
  /\ out \in [ts : Nat, pic : Nat, file : Nat] /\ out.ts <= now
  /\ mode \in Modes /\ allowed \in BOOLEAN
  /\ pc # "off" => names # <<>> /\ runs > 0

(* The driver has all the buffers, but for the one that run() is busy with *)
(* between getFrame() and putFrame(), in the order it was given them, and  *)
(* the first ones hold the frames that follow.                             *)
Buffered ==
  pc \in {"add", "next", "code"} =>
    /\ Len(ring) = IF pc = "next" THEN Bufs - 1 ELSE Bufs
    /\ \A i, j \in DOMAIN ring : i # j => ring[i] # ring[j]
    /\ \A i \in 1 .. done : held[ring[i]] = now + i
    /\ pc = "next" => held[live] = now /\ \A i \in DOMAIN ring : ring[i] # live
    /\ pc = "code" => ring[Bufs] = live /\ (done < Bufs => held[live] = out.pic)

(* No two files have one name, or are one. *)
Distinct(dir) == \A i, j \in DOMAIN dir : i # j => dir[i].name # dir[j].name /\ dir[i].id # dir[j].id

(* The files of this FileWriter are the last ones made, in this order, and *)
(* those on the stick are files with a name each. *)
Filed ==
  /\ Len(names) <= Len(data)
  /\ \A n \in DOMAIN names : names[n].id = (Len(data) - Len(names)) + n
  /\ \A i \in DOMAIN stick : stick[i].id \in DOMAIN data
  /\ Distinct(stick)
  /\ pc # "off" => \A i \in DOMAIN stick : stick[i].id # names[1].id

(* No frame is written twice. *)
Once == /\ \A f \in DOMAIN data : \A k \in DOMAIN data[f] : data[f][k] \in 1 .. now
        /\ \A f, g \in DOMAIN data : \A k \in DOMAIN data[f], l \in DOMAIN data[g] :
             data[f][k] = data[g][l] => f = g

(* A queued frame is where its entry says, unless writing failed, and the  *)
(* queue is in order. *)
WrittenTo(fr, ns, d) == /\ fr.pos \in DOMAIN d[ns[fr.file].id]
                        /\ d[ns[fr.file].id][fr.pos] = fr.ts
Entered(fr, ns, d, b, t) == /\ fr.file \in DOMAIN ns /\ fr.ts \in 1 .. t
                            /\ ns[fr.file].id \notin b => WrittenTo(fr, ns, d)
InOrder == /\ \A i \in DOMAIN frames : Entered(frames[i], names, data, broken, now)
           /\ \A i, j \in DOMAIN frames : i < j => /\ frames[i].ts < frames[j].ts
                                                   /\ frames[i].file <= frames[j].file

(* If nothing failed, the stream is on the first file, or has not been     *)
(* opened, as long as there is a frame of that file to come; and if the    *)
(* stick was let alone, a stream that reads is on the file it is meant for.*)
Alone  == mishaps \intersect {"deleted", "overwritten"} = {}
Failed == ~Unbroken \/ "unread" \in mishaps
OnFirst == \/ cur = 0 /\ reader = Closed
           \/ cur = 1 /\ reader = [file |-> names[1].id, bad |-> FALSE]
Given == IF out.file \in {0, 1} THEN out.pic = out.ts ELSE Alone => out.pic \in {out.ts, now}
Reading ==
  /\ cur \in 0 .. Len(names) /\ reader.file \in 0 .. Len(data) /\ (cur # 0 => reader.file # 0)
  /\ Failed \/ /\ Len(names) = 1 => OnFirst
               /\ frames # <<>> /\ frames[1].file = 1 => OnFirst
               /\ Alone /\ reader.file # 0 /\ ~reader.bad => cur # 0 /\ reader.file = names[cur].id
               /\ pc = "code" => Given

(* The files after the first are on the stick, and the first one when its  *)
(* FileWriter is gone. *)
Kept == Alone =>
          \A n \in DOMAIN names : (n > 1 \/ (pc = "off" /\ ready)) /\ names[n].id \notin absent =>
            \E i \in DOMAIN stick : stick[i] = names[n]

(* What was recorded. *)
Recorded(t) == \E n \in DOMAIN names : \E k \in DOMAIN data[names[n].id] : data[names[n].id][k] = t
Complete == (ready \/ ~checked) /\ "thrown" \notin mishaps /\ Unbroken => \A t \in born + 1 .. now : Recorded(t)

(* Where next_frame() is in time. *)
InTurn ==
  /\ pc = "next" => out.ts < now
  /\ mode = "transmit_all" /\ mishaps \subseteq {"same_minute"} /\ Made =>
       /\ \A i \in DOMAIN frames : frames[i].ts > out.ts
       /\ ready \/ ~checked => /\ out.ts + Len(frames) = now
                               /\ \A i \in DOMAIN frames : frames[i].ts = out.ts + i

(* The name of the first file is not on the stick, unless two FileWriters  *)
(* have begun in one minute. *)
Stamped ==
  "same_minute" \notin mishaps =>
    /\ pc # "off" => names[1].name = <<stamp, 0>>
    /\ \A i \in DOMAIN stick :
         \/ stick[i].name[1] < stamp
         \/ runs > 0 /\ stick[i].name[1] = stamp /\ (pc = "off" \/ stick[i].name[2] # 0)

IInv == Types /\ Buffered /\ Filed /\ Once /\ InOrder /\ Reading /\ Kept /\ Complete /\ InTurn
          /\ Stamped /\ CodedRight
-----------------------------------------------------------------------------
(* Numbers: induction, and the digits of a fragment's number.              *)

(* Every set of natural numbers has a least one. *)
Less == {ss \in Nat \X Nat : ss[1] < ss[2]}

LEMMA Least == ASSUME NEW T \in SUBSET Nat, T # {} PROVE \E x \in T : \A y \in T : x <= y
<1>1. IsWellFoundedOn(Less, Nat)
  BY NatLessThanWellFounded, Zenon DEF OpToRel, Less
<1>2. T \subseteq Nat
  OBVIOUS
<1>3. PICK x \in T : \A y \in T : ~(<<y, x>> \in Less)
  BY ONLY <1>1, <1>2, WFMin, T # {}, Zenon
<1>4. ASSUME NEW y \in T PROVE x <= y
  <2>1. x \in Nat /\ y \in Nat /\ ~(<<y, x>> \in Less)
    BY <1>3
  <2> QED
    BY <2>1 DEF Less
<1> QED
  BY <1>4

LEMMA Quotient == ASSUME NEW k \in Nat, k >= Radix
                  PROVE  k \div Radix \in Nat /\ k \div Radix >= 1 /\ k \div Radix < k
<1>1. PICK r \in Nat : r = Radix /\ r >= 2
  BY RecorderAssumption
<1>2. PICK q \in Int : q = k \div r
  BY <1>1
<1>3. r * q <= k /\ k < r * q + r
  BY <1>1, <1>2
<1>4. q >= 1
  <2>1. q <= 0 => r * q <= 0
    BY <1>1, <1>2
  <2> QED BY <1>1, <1>3, <2>1
<1>5. 2 * q <= r * q
  BY <1>1, <1>4
<1>6. q < k
  BY <1>1, <1>3, <1>4, <1>5
<1> QED
  BY <1>1, <1>2, <1>4, <1>6

Step(g, k) == IF k < Radix * Radix THEN k ELSE g[k \div Radix]
UpTo(g, n) == g \in [0 .. n -> Nat] /\ \A k \in 0 .. n : g[k] = Step(g, k)

LEMMA Smaller == ASSUME NEW k \in Nat, ~(k < Radix * Radix)
                 PROVE  k \div Radix \in Nat /\ k \div Radix >= 1 /\ k \div Radix < k
<1>1. Radix * Radix >= Radix /\ Radix * Radix \in Nat /\ Radix \in Nat
  BY RecorderAssumption
<1> QED
  BY <1>1, Quotient

LEMMA OneUpTo == ASSUME NEW n \in Nat, NEW m \in Nat, NEW g, NEW h, UpTo(g, n), UpTo(h, m),
                        NEW k \in Nat, k <= n, k <= m
                 PROVE  g[k] = h[k]
<1> DEFINE T == {x \in Nat : x <= n /\ x <= m /\ g[x] # h[x]}
<1>1. SUFFICES ASSUME T # {} PROVE FALSE
  OBVIOUS
<1>2. T \in SUBSET Nat
  OBVIOUS
<1>3. PICK x \in T : \A y \in T : x <= y
  BY <1>1, <1>2, Least
<1>4. x \in 0 .. n /\ x \in 0 .. m /\ g[x] # h[x]
  BY <1>3
<1>5. g[x] = Step(g, x) /\ h[x] = Step(h, x)
  BY <1>4 DEF UpTo
<1>6. CASE x < Radix * Radix
  BY <1>4, <1>5, <1>6 DEF Step
<1>7. CASE ~(x < Radix * Radix)
  <2>1. PICK y \in Nat : y = x \div Radix /\ y < x
    BY <1>4, <1>7, Smaller
  <2>2. g[y] = h[y]
    BY <1>3, <1>4, <2>1
  <2> QED
    BY <1>4, <1>5, <1>7, <2>1, <2>2 DEF Step
<1> QED
  BY <1>6, <1>7

LEMMA AnyUpTo == ASSUME NEW n \in Nat PROVE \E g : UpTo(g, n)
<1> DEFINE T == {x \in Nat : ~\E g : UpTo(g, x)}
<1>1. SUFFICES ASSUME T # {} PROVE FALSE
  OBVIOUS
<1>2. T \in SUBSET Nat
  OBVIOUS
<1>3. PICK x \in T : \A y \in T : x <= y
  BY <1>1, <1>2, Least
<1>4. x \in Nat /\ ~\E g : UpTo(g, x)
  BY <1>3
<1>5. CASE x = 0
  <2>1. 0 < Radix * Radix
    BY RecorderAssumption
  <2>2. UpTo([k \in 0 .. 0 |-> 0], 0)
    BY <2>1 DEF UpTo, Step
  <2> QED
    BY <1>4, <1>5, <2>2
<1>6. CASE x > 0
  <2>1. x - 1 \in Nat /\ ~(x <= x - 1)
    BY <1>4, <1>6
  <2>2. PICK g : UpTo(g, x - 1)
    BY <1>3, <2>1
  <2> DEFINE h == [k \in 0 .. x |-> IF k < x THEN g[k] ELSE Step(g, k)]
  <2>3. \A k \in Nat : ~(k < Radix * Radix) /\ k <= x => k \div Radix \in 0 .. x - 1
    BY <1>4, Smaller
  <2>4. \A k \in 0 .. x - 1 : g[k] \in Nat /\ h[k] = g[k] /\ k \in 0 .. x
    BY <1>4, <2>2 DEF UpTo
  <2>5. \A k \in 0 .. x : Step(h, k) = Step(g, k)
    <3> SUFFICES ASSUME NEW k \in 0 .. x PROVE Step(h, k) = Step(g, k)
      OBVIOUS
    <3>1. CASE k < Radix * Radix
      BY <3>1 DEF Step
    <3>2. CASE ~(k < Radix * Radix)
      <4>1. PICK y \in 0 .. x - 1 : y = k \div Radix
        BY <1>4, <2>3, <3>2
      <4>2. h[y] = g[y]
        BY <2>4
      <4> HIDE DEF h
      <4> QED
        BY <3>2, <4>1, <4>2 DEF Step
    <3> QED
      BY <3>1, <3>2
  <2>6. h[x] = Step(g, x) /\ Step(g, x) \in Nat
    <3>1. h[x] = Step(g, x)
      BY <1>4
    <3>2. CASE x < Radix * Radix
      BY <1>4, <3>1, <3>2 DEF Step
    <3>3. CASE ~(x < Radix * Radix)
      <4>1. PICK y \in 0 .. x - 1 : y = x \div Radix
        BY <1>4, <2>3, <3>3
      <4>2. g[y] \in Nat
        BY <2>4
      <4> HIDE DEF h
      <4> QED
        BY <3>1, <3>3, <4>1, <4>2 DEF Step
    <3> QED
      BY <3>2, <3>3
  <2>7. \A k \in 0 .. x : h[k] \in Nat /\ h[k] = Step(h, k)
    <3> SUFFICES ASSUME NEW k \in 0 .. x PROVE h[k] \in Nat /\ h[k] = Step(h, k)
      OBVIOUS
    <3>1. CASE k = x
      BY <2>5, <2>6, <3>1
    <3>2. CASE k # x
      <4>1. k \in 0 .. x - 1
        BY <1>4, <3>2
      <4>2. g[k] = Step(g, k)
        BY <2>2, <4>1 DEF UpTo
      <4> QED
        BY <2>4, <2>5, <4>1, <4>2
    <3> QED
      BY <3>1, <3>2
  <2>8. h \in [0 .. x -> Nat]
    BY <2>7
  <2> HIDE DEF h
  <2>9. UpTo(h, x)
    BY <2>7, <2>8 DEF UpTo
  <2> QED
    BY <1>4, <2>9
<1> QED
  BY <1>4, <1>5, <1>6

(* The first digits of a number are zero for zero only. *)
LEMMA LeadIs == \A k \in Nat : Lead[k] \in Nat /\ (k >= 1 => Lead[k] >= 1) /\ Lead[0] = 0
<1> DEFINE At(n) == CHOOSE g : UpTo(g, n)
           F == [k \in Nat |-> At(k)[k]]
<1>1. ASSUME NEW n \in Nat PROVE UpTo(At(n), n)
  BY AnyUpTo
<1> HIDE DEF At
<1>2. ASSUME NEW k \in Nat PROVE F[k] = Step(F, k) /\ F[k] \in Nat
  <2>1. At(k)[k] = Step(At(k), k) /\ At(k)[k] \in Nat
    BY <1>1 DEF UpTo
  <2>2. CASE k < Radix * Radix
    BY <2>1, <2>2 DEF Step
  <2>3. CASE ~(k < Radix * Radix)
    <3>1. PICK y \in Nat : y = k \div Radix /\ y < k
      BY <2>3, Smaller
    <3>2. At(k)[y] = At(y)[y]
      BY <1>1, <3>1, OneUpTo
    <3> QED
      BY <2>1, <2>3, <3>1, <3>2 DEF Step
  <2> QED
    BY <2>2, <2>3
<1>3. F = [k \in Nat |-> F[k]]
  OBVIOUS
<1> HIDE DEF F
<1>4. F = [k \in Nat |-> IF k < Radix * Radix THEN k ELSE F[k \div Radix]]
  BY <1>2, <1>3 DEF Step
<1>5. Lead = [k \in Nat |-> IF k < Radix * Radix THEN k ELSE Lead[k \div Radix]]
  BY ONLY <1>4, Zenon DEF Lead
<1>6. \A k \in Nat : Lead[k] = Step(Lead, k)
  BY ONLY <1>5, Zenon DEF Step
<1> DEFINE T == {k \in Nat : ~(Lead[k] \in Nat /\ (k >= 1 => Lead[k] >= 1))}
<1>7. ASSUME T # {} PROVE FALSE
  <2>1. T \in SUBSET Nat
    OBVIOUS
  <2>2. PICK x \in T : \A y \in T : x <= y
    BY <1>7, <2>1, Least
  <2>3. x \in Nat /\ ~(Lead[x] \in Nat /\ (x >= 1 => Lead[x] >= 1)) /\ Lead[x] = Step(Lead, x)
    BY <1>6, <2>2
  <2>4. CASE x < Radix * Radix
    BY <2>3, <2>4 DEF Step
  <2>5. CASE ~(x < Radix * Radix)
    <3>1. PICK y \in Nat : y = x \div Radix /\ y >= 1 /\ y < x
      BY <2>3, <2>5, Smaller
    <3>2. Lead[y] \in Nat /\ Lead[y] >= 1
      BY <2>2, <2>3, <3>1
    <3> QED
      BY <2>3, <2>5, <3>1, <3>2 DEF Step
  <2> QED
    BY <2>4, <2>5
<1>8. Lead[0] = 0
  <2>1. 0 < Radix * Radix
    BY RecorderAssumption
  <2> QED
    BY <1>6, <2>1 DEF Step
<1> QED
  BY <1>7, <1>8

LEMMA Fragment ==
  /\ \A n \in Nat : FragmentNum(n) \in Nat /\ (n >= 1 => FragmentNum(n) # 0)
  /\ FragmentNum(0) = 0
BY LeadIs DEF FragmentNum
-----------------------------------------------------------------------------
(* Directories: removing and adding a file.                                *)
LEMMA RemoveIs ==
  ASSUME NEW S, NEW q \in Seq(S), NEW p \in DOMAIN q
  PROVE  /\ RemoveAt(q, p) \in Seq(S) /\ Len(RemoveAt(q, p)) = Len(q) - 1
         /\ \A i \in DOMAIN RemoveAt(q, p) : /\ i < p => i \in DOMAIN q /\ RemoveAt(q, p)[i] = q[i]
                                             /\ i >= p => i + 1 \in DOMAIN q /\ RemoveAt(q, p)[i] = q[i + 1]
<1> DEFINE a == SubSeq(q, 1, p - 1)
           b == SubSeq(q, p + 1, Len(q))
<1>1. a \in Seq(S) /\ Len(a) = p - 1 /\ \A j \in 1 .. p - 1 : a[j] = q[j]
  BY SubSeqProperties
<1>2. b \in Seq(S) /\ Len(b) = Len(q) - p /\ \A j \in 1 .. Len(q) - p : b[j] = q[p + j]
  <2>1. p + 1 \in 1 .. Len(q) + 1 /\ Len(q) \in Nat /\ p \in Nat
    OBVIOUS
  <2>2. CASE p = Len(q)
    BY <2>1, <2>2, SubSeqEmpty
  <2>3. CASE p < Len(q)
    BY <2>1, <2>3, SubSeqProperties
  <2> QED
    BY <2>1, <2>2, <2>3
<1>3. /\ a \o b \in Seq(S) /\ Len(a \o b) = Len(a) + Len(b)
      /\ \A j \in 1 .. Len(a) + Len(b) : (a \o b)[j] = IF j <= Len(a) THEN a[j] ELSE b[j - Len(a)]
  BY <1>1, <1>2, ConcatProperties
<1>4. RemoveAt(q, p) = a \o b
  BY DEF RemoveAt
<1>5. PICK r \in Seq(S) : r = a \o b
  BY <1>3
<1>6. p \in Nat \ {0} /\ p <= Len(q) /\ Len(q) \in Nat /\ DOMAIN q = 1 .. Len(q)
  OBVIOUS
<1> HIDE DEF a, b
<1>7. Len(r) = Len(q) - 1 /\ DOMAIN r = 1 .. Len(q) - 1
  <2>1. Len(r) = Len(a) + Len(b)
    BY <1>3, <1>5
  <2>2. Len(a) = p - 1 /\ Len(b) = Len(q) - p
    BY <1>1, <1>2
  <2>3. Len(r) = Len(q) - 1
    BY <1>6, <2>1, <2>2
  <2> QED
    BY <2>3
<1>8. ASSUME NEW i \in DOMAIN r, i < p PROVE i \in DOMAIN q /\ r[i] = q[i]
  <2>1. /\ i \in 1 .. Len(a) + Len(b) /\ i <= Len(a) /\ i \in 1 .. p - 1
        /\ i \in DOMAIN q
    BY <1>1, <1>2, <1>6, <1>7, <1>8
  <2>2. r[i] = a[i]
    BY <1>3, <1>5, <2>1
  <2>3. a[i] = q[i]
    BY <1>1, <2>1
  <2> QED
    BY <2>1, <2>2, <2>3
<1>9. ASSUME NEW i \in DOMAIN r, i >= p PROVE i + 1 \in DOMAIN q /\ r[i] = q[i + 1]
  <2>1. i \in 1 .. Len(a) + Len(b) /\ ~(i <= Len(a)) /\ i - Len(a) \in 1 .. Len(q) - p
        /\ p + (i - Len(a)) = i + 1 /\ i + 1 \in 1 .. Len(q)
    BY <1>1, <1>2, <1>6, <1>7, <1>9
  <2>2. r[i] = b[i - Len(a)]
    BY <1>3, <1>5, <2>1
  <2>3. b[i - Len(a)] = q[p + (i - Len(a))]
    BY <1>2, <2>1
  <2> QED
    BY <1>6, <2>1, <2>2, <2>3
<1> QED
  BY <1>4, <1>5, <1>7, <1>8, <1>9

LEMMA WithoutIs ==
  ASSUME NEW q \in Seq(File), NEW name, Distinct(q)
  PROVE  /\ Without(q, name) \in Seq(File) /\ Distinct(Without(q, name)) /\ ~Has(Without(q, name), name)
         /\ \A i \in DOMAIN Without(q, name) : \E j \in DOMAIN q : Without(q, name)[i] = q[j]
         /\ ~Has(q, name) => Without(q, name) = q
<1>1. CASE ~Has(q, name)
  BY <1>1 DEF Without
<1>2. CASE Has(q, name)
  <2>1. PICK p \in DOMAIN q : p = Place(q, name) /\ q[p].name = name
    BY <1>2 DEF Has, Place
  <2>2. PICK r : r = RemoveAt(q, p)
    OBVIOUS
  <2>3. /\ r \in Seq(File) /\ Len(r) = Len(q) - 1
        /\ \A i \in DOMAIN r : /\ i < p => i \in DOMAIN q /\ r[i] = q[i]
                               /\ i >= p => i + 1 \in DOMAIN q /\ r[i] = q[i + 1]
    BY <2>2, RemoveIs
  <2>4. p \in Nat /\ \A i \in DOMAIN r : i \in Nat
    BY <2>3
  <2>5. ASSUME NEW i \in DOMAIN r
        PROVE  \E m \in DOMAIN q : r[i] = q[m] /\ m # p /\ m = IF i < p THEN i ELSE i + 1
    BY <2>3, <2>4
  <2>6. ASSUME NEW i \in DOMAIN r, NEW j \in DOMAIN r, i # j
        PROVE  r[i].name # r[j].name /\ r[i].id # r[j].id
    <3>1. PICK m \in DOMAIN q : r[i] = q[m] /\ m # p /\ m = IF i < p THEN i ELSE i + 1
      BY <2>5
    <3>2. PICK n \in DOMAIN q : r[j] = q[n] /\ n # p /\ n = IF j < p THEN j ELSE j + 1
      BY <2>5
    <3>3. m # n
      BY <2>4, <2>6, <3>1, <3>2
    <3> QED
      BY <3>1, <3>2, <3>3 DEF Distinct
  <2>7. \A i \in DOMAIN r : r[i].name # name
    BY <2>1, <2>5 DEF Distinct
  <2>8. Without(q, name) = r
    BY <1>2, <2>1, <2>2 DEF Without
  <2>9. \A i \in DOMAIN r : \E j \in DOMAIN q : r[i] = q[j]
    BY <2>5
  <2>10. Distinct(r) /\ ~Has(r, name)
    BY <2>6, <2>7 DEF Distinct, Has
  <2> QED
    BY <1>2, <2>3, <2>8, <2>9, <2>10
<1> QED
  BY <1>1, <1>2

(* What delete_old_files() leaves. *)
LEMMA LeftIs ==
  ASSUME stick \in Seq(File), Distinct(stick), NEW left \in AfterDeletion
  PROVE  left \in Seq(File) /\ Distinct(left) /\ \A i \in DOMAIN left : \E j \in DOMAIN stick : left[i] = stick[j]
<1>1. CASE left = stick
  BY <1>1
<1>2. CASE left # stick
  <2>1. stick # <<>> /\ left = Tail(stick)
    BY <1>2 DEF AfterDeletion
  <2>2. /\ left \in Seq(File)
        /\ \A i \in DOMAIN left : i + 1 \in DOMAIN stick /\ left[i] = stick[i + 1] /\ i \in Nat
    BY <2>1
  <2>3. ASSUME NEW i \in DOMAIN left, NEW j \in DOMAIN left, i # j
        PROVE  left[i].name # left[j].name /\ left[i].id # left[j].id
    <3>1. i + 1 # j + 1 /\ i + 1 \in DOMAIN stick /\ j + 1 \in DOMAIN stick
      BY <2>2, <2>3
    <3> QED
      BY <2>2, <3>1 DEF Distinct
  <2> QED
    BY <2>2, <2>3 DEF Distinct
<1> QED
  BY <1>1, <1>2

(* A new file comes to the stick, after one old file may have gone. *)
Grown(new, left, f) ==
  /\ new \in Seq(File) /\ Distinct(new)
  /\ \A i \in DOMAIN new : new[i] = f \/ \E j \in DOMAIN stick : new[i] = stick[j]
  /\ \E i \in DOMAIN new : new[i] = f
  /\ left = stick /\ ~Has(stick, f.name) =>
       \A j \in DOMAIN stick : \E i \in DOMAIN new : new[i] = stick[j]

LEMMA StickGrows ==
  ASSUME stick \in Seq(File), Distinct(stick), NEW left \in AfterDeletion, NEW f \in File,
         \A i \in DOMAIN stick : stick[i].id # f.id,
         NEW new, new = Append(Without(left, f.name), f)
  PROVE  Grown(new, left, f)
<1>1. left \in Seq(File) /\ Distinct(left) /\ \A i \in DOMAIN left : \E j \in DOMAIN stick : left[i] = stick[j]
  BY LeftIs
<1>2. PICK rest : rest = Without(left, f.name)
  OBVIOUS
<1>3. /\ rest \in Seq(File) /\ Distinct(rest) /\ ~Has(rest, f.name)
      /\ \A i \in DOMAIN rest : \E j \in DOMAIN left : rest[i] = left[j]
      /\ ~Has(left, f.name) => rest = left
  BY <1>1, <1>2, WithoutIs
<1>4. \A i \in DOMAIN rest : \E j \in DOMAIN stick : rest[i] = stick[j]
  BY <1>1, <1>3
<1>5. /\ new \in Seq(File) /\ Len(new) = Len(rest) + 1 /\ DOMAIN new = 1 .. Len(rest) + 1
      /\ \A i \in DOMAIN rest : i \in DOMAIN new /\ new[i] = rest[i]
      /\ new[Len(rest) + 1] = f
      /\ Len(rest) \in Nat /\ DOMAIN rest = 1 .. Len(rest)
  BY <1>2, <1>3
<1>6. \A i \in DOMAIN new : (i \in DOMAIN rest /\ new[i] = rest[i]) \/ (i = Len(rest) + 1 /\ new[i] = f)
  BY <1>5
<1>7. \A i \in DOMAIN rest : rest[i].id # f.id /\ rest[i].name # f.name
  BY <1>3, <1>4 DEF Has
<1>8. ASSUME NEW i \in DOMAIN new, NEW j \in DOMAIN new, i # j
      PROVE  new[i].name # new[j].name /\ new[i].id # new[j].id
  <2>1. CASE i \in DOMAIN rest /\ j \in DOMAIN rest
    BY <1>3, <1>5, <1>8, <2>1 DEF Distinct
  <2>2. CASE i \in DOMAIN rest /\ j = Len(rest) + 1
    BY <1>5, <1>7, <2>2
  <2>3. CASE i = Len(rest) + 1 /\ j \in DOMAIN rest
    BY <1>5, <1>7, <2>3
  <2> QED
    BY <1>6, <1>8, <2>1, <2>2, <2>3
<1>9. Len(rest) + 1 \in DOMAIN new
  BY <1>5
<1>10. left = stick /\ ~Has(stick, f.name) => rest = stick
  BY <1>3
<1> QED
  BY <1>4, <1>5, <1>6, <1>8, <1>9, <1>10 DEF Distinct, Grown
-----------------------------------------------------------------------------
(* What add_frame() writes: the frame comes to the end of the last file,   *)
(* which may be new.                                                       *)
Recording(id, pos) ==
  /\ names' \in Seq(File) /\ data' \in Seq(Seq(Nat)) /\ frames' \in Seq(Entry)
  /\ Len(names') \in {Len(names), Len(names) + 1}
  /\ Len(data') - Len(names') = Len(data) - Len(names) /\ Len(data') >= Len(data)
  /\ \A n \in DOMAIN names : n \in DOMAIN names' /\ names'[n] = names[n]
  /\ \A n \in DOMAIN names' : names'[n].id = (Len(data') - Len(names')) + n
  /\ id \in DOMAIN data' /\ names'[Len(names')].id = id
  /\ broken \subseteq broken' /\ absent' \subseteq broken'
  /\ id \notin broken' => pos \in DOMAIN data'[id] /\ data'[id][pos] = now + 1
  /\ pos \in Nat /\ frames' = Append(frames, [file |-> Len(names'), pos |-> pos, ts |-> now + 1])
  /\ \A f \in DOMAIN data : f \in DOMAIN data' /\ \A k \in DOMAIN data[f] :
       k \in DOMAIN data'[f] /\ data'[f][k] = data[f][k]
  /\ \A f \in DOMAIN data' : \A k \in DOMAIN data'[f] :
       \/ f \in DOMAIN data /\ k \in DOMAIN data[f] /\ data'[f][k] = data[f][k]
       \/ f = id /\ data'[f][k] = now + 1

(* Writing to the end of one of several sequences. *)
Wrote(e, d, id, t) ==
  /\ e \in Seq(Seq(Nat)) /\ Len(e) = Len(d)
  /\ Len(e[id]) \in DOMAIN e[id] /\ e[id][Len(e[id])] = t
  /\ \A f \in DOMAIN d : \A k \in DOMAIN d[f] : k \in DOMAIN e[f] /\ e[f][k] = d[f][k]
  /\ \A f \in DOMAIN e : \A k \in DOMAIN e[f] :
       \/ k \in DOMAIN d[f] /\ e[f][k] = d[f][k]
       \/ f = id /\ e[f][k] = t

LEMMA WriteAtEnd ==
  ASSUME NEW d \in Seq(Seq(Nat)), NEW id \in DOMAIN d, NEW t \in Nat,
         NEW e, e = [d EXCEPT ![id] = Append(@, t)]
  PROVE  Wrote(e, d, id, t)
<1>1. PICK q \in Seq(Nat) : q = d[id]
  OBVIOUS
<1>2. PICK r : r = Append(q, t)
  OBVIOUS
<1>3. /\ r \in Seq(Nat) /\ Len(r) = Len(q) + 1 /\ Len(r) \in DOMAIN r /\ r[Len(r)] = t
      /\ \A k \in DOMAIN q : k \in DOMAIN r /\ r[k] = q[k]
      /\ \A k \in DOMAIN r : (k \in DOMAIN q /\ r[k] = q[k]) \/ r[k] = t
  BY <1>2
<1>4. e = [d EXCEPT ![id] = r]
  BY <1>1, <1>2
<1>5. /\ DOMAIN e = DOMAIN d /\ Len(e) = Len(d) /\ e \in Seq(Seq(Nat))
      /\ e[id] = r /\ \A f \in DOMAIN d : f # id => e[f] = d[f]
  BY <1>3, <1>4
<1>6. ASSUME NEW f \in DOMAIN d, NEW k \in DOMAIN d[f] PROVE k \in DOMAIN e[f] /\ e[f][k] = d[f][k]
  <2>1. CASE f = id
    BY ONLY <1>1, <1>3, <1>5, <2>1, k \in DOMAIN d[f], Zenon
  <2>2. CASE f # id
    BY ONLY <1>5, <2>2, f \in DOMAIN d, k \in DOMAIN d[f], Zenon
  <2> QED
    BY <2>1, <2>2
<1>7. ASSUME NEW f \in DOMAIN e, NEW k \in DOMAIN e[f]
      PROVE  (k \in DOMAIN d[f] /\ e[f][k] = d[f][k]) \/ (f = id /\ e[f][k] = t)
  <2>1. CASE f = id
    BY ONLY <1>1, <1>3, <1>5, <2>1, k \in DOMAIN e[f], Zenon
  <2>2. CASE f # id
    BY ONLY <1>5, <2>2, f \in DOMAIN e, k \in DOMAIN e[f], Zenon
  <2> QED
    BY <2>1, <2>2
<1> QED
  BY ONLY <1>3, <1>5, <1>6, <1>7, Zenon DEF Wrote

LEMMA Records ==
  ASSUME Types, Filed, names # <<>>, Record(now + 1), held[live'] = now + 1,
         absent' = absent \/ absent' = absent \union {names'[Len(names')].id},
         \/ names' = names
         \/ \E f \in File : names' = Append(names, f) /\ f.id = Len(data) + 1
  PROVE  \E id, pos : Recording(id, pos)
<1> DEFINE id == names'[Len(names')].id
           old == IF id > Len(data) THEN Append(data, <<>>) ELSE data
           pos == IF id \in broken' THEN 0 ELSE Len(data'[id])
<1>1. /\ broken' \in {broken \union (absent' \ absent), broken \union {id}}
      /\ data' = IF id \in broken' THEN old ELSE [old EXCEPT ![id] = Append(@, held[live'])]
      /\ frames' = Append(frames, [file |-> Len(names'), ts |-> now + 1, pos |-> pos])
  BY Zenon DEF Record
<1>0. broken \subseteq broken' /\ absent' \subseteq broken'
  BY <1>1 DEF Types
<1>2. /\ names \in Seq(File) /\ Len(names) \in Nat \ {0} /\ data \in Seq(Seq(Nat)) /\ Len(data) \in Nat
      /\ Len(names) <= Len(data) /\ now + 1 \in Nat /\ frames \in Seq(Entry)
      /\ \A n \in DOMAIN names : names[n].id = (Len(data) - Len(names)) + n
  BY DEF Types, Filed
<1>3. /\ names' \in Seq(File) /\ Len(names') \in Nat
      /\ \A n \in DOMAIN names : n \in DOMAIN names' /\ names'[n] = names[n]
      /\ \/ Len(names') = Len(names) /\ id = Len(data)
         \/ Len(names') = Len(names) + 1 /\ id = Len(data) + 1
  <2>1. CASE names' = names
    <3>1. Len(names) \in DOMAIN names
      BY <1>2
    <3>2. id = (Len(data) - Len(names)) + Len(names)
      BY <1>2, <2>1, <3>1
    <3>3. id = Len(data)
      BY <1>2, <3>2
    <3> HIDE DEF id
    <3> QED
      BY <1>2, <2>1, <3>3
  <2>2. CASE \E f \in File : names' = Append(names, f) /\ f.id = Len(data) + 1
    <3>1. PICK f \in File : names' = Append(names, f) /\ f.id = Len(data) + 1
      BY <2>2
    <3>2. /\ Append(names, f) \in Seq(File) /\ Len(Append(names, f)) = Len(names) + 1
          /\ \A n \in DOMAIN names : n \in DOMAIN Append(names, f) /\ Append(names, f)[n] = names[n]
          /\ Append(names, f)[Len(names) + 1] = f
      BY <1>2
    <3>3. id = Len(data) + 1
      BY <3>1, <3>2
    <3> HIDE DEF id
    <3> QED
      BY <1>2, <3>1, <3>2, <3>3
  <2> QED
    BY <2>1, <2>2
<1>4. /\ old \in Seq(Seq(Nat)) /\ id \in DOMAIN old
      /\ Len(old) - Len(names') = Len(data) - Len(names) /\ Len(old) >= Len(data)
      /\ \A f \in DOMAIN data : f \in DOMAIN old /\ old[f] = data[f]
      /\ \A f \in DOMAIN old : f \in DOMAIN data \/ (f = id /\ old[f] = <<>>)
  <2>1. CASE Len(names') = Len(names) /\ id = Len(data)
    <3>1. id <= Len(data) /\ id >= 1
      BY <1>2, <2>1
    <3> HIDE DEF id
    <3>2. old = data
      BY <1>2, <2>1
    <3> HIDE DEF old
    <3> QED
      BY <1>2, <2>1, <3>1, <3>2
  <2>2. CASE Len(names') = Len(names) + 1 /\ id = Len(data) + 1
    <3> HIDE DEF id
    <3>1. old = Append(data, <<>>)
      BY <1>2, <2>2
    <3> HIDE DEF old
    <3>2. <<>> \in Seq(Nat)
      OBVIOUS
    <3>3. /\ old \in Seq(Seq(Nat)) /\ Len(old) = Len(data) + 1 /\ DOMAIN old = 1 .. Len(data) + 1
          /\ \A f \in DOMAIN data : f \in DOMAIN old /\ old[f] = data[f]
          /\ old[Len(data) + 1] = <<>>
      BY <1>2, <3>1, <3>2
    <3>4. Len(old) - Len(names') = Len(data) - Len(names) /\ Len(old) >= Len(data)
      BY <1>2, <1>3, <2>2, <3>3
    <3>5. id \in DOMAIN old /\ old[id] = <<>>
      BY <1>2, <2>2, <3>3
    <3>6. \A f \in DOMAIN old : f \in DOMAIN data \/ f = id
      BY <1>2, <2>2, <3>3
    <3> QED
      BY <3>3, <3>4, <3>5, <3>6, Zenon
  <2> QED
    BY <1>3, <2>1, <2>2
<1> HIDE DEF id, old, pos
<1>5. PICK e : e = data'
  OBVIOUS
<1> DEFINE Longer ==
      /\ e \in Seq(Seq(Nat)) /\ Len(e) = Len(old)
      /\ id \notin broken' => Len(e[id]) \in DOMAIN e[id] /\ e[id][Len(e[id])] = now + 1
      /\ \A f \in DOMAIN old : \A k \in DOMAIN old[f] : k \in DOMAIN e[f] /\ e[f][k] = old[f][k]
      /\ \A f \in DOMAIN e : \A k \in DOMAIN e[f] :
           \/ k \in DOMAIN old[f] /\ e[f][k] = old[f][k]
           \/ f = id /\ e[f][k] = now + 1
<1> HIDE DEF Longer
<1>6. Longer
  <2>0. CASE id \in broken'
    <3>1. e = old
      BY <1>1, <1>5, <2>0
    <3> QED
      BY ONLY <1>4, <2>0, <3>1, Zenon DEF Longer
  <2> SUFFICES ASSUME id \notin broken' PROVE Longer
    BY <2>0
  <2> USE DEF Longer
  <2>1. PICK d \in Seq(Seq(Nat)) : d = old
    BY <1>4
  <2>2. PICK j \in DOMAIN d : j = id
    BY <1>4, <2>1
  <2>3. PICK t \in Nat : t = now + 1
    BY <1>2
  <2>4. e = [d EXCEPT ![j] = Append(@, t)]
    BY ONLY <1>1, <1>5, <2>1, <2>2, <2>3, id \notin broken', held[live'] = now + 1, Zenon
  <2>5. d \in Seq(Seq(Nat)) /\ j \in DOMAIN d /\ t \in Nat
    OBVIOUS
  <2>6. Wrote(e, d, j, t)
    BY ONLY <2>4, <2>5, WriteAtEnd, Zenon
  <2> QED
    BY ONLY <2>1, <2>2, <2>3, <2>6, Zenon DEF Wrote
<1> USE DEF Longer
<1>7. DOMAIN e = DOMAIN old /\ pos \in Nat /\ (id \notin broken' => pos = Len(e[id]))
  BY <1>4, <1>5, <1>6 DEF pos
<1>8. \A f \in DOMAIN data : f \in DOMAIN e /\ \A k \in DOMAIN data[f] :
        k \in DOMAIN e[f] /\ e[f][k] = data[f][k]
  <2>1. ASSUME NEW f \in DOMAIN data
        PROVE  f \in DOMAIN e /\ \A k \in DOMAIN data[f] : k \in DOMAIN e[f] /\ e[f][k] = data[f][k]
    <3>1. f \in DOMAIN old /\ old[f] = data[f]
      BY ONLY <1>4, f \in DOMAIN data, Zenon
    <3> QED
      BY ONLY <1>6, <1>7, <3>1, Zenon
  <2> QED
    BY <2>1
<1>9. \A f \in DOMAIN e : \A k \in DOMAIN e[f] :
        \/ f \in DOMAIN data /\ k \in DOMAIN data[f] /\ e[f][k] = data[f][k]
        \/ f = id /\ e[f][k] = now + 1
  <2>1. DOMAIN <<>> = {}
    OBVIOUS
  <2> QED
    BY ONLY <1>4, <1>6, <1>7, <2>1, Zenon
<1>10. \A n \in DOMAIN names' : names'[n].id = (Len(e) - Len(names')) + n
  <2> SUFFICES ASSUME NEW n \in DOMAIN names' PROVE names'[n].id = (Len(e) - Len(names')) + n
    OBVIOUS
  <2>1. Len(e) - Len(names') = Len(data) - Len(names)
    BY <1>4, <1>6
  <2>2. CASE n \in DOMAIN names
    BY <1>2, <1>3, <2>1, <2>2
  <2>3. CASE n \notin DOMAIN names
    <3>1. n = Len(names') /\ Len(names') = Len(names) + 1 /\ id = Len(data) + 1
      BY <1>2, <1>3, <2>3
    <3>2. names'[n].id = id
      BY <3>1 DEF id
    <3>3. (Len(data) - Len(names)) + n = Len(data) + 1
      BY <1>2, <3>1
    <3> QED
      BY <2>1, <3>1, <3>2, <3>3
  <2> QED
    BY <2>2, <2>3
<1>11. frames' = Append(frames, [file |-> Len(names'), pos |-> pos, ts |-> now + 1])
  BY <1>1
<1>12. frames' \in Seq(Entry)
  <2>1. [file |-> Len(names'), pos |-> pos, ts |-> now + 1] \in Entry
    BY <1>2, <1>3, <1>7 DEF Entry
  <2> QED
    BY <1>2, <1>11, <2>1
<1>13. names'[Len(names')].id = id
  BY DEF id
<1>14. Len(e) - Len(names') = Len(data) - Len(names) /\ Len(e) >= Len(data)
  BY <1>4, <1>6
<1>15. Recording(id, pos)
  BY <1>0, <1>3, <1>4, <1>5, <1>6, <1>7, <1>8, <1>9, <1>10, <1>11, <1>12, <1>13, <1>14, Zenon DEF Recording
<1> QED
  BY <1>15
-----------------------------------------------------------------------------
(* What a frame that is added changes.                                     *)
Looked == /\ checked' \in BOOLEAN /\ ready' \in BOOLEAN /\ copyTo' = ready' /\ (ready' => checked')
          /\ ready' \/ ~checked' => ready \/ ~checked

LEMMA MediaIs == ASSUME Types, NEW t, MediaCheck(t) PROVE Looked
<1>1. checked \in BOOLEAN /\ ready \in BOOLEAN /\ copyTo = ready /\ (ready => checked)
  BY DEF Types
<1>2. CASE ~checked /\ t - start > First
  <2>1. checked' = TRUE /\ copyTo' = ready' /\ \E found \in Media : ready' = check_media(found)
    BY <1>2, Zenon DEF MediaCheck
  <2>2. PICK found : ready' = (found.mounted /\ found.directory /\ found.intact)
    BY <2>1, Zenon DEF check_media
  <2>3. ready' \in BOOLEAN
    BY ONLY <2>2, Zenon
  <2> QED
    BY <1>2, <2>1, <2>3, Zenon DEF Looked
<1>3. CASE ~(~checked /\ t - start > First)
  <2>1. UNCHANGED media
    BY <1>3, Zenon DEF MediaCheck
  <2> QED
    BY <1>1, <2>1 DEF Looked, media
<1> QED
  BY <1>2, <1>3

(* A segment begins: its file is the next one made. *)
Beginning(f) ==
  /\ f \in File /\ f.id = Len(data) + 1 /\ f.name[1] = stamp /\ f.name[2] # 0
  /\ names' = Append(names, f) /\ start' = now + 1
  /\ stick' \in Seq(File) /\ Distinct(stick')
  /\ \A i \in DOMAIN stick' : stick'[i] = f \/ \E j \in DOMAIN stick : stick'[i] = stick[j]
  /\ absent' = absent \/ absent' = absent \union {f.id}
  /\ f.id \notin absent' => \E i \in DOMAIN stick' : stick'[i] = f
  /\ mishaps \subseteq mishaps' /\ mishaps' \subseteq mishaps \union {"deleted", "overwritten"}
  /\ Alone' => \A j \in DOMAIN stick : \E i \in DOMAIN stick' : stick'[i] = stick[j]

Filing == \/ UNCHANGED <<names, stick, absent, start, mishaps>>
          \/ \E f : Beginning(f)

Added == /\ pc = "add" /\ now' = now + 1 /\ done > 0 /\ done' = done - 1 /\ held' = held
         /\ live' = Head(ring) /\ ring' = Tail(ring) /\ coded' = NoFrame
         /\ Looked
         /\ UNCHANGED global

LEMMA BeginIs == ASSUME Types, Filed, names # <<>>, BeginSegment(now + 1)
                 PROVE  \E f : Beginning(f)
<1> DEFINE name == GenName(Len(names) + 1)
           f == [name |-> name, id |-> Len(data) + 1]
<1>1. PICK left \in AfterDeletion, failed \in SUBSET {f.id} :
        /\ stick' = IF failed = {} THEN Append(Without(left, name), f) ELSE Without(left, name)
        /\ absent' = absent \union failed
        /\ names' = Append(names, f)
        /\ start' = now + 1
        /\ mishaps' = mishaps \union (IF left # stick THEN {"deleted"} ELSE {})
                              \union (IF OnStick(name) THEN {"overwritten"} ELSE {})
  BY Zenon DEF BeginSegment
<1>2. /\ names \in Seq(File) /\ Len(names) \in Nat \ {0} /\ Len(data) \in Nat /\ stamp \in Nat
      /\ stick \in Seq(File) /\ data \in Seq(Seq(Nat))
  BY DEF Types
<1>3. (Len(names) + 1) - 1 = Len(names)
  BY <1>2
<1>4. name = <<stamp, FragmentNum(Len(names))>>
  BY <1>3 DEF GenName
<1>5. FragmentNum(Len(names)) \in Nat /\ FragmentNum(Len(names)) # 0
  BY <1>2, Fragment
<1>6. name \in Nat \X Nat /\ name[1] = stamp /\ name[2] # 0
  BY <1>2, <1>4, <1>5
<1> HIDE DEF name
<1>7. f \in File /\ f.id = Len(data) + 1 /\ f.name = name
  BY <1>2, <1>6 DEF File
<1>8. \A i \in DOMAIN stick : stick[i].id # Len(data) + 1
  BY <1>2 DEF Filed
<1> HIDE DEF f
<1>9. \A i \in DOMAIN stick : stick[i].id # f.id
  BY <1>7, <1>8
<1>10. stick' = IF failed = {} THEN Append(Without(left, f.name), f) ELSE Without(left, f.name)
  BY <1>1, <1>7
<1>11. Distinct(stick)
  BY DEF Filed
<1>12. /\ stick' \in Seq(File) /\ Distinct(stick')
       /\ \A i \in DOMAIN stick' : stick'[i] = f \/ \E j \in DOMAIN stick : stick'[i] = stick[j]
       /\ failed = {} => \E i \in DOMAIN stick' : stick'[i] = f
       /\ left = stick /\ ~Has(stick, f.name) =>
            \A j \in DOMAIN stick : \E i \in DOMAIN stick' : stick'[i] = stick[j]
  <2>1. PICK new : new = stick'
    OBVIOUS
  <2>2. PICK g : g = f
    OBVIOUS
  <2>3. CASE failed = {}
    <3>1. /\ g \in File /\ new = Append(Without(left, g.name), g) /\ \A i \in DOMAIN stick : stick[i].id # g.id
          /\ left \in AfterDeletion /\ stick \in Seq(File) /\ Distinct(stick)
      BY <1>2, <1>7, <1>9, <1>10, <1>11, <2>1, <2>2, <2>3
    <3>2. Grown(new, left, g)
      BY ONLY <3>1, StickGrows, Zenon
    <3> QED
      BY ONLY <2>1, <2>2, <3>2, Zenon DEF Grown
  <2>4. CASE failed # {}
    <3>1. stick' = Without(left, f.name)
      BY <1>10, <2>4
    <3>2. left \in Seq(File) /\ Distinct(left) /\ \A i \in DOMAIN left : \E j \in DOMAIN stick : left[i] = stick[j]
      BY <1>1, <1>2, <1>11, LeftIs
    <3>3. /\ new \in Seq(File) /\ Distinct(new)
          /\ \A i \in DOMAIN new : \E j \in DOMAIN left : new[i] = left[j]
          /\ ~Has(left, g.name) => new = left
      BY <2>1, <2>2, <3>1, <3>2, WithoutIs
    <3> QED
      BY ONLY <2>1, <2>2, <2>4, <3>2, <3>3, ZenonT(40)
  <2> QED
    BY <2>3, <2>4
<1>13. /\ mishaps \subseteq mishaps' /\ mishaps' \subseteq mishaps \union {"deleted", "overwritten"}
       /\ Alone' => left = stick /\ ~OnStick(name)
  BY <1>1 DEF Alone
<1>14. Alone' => \A j \in DOMAIN stick : \E i \in DOMAIN stick' : stick'[i] = stick[j]
  BY <1>7, <1>12, <1>13, Zenon DEF OnStick
<1>15. failed = {} \/ failed = {f.id}
  BY <1>1
<1>16. absent' = absent \/ absent' = absent \union {f.id}
  BY <1>1, <1>15
<1>17. f.id \notin absent' => failed = {}
  BY <1>1, <1>15
<1>18. f.name[1] = stamp /\ f.name[2] # 0
  BY ONLY <1>6, <1>7, Zenon
<1>19. f.id \notin absent' => \E i \in DOMAIN stick' : stick'[i] = f
  BY ONLY <1>12, <1>17, Zenon
<1>20. names' = Append(names, f) /\ start' = now + 1
  BY ONLY <1>1, Zenon
<1>21. Beginning(f)
  BY ONLY <1>7, <1>12, <1>13, <1>14, <1>16, <1>18, <1>19, <1>20, Zenon DEF Beginning
<1> QED
  BY ONLY <1>21, Zenon

(* What getFrame() gives. *)
LEMMA FetchIs ==
  ASSUME Types, Buffered, pc = "add", GetFrame
  PROVE  /\ now' = now + 1 /\ done > 0 /\ done' = done - 1 /\ held' = held /\ coded' = NoFrame
         /\ live' = Head(ring) /\ ring' = Tail(ring)
         /\ ring' \in Seq(Buffers) /\ done' \in 0 .. Len(ring') /\ Len(ring') = Bufs - 1 /\ live' \in Buffers
         /\ now' \in Nat /\ now' + done' <= MaxFrames
         /\ held'[live'] = now' /\ \A i \in DOMAIN ring' : ring'[i] # live'
         /\ \A i, j \in DOMAIN ring' : i # j => ring'[i] # ring'[j]
         /\ \A i \in 1 .. done' : held'[ring'[i]] = now' + i
<1>1. /\ now' = now + 1 /\ done > 0 /\ done' = done - 1 /\ held' = held /\ coded' = NoFrame
      /\ live' = Head(ring) /\ ring' = Tail(ring)
  BY DEF GetFrame
<1>2. /\ ring \in Seq(Buffers) /\ done \in 0 .. Len(ring) /\ now \in Nat /\ now + done <= MaxFrames
      /\ Len(ring) = Bufs /\ Len(ring) \in Nat /\ Bufs \in Nat /\ MaxFrames \in Nat
      /\ \A i, j \in DOMAIN ring : i # j => ring[i] # ring[j]
      /\ \A i \in 1 .. done : held[ring[i]] = now + i
  BY RecorderAssumption DEF Types, Buffered
<1>3. ring # <<>> /\ Len(ring) >= 1 /\ DOMAIN ring = 1 .. Len(ring) /\ Head(ring) = ring[1] /\ 1 \in 1 .. done
  BY <1>1, <1>2
<1>4. PICK rest : rest = Tail(ring)
  OBVIOUS
<1>5. /\ rest \in Seq(Buffers) /\ Len(rest) = Len(ring) - 1 /\ DOMAIN rest = 1 .. Len(ring) - 1
      /\ \A i \in 1 .. Len(ring) - 1 : rest[i] = ring[i + 1]
  BY <1>2, <1>3, <1>4, HeadTailProperties
<1>6. \A i \in DOMAIN rest : rest[i] = ring[i + 1] /\ i \in Nat /\ i + 1 \in DOMAIN ring /\ i + 1 # 1
  BY <1>2, <1>3, <1>5
<1>7. live' = ring[1] /\ ring[1] \in Buffers /\ held'[live'] = now'
  BY <1>1, <1>2, <1>3
<1>8. \A i \in DOMAIN rest : rest[i] # ring[1]
  BY <1>2, <1>3, <1>6
<1>9. ASSUME NEW i \in DOMAIN rest, NEW j \in DOMAIN rest, i # j PROVE rest[i] # rest[j]
  <2>1. i + 1 # j + 1
    BY <1>6, <1>9
  <2> QED
    BY <1>2, <1>6, <2>1
<1>10. ASSUME NEW i \in 1 .. done' PROVE held'[rest[i]] = now' + i
  <2>1. i \in DOMAIN rest /\ i + 1 \in 1 .. done
    BY <1>1, <1>2, <1>5
  <2>2. held[ring[i + 1]] = now + (i + 1)
    BY <1>2, <2>1
  <2> QED
    BY <1>1, <1>2, <1>6, <2>1, <2>2
<1>11. done' \in 0 .. Len(rest) /\ now' \in Nat /\ now' + done' <= MaxFrames
  BY <1>1, <1>2, <1>5
<1> QED
  BY <1>1, <1>2, <1>4, <1>5, <1>7, <1>8, <1>9, <1>10, <1>11

LEMMA AddIs ==
  ASSUME Types, Buffered, Filed, AddFrame
  PROVE  /\ Added /\ pc' = "next" /\ UNCHANGED <<cur, reader, out>>
         /\ \/ ~(ready' \/ ~checked') /\ UNCHANGED <<stick, absent, names, start, mishaps, data, broken, frames>>
            \/ (ready' \/ ~checked') /\ Filing /\ \E id, pos : Recording(id, pos)
<1>1. /\ pc = "add" /\ GetFrame /\ MediaCheck(now + 1) /\ pc' = "next"
      /\ UNCHANGED <<cur, reader, out, global>>
      /\ IF NeedSegment(now + 1) THEN BeginSegment(now + 1) ELSE UNCHANGED <<stick, absent, names, start, mishaps>>
      /\ IF ready' \/ ~checked' THEN Record(now + 1) ELSE UNCHANGED <<data, broken, frames>>
  BY Zenon DEF AddFrame
<1>2. Looked
  BY <1>1, MediaIs
<1>3. names # <<>> /\ names \in Seq(File) /\ Len(data) \in Nat
  BY <1>1 DEF Types
<1>4. Added /\ held[live'] = now + 1
  BY <1>1, <1>2, FetchIs DEF Added
<1>5. CASE ~(ready' \/ ~checked')
  <2>1. ~NeedSegment(now + 1)
    BY <1>5 DEF NeedSegment
  <2> QED
    BY <1>1, <1>4, <1>5, <2>1
<1>6. CASE ready' \/ ~checked'
  <2>1. Record(now + 1)
    BY <1>1, <1>6
  <2>2. CASE NeedSegment(now + 1)
    <3>1. PICK f : Beginning(f)
      BY <1>1, <1>3, <2>2, BeginIs
    <3>2. f \in File /\ names' = Append(names, f) /\ f.id = Len(data) + 1
      BY <3>1 DEF Beginning
    <3>5. names'[Len(names')] = f
      <4>1. Len(names') = Len(names) + 1 /\ names'[Len(names) + 1] = f
        BY <1>3, <3>2
      <4> QED
        BY <4>1
    <3>6. absent' = absent \/ absent' = absent \union {names'[Len(names')].id}
      BY <3>1, <3>5 DEF Beginning
    <3>3. \E id, pos : Recording(id, pos)
      BY <1>3, <1>4, <2>1, <3>2, <3>6, Records
    <3>4. Filing
      BY <3>1 DEF Filing
    <3> QED
      BY <1>1, <1>4, <1>6, <3>3, <3>4, Zenon
  <2>3. CASE ~NeedSegment(now + 1)
    <3>1. UNCHANGED <<stick, absent, names, start, mishaps>>
      BY <1>1, <2>3
    <3>2. \E id, pos : Recording(id, pos)
      BY <1>3, <1>4, <2>1, <3>1, Records
    <3>3. Filing
      BY <3>1 DEF Filing
    <3> QED
      BY <1>1, <1>4, <1>6, <3>2, <3>3, Zenon
  <2> QED
    BY <2>2, <2>3
<1> QED
  BY <1>5, <1>6
-----------------------------------------------------------------------------
(* add_frame() keeps the invariant.                                        *)
LEMMA AddTypes == ASSUME Types, Buffered, Filed, AddFrame PROVE Types' /\ Buffered'
<1>1. /\ Added /\ pc' = "next" /\ UNCHANGED <<cur, reader, out>>
      /\ \/ ~(ready' \/ ~checked') /\ UNCHANGED <<stick, absent, names, start, mishaps, data, broken, frames>>
         \/ (ready' \/ ~checked') /\ Filing /\ \E id, pos : Recording(id, pos)
  BY AddIs
<1>2. now' = now + 1 /\ pc = "add" /\ UNCHANGED global /\ Looked /\ GetFrame
  BY <1>1, Zenon DEF Added, AddFrame
<1>3. /\ ring' \in Seq(Buffers) /\ done' \in 0 .. Len(ring') /\ Len(ring') <= Bufs /\ live' \in Buffers
      /\ held' \in [Buffers -> Nat] /\ now' \in Nat /\ now' + done' <= MaxFrames
      /\ Buffered'
  <2>1. /\ held' = held /\ ring' \in Seq(Buffers) /\ done' \in 0 .. Len(ring') /\ Len(ring') = Bufs - 1
        /\ live' \in Buffers /\ now' \in Nat /\ now' + done' <= MaxFrames
        /\ held'[live'] = now' /\ \A i \in DOMAIN ring' : ring'[i] # live'
        /\ \A i, j \in DOMAIN ring' : i # j => ring'[i] # ring'[j]
        /\ \A i \in 1 .. done' : held'[ring'[i]] = now' + i
    BY <1>2, FetchIs
  <2>2. Len(ring') <= Bufs
    BY <2>1, RecorderAssumption
  <2>3. Buffered'
    BY <1>1, <2>1 DEF Buffered
  <2> QED
    BY <2>1, <2>2, <2>3 DEF Types
<1>4. runs' \in Nat /\ stamp' \in Nat /\ mode' \in Modes /\ allowed' \in BOOLEAN /\ born' = born /\ runs' > 0
  BY <1>2 DEF Types, global
<1>5. checked' \in BOOLEAN /\ ready' \in BOOLEAN /\ copyTo' = ready' /\ (ready' => checked')
  BY <1>2 DEF Looked
<1>6. /\ start' \in 0 .. now' /\ born' \in 0 .. start'
      /\ names' \in Seq(File) /\ stick' \in Seq(File) /\ data' \in Seq(Seq(Nat)) /\ data' # <<>>
      /\ frames' \in Seq(Entry) /\ names' # <<>> /\ absent' \subseteq broken'
  <2>1. /\ now \in Nat /\ start \in 0 .. now /\ born \in 0 .. start
        /\ names \in Seq(File) /\ stick \in Seq(File) /\ data \in Seq(Seq(Nat)) /\ data # <<>>
        /\ frames \in Seq(Entry) /\ names # <<>> /\ absent \subseteq broken
    BY <1>2 DEF Types
  <2>2. CASE UNCHANGED <<stick, absent, names, start, mishaps, data, broken, frames>>
    BY <1>2, <1>4, <2>1, <2>2
  <2>3. ASSUME Filing, NEW id, NEW pos, Recording(id, pos)
        PROVE  /\ start' \in 0 .. now' /\ born' \in 0 .. start'
               /\ names' \in Seq(File) /\ stick' \in Seq(File) /\ data' \in Seq(Seq(Nat)) /\ data' # <<>>
               /\ frames' \in Seq(Entry) /\ names' # <<>> /\ absent' \subseteq broken'
    <3>1. /\ absent' \subseteq broken' /\ names' \in Seq(File) /\ data' \in Seq(Seq(Nat)) /\ frames' \in Seq(Entry)
          /\ Len(names') \in {Len(names), Len(names) + 1} /\ Len(data') >= Len(data)
      BY <2>3 DEF Recording
    <3>2. (start' = start \/ start' = now + 1) /\ stick' \in Seq(File)
      <4>1. CASE stick' = stick /\ start' = start
        BY <2>1, <4>1
      <4>2. CASE \E f : Beginning(f)
        BY <4>2 DEF Beginning
      <4> QED
        BY <2>3, <4>1, <4>2 DEF Filing
    <3>3. start' \in 0 .. now' /\ born' \in 0 .. start'
      BY <1>2, <1>4, <2>1, <3>2
    <3>4. Len(names) \in Nat \ {0} /\ Len(data) \in Nat \ {0}
      BY <2>1
    <3>5. names' # <<>> /\ data' # <<>>
      BY <3>1, <3>4
    <3> QED
      BY <3>1, <3>2, <3>3, <3>5
  <2> QED
    BY <1>1, <2>2, <2>3
<1>7. /\ cur' \in Nat /\ reader' \in [file : Nat, bad : BOOLEAN]
      /\ out' \in [ts : Nat, pic : Nat, file : Nat] /\ out'.ts <= now'
  BY <1>1, <1>2 DEF Types
<1>8. pc' = "next"
  BY <1>1
<1> QED
  BY <1>3, <1>4, <1>5, <1>6, <1>7, <1>8 DEF Types

LEMMA AddFiled == ASSUME Types, Buffered, Filed, AddFrame PROVE Filed'
<1>1. /\ Added /\ pc' = "next" /\ UNCHANGED <<cur, reader, out>>
      /\ \/ ~(ready' \/ ~checked') /\ UNCHANGED <<stick, absent, names, start, mishaps, data, broken, frames>>
         \/ (ready' \/ ~checked') /\ Filing /\ \E id, pos : Recording(id, pos)
  BY AddIs
<1>2. /\ names \in Seq(File) /\ stick \in Seq(File) /\ data \in Seq(Seq(Nat)) /\ names # <<>>
      /\ Len(names) \in Nat \ {0} /\ Len(data) \in Nat /\ DOMAIN data = 1 .. Len(data)
      /\ 1 \in DOMAIN names /\ pc = "add"
  BY <1>1 DEF Types, Added
<1>3. /\ Len(names) <= Len(data) /\ names[1].id = (Len(data) - Len(names)) + 1
      /\ \A i \in DOMAIN stick : stick[i].id \in DOMAIN data /\ stick[i].id # names[1].id
      /\ Distinct(stick)
  BY <1>2 DEF Filed
<1>4. CASE UNCHANGED <<stick, absent, names, start, mishaps, data, broken, frames>>
  BY <1>1, <1>2, <1>4 DEF Filed, Distinct
<1>5. ASSUME Filing, NEW id, NEW pos, Recording(id, pos) PROVE Filed'
  <2>1. /\ data' \in Seq(Seq(Nat)) /\ names' \in Seq(File)
        /\ Len(data') - Len(names') = Len(data) - Len(names)
        /\ \A n \in DOMAIN names' : names'[n].id = (Len(data') - Len(names')) + n
        /\ names'[1] = names[1]
        /\ \A f \in DOMAIN data : f \in DOMAIN data'
    BY <1>2, <1>5 DEF Recording
  <2>2. Len(names') <= Len(data')
    BY <1>2, <1>3, <2>1
  <2>3. /\ \A i \in DOMAIN stick' : stick'[i].id \in DOMAIN data' /\ stick'[i].id # names'[1].id
        /\ Distinct(stick')
    <3>1. CASE stick' = stick
      BY <1>3, <2>1, <3>1
    <3>2. ASSUME NEW f, Beginning(f)
          PROVE  /\ \A i \in DOMAIN stick' : stick'[i].id \in DOMAIN data' /\ stick'[i].id # names'[1].id
                 /\ Distinct(stick')
      <4>1. /\ f.id = Len(data) + 1 /\ names' = Append(names, f) /\ f \in File /\ Distinct(stick')
            /\ \A i \in DOMAIN stick' : stick'[i] = f \/ \E j \in DOMAIN stick : stick'[i] = stick[j]
        BY <3>2 DEF Beginning
      <4>2. Len(names') = Len(names) + 1
        BY <1>2, <4>1
      <4>3. f.id \in DOMAIN data' /\ f.id # names[1].id
        BY <1>2, <1>3, <2>1, <4>1, <4>2
      <4> QED
        BY <1>3, <2>1, <4>1, <4>3
    <3> QED
      BY <1>5, <3>1, <3>2 DEF Filing
  <2> QED
    BY <2>1, <2>2, <2>3 DEF Filed
<1> QED
  BY <1>1, <1>4, <1>5

LEMMA AddOnce == ASSUME Types, Buffered, Filed, Once, AddFrame PROVE Once'
<1>1. /\ Added
      /\ \/ ~(ready' \/ ~checked') /\ UNCHANGED <<stick, absent, names, start, mishaps, data, broken, frames>>
         \/ (ready' \/ ~checked') /\ Filing /\ \E id, pos : Recording(id, pos)
  BY AddIs
<1>2. now \in Nat /\ now' = now + 1
  BY <1>1 DEF Types, Added
<1>3. CASE UNCHANGED <<stick, absent, names, start, mishaps, data, broken, frames>>
  BY <1>2, <1>3 DEF Once
<1>4. ASSUME NEW id, NEW pos, Recording(id, pos) PROVE Once'
  <2>1. \A f \in DOMAIN data' : \A k \in DOMAIN data'[f] :
          \/ f \in DOMAIN data /\ k \in DOMAIN data[f] /\ data'[f][k] = data[f][k]
          \/ f = id /\ data'[f][k] = now + 1
    BY <1>4 DEF Recording
  <2>2. \A f \in DOMAIN data : \A k \in DOMAIN data[f] : data[f][k] \in 1 .. now /\ data[f][k] # now + 1
    BY <1>2 DEF Once
  <2>3. \A f \in DOMAIN data' : \A k \in DOMAIN data'[f] : data'[f][k] \in 1 .. now'
    BY <1>2, <2>1, <2>2
  <2>4. ASSUME NEW f \in DOMAIN data', NEW g \in DOMAIN data', NEW k \in DOMAIN data'[f],
               NEW l \in DOMAIN data'[g], data'[f][k] = data'[g][l]
        PROVE  f = g
    <3>1. CASE f = id /\ data'[f][k] = now + 1
      BY <2>1, <2>2, <2>4, <3>1
    <3>2. CASE g = id /\ data'[g][l] = now + 1
      BY <2>1, <2>2, <2>4, <3>2
    <3>3. CASE /\ f \in DOMAIN data /\ k \in DOMAIN data[f] /\ data'[f][k] = data[f][k]
               /\ g \in DOMAIN data /\ l \in DOMAIN data[g] /\ data'[g][l] = data[g][l]
      BY <2>4, <3>3 DEF Once
    <3> QED
      BY <2>1, <3>1, <3>2, <3>3
  <2> QED
    BY <2>3, <2>4 DEF Once
<1> QED
  BY <1>1, <1>3, <1>4

LEMMA AddInOrder == ASSUME Types, Buffered, Filed, Once, InOrder, AddFrame PROVE InOrder'
<1>1. /\ Added
      /\ \/ ~(ready' \/ ~checked') /\ UNCHANGED <<stick, absent, names, start, mishaps, data, broken, frames>>
         \/ (ready' \/ ~checked') /\ Filing /\ \E id, pos : Recording(id, pos)
  BY AddIs
<1>2. /\ now \in Nat /\ names \in Seq(File) /\ Len(names) \in Nat \ {0} /\ frames \in Seq(Entry)
      /\ Len(frames) \in Nat /\ data \in Seq(Seq(Nat)) /\ Len(data) \in Nat
  BY <1>1 DEF Types, Added
<1>3. CASE UNCHANGED <<stick, absent, names, start, mishaps, data, broken, frames>>
  BY <1>1, <1>2, <1>3 DEF InOrder, Entered, WrittenTo, Added
<1>4. ASSUME NEW id, NEW pos, Recording(id, pos) PROVE InOrder'
  <2>1. /\ names' \in Seq(File) /\ Len(names') \in {Len(names), Len(names) + 1}
        /\ \A n \in DOMAIN names : n \in DOMAIN names' /\ names'[n] = names[n]
        /\ id \in DOMAIN data' /\ names'[Len(names')].id = id /\ broken \subseteq broken'
        /\ id \notin broken' => pos \in DOMAIN data'[id] /\ data'[id][pos] = now + 1
        /\ frames' = Append(frames, [file |-> Len(names'), pos |-> pos, ts |-> now + 1])
        /\ \A f \in DOMAIN data : f \in DOMAIN data' /\ \A k \in DOMAIN data[f] :
             k \in DOMAIN data'[f] /\ data'[f][k] = data[f][k]
    BY <1>4 DEF Recording
  <2>2. PICK fr : fr = [file |-> Len(names'), pos |-> pos, ts |-> now + 1]
    OBVIOUS
  <2>3. fr.file = Len(names') /\ fr.pos = pos /\ fr.ts = now + 1 /\ fr.file \in Nat /\ fr.file >= Len(names)
        /\ now' = now + 1
    BY <1>1, <1>2, <2>1, <2>2 DEF Added
  <2>4. Len(names') \in DOMAIN names' /\ now + 1 \in 1 .. now'
    BY <1>2, <2>1, <2>3
  <2>5. Entered(fr, names', data', broken', now')
    BY ONLY <2>1, <2>3, <2>4, Zenon DEF Entered, WrittenTo
  <2>6. ASSUME NEW i \in DOMAIN frames
        PROVE  Entered(frames[i], names', data', broken', now') /\ frames[i].ts < fr.ts /\ frames[i].file <= fr.file
    <3>1. PICK q : q = frames[i]
      OBVIOUS
    <3>2. Entered(q, names, data, broken, now)
      BY <3>1 DEF InOrder
    <3>3. q.file \in DOMAIN names /\ q.ts \in 1 .. now /\ (names[q.file].id \notin broken => WrittenTo(q, names, data))
      BY <3>2 DEF Entered
    <3>4. names[q.file].id \in DOMAIN data
      <4>1. names[q.file].id = (Len(data) - Len(names)) + q.file /\ Len(names) <= Len(data)
        BY <3>3 DEF Filed
      <4>2. q.file \in 1 .. Len(names)
        BY <1>2, <3>3
      <4> QED
        BY <1>2, <4>1, <4>2
    <3>5. names[q.file].id \notin broken => WrittenTo(q, names', data')
      BY ONLY <2>1, <3>3, <3>4, Zenon DEF WrittenTo
    <3>6. q.ts \in 1 .. now' /\ q.file \in DOMAIN names' /\ names'[q.file] = names[q.file]
      BY <1>2, <2>1, <2>3, <3>3
    <3>7. q.file \in Nat /\ q.file <= Len(names)
      BY <1>2, <3>3
    <3>8. Entered(q, names', data', broken', now')
      BY ONLY <2>1, <3>5, <3>6, Zenon DEF Entered
    <3> QED
      BY <1>2, <2>3, <3>1, <3>3, <3>7, <3>8
  <2>7. /\ DOMAIN frames' = 1 .. Len(frames) + 1 /\ DOMAIN frames = 1 .. Len(frames)
        /\ \A i \in DOMAIN frames : frames'[i] = frames[i]
        /\ frames'[Len(frames) + 1] = fr
    BY <1>2, <2>1, <2>2
  <2>8. ASSUME NEW i \in DOMAIN frames' PROVE Entered(frames'[i], names', data', broken', now')
    <3>1. CASE i \in DOMAIN frames
      BY <2>6, <2>7, <3>1
    <3>2. CASE i = Len(frames) + 1
      BY <2>5, <2>7, <3>2
    <3> QED
      BY <1>2, <2>7, <3>1, <3>2
  <2>9. ASSUME NEW i \in DOMAIN frames', NEW j \in DOMAIN frames', i < j
        PROVE  frames'[i].ts < frames'[j].ts /\ frames'[i].file <= frames'[j].file
    <3>1. i \in DOMAIN frames /\ frames'[i] = frames[i]
      BY <1>2, <2>7, <2>9
    <3>2. CASE j \in DOMAIN frames
      BY <2>7, <2>9, <3>1, <3>2 DEF InOrder
    <3>3. CASE j = Len(frames) + 1
      BY <2>6, <2>7, <3>1, <3>3
    <3> QED
      BY <1>2, <2>7, <3>2, <3>3
  <2> QED
    BY <2>8, <2>9 DEF InOrder
<1> QED
  BY <1>1, <1>3, <1>4

(* What has not failed after add_frame() had not failed before. *)
LEMMA FailedBefore == ASSUME Types, Buffered, Filed, AddFrame
                      PROVE  /\ (Made' => Made) /\ (Unbroken' => Unbroken)
                             /\ mishaps \subseteq mishaps' /\ (Failed => Failed') /\ (Alone' => Alone)
<1>1. /\ Added
      /\ \/ ~(ready' \/ ~checked') /\ UNCHANGED <<stick, absent, names, start, mishaps, data, broken, frames>>
         \/ (ready' \/ ~checked') /\ Filing /\ \E id, pos : Recording(id, pos)
  BY AddIs
<1>2. CASE UNCHANGED <<stick, absent, names, start, mishaps, data, broken, frames>>
  BY <1>2 DEF Made, Unbroken, Failed, Alone
<1>3. ASSUME Filing, NEW id, NEW pos, Recording(id, pos)
      PROVE  /\ broken \subseteq broken' /\ absent \subseteq absent' /\ mishaps \subseteq mishaps'
             /\ \A n \in DOMAIN names : n \in DOMAIN names' /\ names'[n] = names[n]
  <2>1. broken \subseteq broken' /\ \A n \in DOMAIN names : n \in DOMAIN names' /\ names'[n] = names[n]
    BY <1>3 DEF Recording
  <2>2. absent \subseteq absent' /\ mishaps \subseteq mishaps'
    <3>1. CASE UNCHANGED <<names, stick, absent, start, mishaps>>
      BY <3>1
    <3>2. CASE \E f : Beginning(f)
      BY <3>2 DEF Beginning
    <3> QED
      BY <1>3, <3>1, <3>2 DEF Filing
  <2> QED
    BY <2>1, <2>2
<1> QED
  BY <1>1, <1>2, <1>3 DEF Made, Unbroken, Failed, Alone

LEMMA AddReading == ASSUME Types, Buffered, Filed, Reading, AddFrame PROVE Reading'
<1>1. /\ Added /\ pc' = "next" /\ UNCHANGED <<cur, reader, out>>
      /\ \/ ~(ready' \/ ~checked') /\ UNCHANGED <<stick, absent, names, start, mishaps, data, broken, frames>>
         \/ (ready' \/ ~checked') /\ Filing /\ \E id, pos : Recording(id, pos)
  BY AddIs
<1>2. /\ names \in Seq(File) /\ Len(names) \in Nat \ {0} /\ frames \in Seq(Entry) /\ Len(frames) \in Nat
      /\ data \in Seq(Seq(Nat)) /\ Len(data) \in Nat
  BY <1>1 DEF Types, Added
<1>3. /\ cur \in 0 .. Len(names) /\ reader.file \in 0 .. Len(data) /\ (cur # 0 => reader.file # 0)
      /\ Failed \/ /\ Len(names) = 1 => OnFirst
                   /\ frames # <<>> /\ frames[1].file = 1 => OnFirst
                   /\ Alone /\ reader.file # 0 /\ ~reader.bad => cur # 0 /\ reader.file = names[cur].id
  BY DEF Reading
<1>4. (Failed => Failed') /\ (Alone' => Alone)
  BY FailedBefore
<1>5. CASE UNCHANGED <<stick, absent, names, start, mishaps, data, broken, frames>>
  <2>1. OnFirst' <=> OnFirst
    BY <1>1, <1>5 DEF OnFirst
  <2>2. pc' # "code"
    BY <1>1
  <2> QED
    BY <1>1, <1>3, <1>4, <1>5, <2>1, <2>2 DEF Reading
<1>6. ASSUME NEW id, NEW pos, Recording(id, pos) PROVE Reading'
  <2>1. /\ Len(names') \in {Len(names), Len(names) + 1} /\ Len(data') >= Len(data)
        /\ Len(data') \in Nat /\ names' \in Seq(File)
        /\ \A n \in DOMAIN names : names'[n] = names[n]
        /\ names'[1] = names[1]
        /\ frames' = Append(frames, [file |-> Len(names'), pos |-> pos, ts |-> now + 1])
    <3>1. 1 \in DOMAIN names
      BY <1>2
    <3>2. /\ Len(names') \in {Len(names), Len(names) + 1} /\ Len(data') >= Len(data)
          /\ names' \in Seq(File) /\ data' \in Seq(Seq(Nat))
          /\ \A n \in DOMAIN names : n \in DOMAIN names' /\ names'[n] = names[n]
          /\ frames' = Append(frames, [file |-> Len(names'), pos |-> pos, ts |-> now + 1])
      BY <1>6 DEF Recording
    <3> QED
      BY <3>1, <3>2
  <2>2. OnFirst => OnFirst'
    BY <1>1, <2>1 DEF OnFirst
  <2>3. cur' \in 0 .. Len(names') /\ reader'.file \in 0 .. Len(data') /\ (cur' # 0 => reader'.file # 0)
    BY <1>1, <1>2, <1>3, <2>1
  <2>4. ~Failed /\ Len(names') = 1 => OnFirst
    BY <1>2, <1>3, <2>1
  <2>5. ~Failed /\ frames'[1].file = 1 => OnFirst
    <3>1. CASE frames = <<>>
      <4>1. frames'[1] = [file |-> Len(names'), pos |-> pos, ts |-> now + 1]
        BY <1>2, <2>1, <3>1
      <4> QED
        BY <2>4, <4>1
    <3>2. CASE frames # <<>>
      <4>1. frames'[1] = frames[1]
        BY <1>2, <2>1, <3>2
      <4> QED
        BY <1>3, <3>2, <4>1
    <3> QED
      BY <3>1, <3>2
  <2>6. ~Failed /\ Alone /\ reader.file # 0 /\ ~reader.bad => cur # 0 /\ reader.file = names'[cur].id
    <3>1. cur # 0 => cur \in DOMAIN names
      BY <1>2, <1>3
    <3> QED
      BY <1>3, <2>1, <3>1
  <2>7. pc' # "code" /\ cur' = cur /\ reader' = reader
    BY <1>1
  <2> QED
    BY <1>4, <2>2, <2>3, <2>4, <2>5, <2>6, <2>7 DEF Reading
<1> QED
  BY <1>1, <1>5, <1>6

LEMMA AddKept == ASSUME Types, Buffered, Filed, Kept, AddFrame PROVE Kept'
<1>1. /\ Added /\ pc' = "next"
      /\ \/ ~(ready' \/ ~checked') /\ UNCHANGED <<stick, absent, names, start, mishaps, data, broken, frames>>
         \/ (ready' \/ ~checked') /\ Filing /\ \E id, pos : Recording(id, pos)
  BY AddIs
<1>2. names \in Seq(File) /\ Len(names) \in Nat
  BY DEF Types
<1>3. Alone => \A n \in DOMAIN names : n > 1 /\ names[n].id \notin absent => \E i \in DOMAIN stick : stick[i] = names[n]
  BY DEF Kept
<1>4. CASE UNCHANGED <<names, stick, absent, start, mishaps>>
  BY <1>1, <1>3, <1>4 DEF Kept, Alone
<1>5. ASSUME NEW f, Beginning(f) PROVE Kept'
  <2>1. /\ f \in File /\ names' = Append(names, f)
        /\ f.id \notin absent' => \E i \in DOMAIN stick' : stick'[i] = f
        /\ absent \subseteq absent' /\ (Alone' => Alone)
        /\ Alone' => \A j \in DOMAIN stick : \E i \in DOMAIN stick' : stick'[i] = stick[j]
    BY <1>5 DEF Beginning, Alone
  <2>2. ASSUME Alone', NEW n \in DOMAIN names', n > 1, names'[n].id \notin absent'
        PROVE  \E i \in DOMAIN stick' : stick'[i] = names'[n]
    <3>2. CASE n \in DOMAIN names
      <4>1. names'[n] = names[n]
        BY <1>2, <2>1, <3>2
      <4>2. \E i \in DOMAIN stick : stick[i] = names[n]
        BY <1>3, <2>1, <2>2, <3>2, <4>1
      <4> QED
        BY <2>1, <2>2, <4>1, <4>2
    <3>3. CASE n \notin DOMAIN names
      <4>1. names'[n] = f
        BY <1>2, <2>1, <3>3
      <4> QED
        BY <2>1, <2>2, <4>1
    <3> QED
      BY <3>2, <3>3
  <2> QED
    BY <1>1, <2>2 DEF Kept
<1> QED
  BY <1>1, <1>4, <1>5 DEF Filing

LEMMA AddComplete == ASSUME Types, Buffered, Filed, Complete, AddFrame PROVE Complete'
<1>1. /\ Added
      /\ \/ ~(ready' \/ ~checked') /\ UNCHANGED <<stick, absent, names, start, mishaps, data, broken, frames>>
         \/ (ready' \/ ~checked') /\ Filing /\ \E id, pos : Recording(id, pos)
  BY AddIs
<1>2. /\ names \in Seq(File) /\ Len(names) \in Nat \ {0} /\ now \in Nat /\ born \in Nat
      /\ data \in Seq(Seq(Nat)) /\ Len(data) \in Nat
      /\ now' = now + 1 /\ born' = born /\ (ready' \/ ~checked' => ready \/ ~checked)
  BY <1>1 DEF Types, Added, Looked, global
<1>5. mishaps \subseteq mishaps' /\ (Unbroken' => Unbroken)
  BY FailedBefore, SMTT(30)
<1>3. CASE ~(ready' \/ ~checked')
  BY <1>3 DEF Complete
<1>4. ASSUME Filing, NEW id, NEW pos, Recording(id, pos), ready' \/ ~checked' PROVE Complete'
  <2>1. /\ names' \in Seq(File) /\ Len(names') \in {Len(names), Len(names) + 1}
        /\ \A n \in DOMAIN names : n \in DOMAIN names' /\ names'[n] = names[n]
        /\ names'[Len(names')].id = id
        /\ id \notin broken' => pos \in DOMAIN data'[id] /\ data'[id][pos] = now + 1
        /\ \A f \in DOMAIN data : f \in DOMAIN data' /\ \A k \in DOMAIN data[f] :
             k \in DOMAIN data'[f] /\ data'[f][k] = data[f][k]
    BY <1>4 DEF Recording
  <2>3. ASSUME "thrown" \notin mishaps', Unbroken', NEW t \in born + 1 .. now + 1 PROVE Recorded(t)'
    <3>1. CASE t = now + 1
      <4>1. Len(names') \in DOMAIN names'
        BY <1>2, <2>1
      <4>2. id \notin broken'
        BY <2>1, <2>3, <4>1 DEF Unbroken
      <4> QED
        BY <2>1, <3>1, <4>1, <4>2 DEF Recorded
    <3>2. CASE t # now + 1
      <4>1. t \in born + 1 .. now
        BY <1>2, <3>2
      <4>2. Recorded(t)
        BY <1>2, <1>4, <1>5, <2>3, <4>1 DEF Complete
      <4>3. PICK n \in DOMAIN names : \E k \in DOMAIN data[names[n].id] : data[names[n].id][k] = t
        BY <4>2 DEF Recorded
      <4>4. names[n].id \in DOMAIN data
        <5>1. names[n].id = (Len(data) - Len(names)) + n /\ Len(names) <= Len(data)
          BY <4>3 DEF Filed
        <5>2. n \in 1 .. Len(names)
          BY ONLY <1>2, n \in DOMAIN names
        <5> QED
          BY <1>2, <5>1, <5>2
      <4> QED
        BY <2>1, <4>3, <4>4 DEF Recorded
    <3> QED
      BY <3>1, <3>2
  <2> QED
    BY <1>2, <2>3 DEF Complete
<1> QED
  BY <1>1, <1>3, <1>4

LEMMA AddInTurn == ASSUME Types, Buffered, Filed, InTurn, AddFrame PROVE InTurn'
<1>1. /\ Added /\ UNCHANGED <<cur, reader, out>>
      /\ \/ ~(ready' \/ ~checked') /\ UNCHANGED <<stick, absent, names, start, mishaps, data, broken, frames>>
         \/ (ready' \/ ~checked') /\ Filing /\ \E id, pos : Recording(id, pos)
  BY AddIs
<1>2. /\ now \in Nat /\ now' = now + 1 /\ mode' = mode /\ out' = out /\ out.ts \in Nat /\ out.ts <= now
      /\ (ready' \/ ~checked' => ready \/ ~checked) /\ frames \in Seq(Entry) /\ Len(frames) \in Nat
  BY <1>1 DEF Types, Added, Looked, global
<1>3. out'.ts < now'
  BY <1>2
<1>4. CASE ~(ready' \/ ~checked') /\ UNCHANGED <<stick, absent, names, start, mishaps, data, broken, frames>>
  BY <1>2, <1>3, <1>4 DEF InTurn, Made
<1>5. ASSUME Filing, ready' \/ ~checked', NEW id, NEW pos, Recording(id, pos) PROVE InTurn'
  <2>1. mishaps \subseteq mishaps' /\ (Made' => Made)
    BY FailedBefore, SMTT(30)
  <2>2. frames' = Append(frames, [file |-> Len(names'), pos |-> pos, ts |-> now + 1])
    BY <1>5 DEF Recording
  <2>3. /\ Len(frames') = Len(frames) + 1
        /\ \A i \in DOMAIN frames' : (i \in DOMAIN frames /\ frames'[i] = frames[i])
                                       \/ (i = Len(frames) + 1 /\ frames'[i].ts = now + 1)
    BY <1>2, <2>2
  <2>4. ASSUME mode = "transmit_all", mishaps' \subseteq {"same_minute"}, Made'
        PROVE  /\ \A i \in DOMAIN frames' : frames'[i].ts > out.ts
               /\ out.ts + Len(frames') = now'
               /\ \A i \in DOMAIN frames' : frames'[i].ts = out.ts + i
    <3>1. mishaps \subseteq {"same_minute"} /\ Made
      BY <2>1, <2>4
    <3>2. /\ \A i \in DOMAIN frames : frames[i].ts > out.ts
          /\ out.ts + Len(frames) = now
          /\ \A i \in DOMAIN frames : frames[i].ts = out.ts + i
      BY <1>2, <1>5, <2>4, <3>1 DEF InTurn
    <3> QED
      BY <1>2, <2>3, <3>2
  <2> QED
    BY <1>2, <1>3, <2>4 DEF InTurn
<1> QED
  BY <1>1, <1>4, <1>5

LEMMA AddStamped == ASSUME Types, Buffered, Filed, Stamped, AddFrame PROVE Stamped'
<1>1. /\ Added /\ pc' = "next"
      /\ \/ ~(ready' \/ ~checked') /\ UNCHANGED <<stick, absent, names, start, mishaps, data, broken, frames>>
         \/ (ready' \/ ~checked') /\ Filing /\ \E id, pos : Recording(id, pos)
  BY AddIs
<1>2. /\ names \in Seq(File) /\ Len(names) \in Nat \ {0} /\ pc = "add" /\ runs > 0
      /\ stamp' = stamp /\ runs' = runs
  BY <1>1 DEF Types, Added, global
<1>3. CASE UNCHANGED <<names, stick, absent, start, mishaps>>
  BY <1>1, <1>2, <1>3 DEF Stamped
<1>4. ASSUME NEW f, Beginning(f) PROVE Stamped'
  <2>1. /\ f \in File /\ names' = Append(names, f) /\ f.name[1] = stamp /\ f.name[2] # 0
        /\ \A i \in DOMAIN stick' : stick'[i] = f \/ \E j \in DOMAIN stick : stick'[i] = stick[j]
        /\ mishaps \subseteq mishaps'
    BY <1>4 DEF Beginning
  <2>2. names'[1] = names[1]
    BY <1>2, <2>1
  <2>3. ASSUME "same_minute" \notin mishaps'
        PROVE  /\ names'[1].name = <<stamp, 0>>
               /\ \A i \in DOMAIN stick' : \/ stick'[i].name[1] < stamp
                                           \/ stick'[i].name[1] = stamp /\ stick'[i].name[2] # 0
    <3>1. /\ names[1].name = <<stamp, 0>>
          /\ \A i \in DOMAIN stick : \/ stick[i].name[1] < stamp
                                     \/ stick[i].name[1] = stamp /\ stick[i].name[2] # 0
      BY <1>2, <2>1, <2>3 DEF Stamped
    <3> QED
      BY <2>1, <2>2, <3>1
  <2> QED
    BY <1>1, <1>2, <2>3 DEF Stamped
<1> QED
  BY <1>1, <1>3, <1>4 DEF Filing
-----------------------------------------------------------------------------
(* next_frame().                                                           *)
LEMMA TailIs == ASSUME Types, frames # <<>>
                PROVE  /\ Tail(frames) \in Seq(Entry) /\ Len(Tail(frames)) = Len(frames) - 1
                       /\ 1 \in DOMAIN frames /\ frames[1] = Head(frames) /\ frames[1] \in Entry
                       /\ \A i \in DOMAIN Tail(frames) :
                            i + 1 \in DOMAIN frames /\ i + 1 > 1 /\ Tail(frames)[i] = frames[i + 1]
<1>1. frames \in Seq(Entry)
  BY DEF Types
<1>2. Len(frames) \in Nat \ {0} /\ DOMAIN frames = 1 .. Len(frames) /\ Head(frames) = frames[1]
  BY <1>1
<1>3. 1 \in DOMAIN frames /\ frames[1] \in Entry
  BY <1>1, <1>2
<1>4. /\ Tail(frames) \in Seq(Entry) /\ Len(Tail(frames)) = Len(frames) - 1
      /\ \A i \in 1 .. Len(frames) - 1 : Tail(frames)[i] = frames[i + 1]
  BY <1>1, HeadTailProperties
<1> QED
  BY <1>2, <1>3, <1>4

LEMMA NameIs == ASSUME Types, Filed, NEW n \in DOMAIN names PROVE names[n].id \in DOMAIN data
<1>1. names \in Seq(File) /\ Len(names) \in Nat /\ data \in Seq(Seq(Nat)) /\ Len(data) \in Nat
  BY DEF Types
<1>2. names[n].id = (Len(data) - Len(names)) + n /\ Len(names) <= Len(data)
  BY DEF Filed
<1>3. n \in 1 .. Len(names)
  BY <1>1
<1> QED
  BY <1>1, <1>2, <1>3

(* A queued frame is a frame of the past, in a file of this FileWriter. *)
LEMMA EntryIs == ASSUME Types, Filed, Once, InOrder, NEW i \in DOMAIN frames, NEW q, q = frames[i]
                 PROVE  /\ q \in Entry /\ q.file \in DOMAIN names /\ q.file >= 1 /\ q.file \in Nat
                        /\ names[q.file].id \in DOMAIN data
                        /\ ~Failed => /\ q.pos \in DOMAIN data[names[q.file].id]
                                      /\ data[names[q.file].id][q.pos] = q.ts
                        /\ q.ts \in 1 .. now
<1>1. Entered(q, names, data, broken, now)
  BY DEF InOrder
<1>2. q.file \in DOMAIN names /\ q.ts \in 1 .. now
  BY <1>1 DEF Entered
<1>4. ~Failed => q.pos \in DOMAIN data[names[q.file].id] /\ data[names[q.file].id][q.pos] = q.ts
  <2>1. ~Failed => names[q.file].id \notin broken
    BY <1>2 DEF Failed, Unbroken
  <2> QED
    BY <1>1, <2>1 DEF Entered, WrittenTo
<1>3. names[q.file].id \in DOMAIN data
  BY <1>2, NameIs
<1>5. q \in Entry /\ q.file >= 1 /\ q.file \in Nat
  <2>1. frames \in Seq(Entry) /\ names \in Seq(File)
    BY DEF Types
  <2>2. q \in Entry
    BY <2>1
  <2>3. q.file \in 1 .. Len(names) /\ Len(names) \in Nat
    BY <1>2, <2>1
  <2> QED
    BY <2>2, <2>3
<1> QED
  BY <1>2, <1>3, <1>4, <1>5

(* If all is well, the file with the name is the one that was made. *)
LEMMA LookupIs == ASSUME Types, Filed, Kept, pc # "off", NEW n \in DOMAIN names
                  PROVE  /\ Lookup(n) \in 0 .. Len(data)
                         /\ n = 1 /\ Made => Lookup(n) = names[1].id
                         /\ Alone /\ Made => Lookup(n) = names[n].id
                         /\ names[n].id # 0
<1>1. names \in Seq(File) /\ stick \in Seq(File) /\ data \in Seq(Seq(Nat)) /\ Len(data) \in Nat
      /\ DOMAIN data = 1 .. Len(data) /\ n \in Nat \ {0}
  BY DEF Types
<1>2. names[n].id \in DOMAIN data /\ names[n].id # 0
  BY <1>1, NameIs
<1>3. CASE n = 1
  <2>1. Lookup(n) = IF names[1].id \in absent THEN 0 ELSE names[1].id
    BY <1>3 DEF Lookup
  <2>2. Made => names[1].id \notin absent
    BY <1>3 DEF Made
  <2> QED
    BY <1>1, <1>2, <1>3, <2>1, <2>2
<1>4. CASE n # 1 /\ OnStick(names[n].name)
  <2>1. PICK p : p = Place(stick, names[n].name)
    OBVIOUS
  <2>2. p \in DOMAIN stick /\ stick[p].name = names[n].name
    BY <1>4, <2>1 DEF OnStick, Has, Place
  <2>3. Lookup(n) = stick[p].id
    BY <1>4, <2>1 DEF Lookup
  <2>4. Lookup(n) \in DOMAIN data
    BY <2>2, <2>3 DEF Filed
  <2>5. ASSUME Alone, Made PROVE Lookup(n) = names[n].id
    <3>1. n > 1 /\ names[n].id \notin absent
      BY <1>1, <1>4, <2>5 DEF Made
    <3>2. PICK i \in DOMAIN stick : stick[i] = names[n]
      BY <2>5, <3>1 DEF Kept
    <3>3. i = p
      BY <2>2, <3>2 DEF Filed, Distinct
    <3> QED
      BY <2>3, <3>2, <3>3
  <2> QED
    BY <1>1, <1>2, <1>4, <2>4, <2>5
<1>5. CASE n # 1 /\ ~OnStick(names[n].name)
  <2>1. Lookup(n) = 0
    BY <1>5 DEF Lookup
  <2>2. ASSUME Alone, Made PROVE FALSE
    <3>1. n > 1 /\ names[n].id \notin absent
      BY <1>1, <1>5, <2>2 DEF Made
    <3>2. \E i \in DOMAIN stick : stick[i] = names[n]
      BY <2>2, <3>1 DEF Kept
    <3> QED
      BY <1>5, <3>2 DEF OnStick, Has
  <2> QED
    BY <1>1, <1>2, <1>5, <2>1, <2>2
<1> QED
  BY <1>3, <1>4, <1>5

(* What the stream is then. *)
LEMMA OpenedIs ==
  ASSUME Types, Filed, Kept, Reading, pc # "off", NEW n \in DOMAIN names, NEW fails \in BOOLEAN,
         NEW r, r = Opened(n, fails)
  PROVE  /\ r \in [file : Nat, bad : BOOLEAN] /\ r.file \in 0 .. Len(data)
         /\ r.file = 0 => r.bad
         /\ n = 1 /\ OnFirst /\ Made /\ ~fails => r = [file |-> names[1].id, bad |-> FALSE] /\ r.file # 0
         /\ Alone /\ Made /\ ~fails => r.file # 0
         /\ ~Failed /\ Alone /\ ~r.bad => r.file = names[n].id
<1>1. /\ n \in Nat \ {0} /\ Len(data) \in Nat /\ reader \in [file : Nat, bad : BOOLEAN]
      /\ reader.file \in 0 .. Len(data) /\ cur \in Nat /\ (cur # 0 => reader.file # 0)
      /\ ~Failed /\ Alone /\ reader.file # 0 /\ ~reader.bad => reader.file = names[cur].id
  <2>1. names \in Seq(File) /\ data \in Seq(Seq(Nat)) /\ cur \in Nat /\ reader \in [file : Nat, bad : BOOLEAN]
    BY DEF Types
  <2>2. n \in Nat \ {0} /\ Len(data) \in Nat
    BY ONLY <2>1, n \in DOMAIN names
  <2> QED
    BY <2>1, <2>2 DEF Reading
<1>2. PICK look : look = IF fails THEN 0 ELSE Lookup(n)
  OBVIOUS
<1>3. /\ look \in 0 .. Len(data) /\ names[n].id # 0
      /\ n = 1 /\ Made /\ ~fails => look = names[1].id
      /\ Alone /\ Made /\ ~fails => look = names[n].id
      /\ Alone /\ Made /\ look # 0 => look = names[n].id
  BY <1>1, <1>2, LookupIs
<1>4. ~Failed => Made
  BY DEF Failed, Unbroken, Made, Types
<1>5. CASE n = cur
  <2>1. r = reader
    BY <1>5 DEF Opened
  <2> QED
    BY <1>1, <1>3, <1>5, <2>1 DEF OnFirst
<1>6. CASE n # cur /\ reader.file # 0
  <2>1. r = [reader EXCEPT !.bad = TRUE]
    BY <1>6 DEF Opened
  <2>2. r \in [file : Nat, bad : BOOLEAN] /\ r.file = reader.file /\ r.bad
    BY <1>1, <2>1
  <2>3. ~(n = 1 /\ OnFirst)
    BY <1>1, <1>6 DEF OnFirst, Closed
  <2> QED
    BY <1>1, <1>6, <2>2, <2>3
<1>7. CASE n # cur /\ ~(reader.file # 0)
  <2>1. r = [file |-> look, bad |-> look = 0]
    BY <1>2, <1>7 DEF Opened
  <2>2. (look = 0) \in BOOLEAN /\ look \in Nat
    BY <1>1, <1>3
  <2>3. r \in [file : Nat, bad : BOOLEAN] /\ r.file = look
    BY <2>1, <2>2
  <2>4. look # 0 => r = [file |-> look, bad |-> FALSE]
    BY <2>1
  <2>5. look = 0 <=> r.bad
    <3>1. CASE look = 0
      <4>1. r = [file |-> look, bad |-> TRUE]
        BY <2>1, <3>1
      <4> QED
        BY ONLY <3>1, <4>1
    <3>2. CASE look # 0
      BY ONLY <2>4, <3>2
    <3> QED
      BY ONLY <3>1, <3>2
  <2> QED
    BY <1>3, <1>4, <2>3, <2>4, <2>5
<1> QED
  BY <1>5, <1>6, <1>7

LEMMA QueuedIs ==
  ASSUME Types, Buffered, Filed, Once, InOrder, Reading, Kept, pc = "next", frames # <<>>, NextQueued
  PROVE  /\ frames' = Tail(frames)
         /\ reader' \in [file : Nat, bad : BOOLEAN] /\ reader'.file \in 0 .. Len(data)
         /\ cur' \in 0 .. Len(names) /\ (cur' # 0 => reader'.file # 0)
         /\ out' \in [ts : Nat, pic : Nat, file : Nat] /\ out'.ts <= now /\ out'.file = frames[1].file
         /\ held' = [held EXCEPT ![live] = out'.pic] /\ mishaps' \in {mishaps, mishaps \union {"unread"}}
         /\ ~Failed /\ "unread" \notin mishaps' =>
              /\ frames[1].file = 1 => /\ cur' = 1 /\ reader' = [file |-> names[1].id, bad |-> FALSE]
                                       /\ out'.pic = out'.ts
              /\ Alone => out'.pic \in {out'.ts, now}
              /\ Alone /\ reader'.file # 0 /\ ~reader'.bad => cur' # 0 /\ reader'.file = names[cur'].id
         /\ Made /\ Alone /\ "unread" \notin mishaps' => out'.ts = frames[1].ts
<1>1. PICK fr : fr = Head(frames)
  OBVIOUS
<1>2. 1 \in DOMAIN frames /\ fr = frames[1]
  BY <1>1, TailIs
<1>3. /\ fr \in Entry /\ fr.file \in DOMAIN names /\ fr.file >= 1 /\ fr.file \in Nat
      /\ names[fr.file].id \in DOMAIN data
      /\ ~Failed => /\ fr.pos \in DOMAIN data[names[fr.file].id]
                    /\ data[names[fr.file].id][fr.pos] = fr.ts
      /\ fr.ts \in 1 .. now
  BY <1>2, EntryIs
<1>4. PICK fails \in BOOLEAN :
        LET r  == Opened(fr.file, fails)
            ok == ~r.bad /\ ~fails /\ fr.pos \in DOMAIN data[r.file]
        IN
        /\ frames' = Tail(frames)
        /\ reader' = [r EXCEPT !.bad = @ \/ ~ok]
        /\ cur' = IF r.file = 0 THEN 0 ELSE fr.file
        /\ \E pic \in IF ok THEN {data[r.file][fr.pos]} ELSE IF r.bad THEN {held[live]} ELSE {held[live], 0} :
             /\ out' = [ts |-> IF r.file = 0 THEN now ELSE fr.ts, pic |-> pic, file |-> fr.file]
             /\ held' = [held EXCEPT ![live] = pic]
        /\ mishaps' = mishaps \union (IF fails THEN {"unread"} ELSE {})
  BY <1>1, Zenon DEF NextQueued
<1>5. PICK r : r = Opened(fr.file, fails)
  OBVIOUS
<1>6. PICK ok \in BOOLEAN : ok = (~r.bad /\ ~fails /\ fr.pos \in DOMAIN data[r.file])
  OBVIOUS
<1>7. PICK pic \in IF ok THEN {data[r.file][fr.pos]} ELSE IF r.bad THEN {held[live]} ELSE {held[live], 0} :
        /\ out' = [ts |-> IF r.file = 0 THEN now ELSE fr.ts, pic |-> pic, file |-> fr.file]
        /\ held' = [held EXCEPT ![live] = pic]
  BY ONLY <1>4, <1>5, <1>6, Zenon
<1>8. /\ frames' = Tail(frames)
      /\ reader' = [r EXCEPT !.bad = @ \/ ~ok]
      /\ cur' = IF r.file = 0 THEN 0 ELSE fr.file
      /\ mishaps' = mishaps \union (IF fails THEN {"unread"} ELSE {})
  BY ONLY <1>4, <1>5, <1>6, Zenon
<1>9. /\ r \in [file : Nat, bad : BOOLEAN] /\ r.file \in 0 .. Len(data)
      /\ r.file = 0 => r.bad
      /\ fr.file = 1 /\ OnFirst /\ Made /\ ~fails => r = [file |-> names[1].id, bad |-> FALSE] /\ r.file # 0
      /\ Alone /\ Made /\ ~fails => r.file # 0
      /\ ~Failed /\ Alone /\ ~r.bad => r.file = names[fr.file].id
  BY <1>3, <1>5, OpenedIs
<1>10. (r.bad \/ ~ok) \in BOOLEAN
  BY <1>9
<1>11. PICK b \in BOOLEAN : b = (r.bad \/ ~ok)
  BY <1>10
<1>12. reader' = [r EXCEPT !.bad = b]
  BY <1>8, <1>11, Zenon
<1>13. reader' \in [file : Nat, bad : BOOLEAN] /\ reader'.file = r.file /\ reader'.bad = b
  BY <1>9, <1>12
<1>14. /\ names \in Seq(File) /\ Len(names) \in Nat /\ data \in Seq(Seq(Nat)) /\ now \in Nat
       /\ DOMAIN data = 1 .. Len(data) /\ Len(data) \in Nat
       /\ held \in [Buffers -> Nat] /\ live \in Buffers
  BY SMTT(40) DEF Types
<1>15. cur' \in 0 .. Len(names) /\ (cur' # 0 => reader'.file # 0)
  BY <1>3, <1>9, <1>8, <1>13, <1>14
<1>16. held[live] = now /\ held[live] \in Nat
  BY <1>14 DEF Buffered
<1>17. pic \in Nat
  <2>1. CASE ok
    <3>1. r.file \in DOMAIN data /\ fr.pos \in DOMAIN data[r.file]
      <4>1. ~r.bad /\ fr.pos \in DOMAIN data[r.file]
        BY ONLY <1>6, <2>1, Zenon
      <4>2. r.file # 0 /\ r.file \in 0 .. Len(data)
        BY ONLY <1>9, <4>1, Zenon
      <4>3. r.file \in DOMAIN data
        BY ONLY <1>14, <4>2
      <4> QED
        BY ONLY <4>1, <4>3, Zenon
    <3>2. PICK q \in Seq(Nat) : q = data[r.file]
      BY <1>14, <3>1
    <3>3. q[fr.pos] \in Nat
      BY <3>1, <3>2
    <3> QED
      BY <1>7, <2>1, <3>2, <3>3
  <2>2. CASE ~ok
    BY <1>7, <1>16, <2>2
  <2> QED
    BY <2>1, <2>2
<1>18. /\ out'.pic = pic /\ out'.file = fr.file /\ out'.ts = IF r.file = 0 THEN now ELSE fr.ts
       /\ out' = [ts |-> out'.ts, pic |-> out'.pic, file |-> out'.file]
  BY <1>7
<1>19. out'.ts \in Nat /\ out'.ts <= now /\ out'.file \in Nat
  BY <1>3, <1>14, <1>18
<1>20. out' \in [ts : Nat, pic : Nat, file : Nat]
  BY ONLY <1>17, <1>18, <1>19
<1>21. /\ "unread" \notin mishaps' => ~fails
       /\ mishaps' \in {mishaps, mishaps \union {"unread"}}
       /\ ~Failed => Made
  BY <1>8 DEF Failed, Unbroken, Made, Types
<1>22. ASSUME ~Failed, ~fails, fr.file = 1
       PROVE  /\ cur' = 1 /\ reader' = [file |-> names[1].id, bad |-> FALSE]
              /\ out'.pic = out'.ts
  <2>1. OnFirst
    BY <1>2, <1>22 DEF Reading
  <2>2. r = [file |-> names[1].id, bad |-> FALSE] /\ r.file # 0
    BY <1>9, <1>21, <1>22, <2>1
  <2>3. r.file = names[fr.file].id /\ ~r.bad
    BY <1>22, <2>2
  <2>4. ok
    BY <1>3, <1>6, <1>22, <2>3
  <2>5. b = FALSE
    BY ONLY <1>11, <2>3, <2>4, b \in BOOLEAN, Zenon
  <2>6. reader' = [file |-> names[1].id, bad |-> FALSE]
    BY <1>12, <2>2, <2>5
  <2>7. pic = data[r.file][fr.pos] /\ out'.ts = fr.ts
    BY <1>7, <1>18, <2>2, <2>4, Zenon
  <2>8. out'.pic = out'.ts
    BY <1>3, <1>18, <1>22, <2>3, <2>7
  <2> QED
    BY <1>8, <1>22, <2>2, <2>6, <2>8
<1>23. ASSUME ~Failed, ~fails, Alone PROVE out'.pic \in {out'.ts, now}
  <2>1. CASE r.bad
    <3>1. ~ok
      BY <1>6, <2>1
    <3> QED
      BY <1>7, <1>16, <1>18, <2>1, <3>1
  <2>2. CASE ~r.bad
    <3>1. r.file = names[fr.file].id /\ r.file # 0
      BY <1>9, <1>23, <2>2
    <3>2. ok
      BY <1>3, <1>6, <1>23, <2>2, <3>1
    <3>3. pic = data[r.file][fr.pos] /\ out'.ts = fr.ts
      BY <1>7, <1>18, <3>1, <3>2, Zenon
    <3> QED
      BY <1>3, <1>18, <1>23, <3>1, <3>3
  <2> QED
    BY <2>1, <2>2
<1>24. ASSUME ~Failed, Alone, reader'.file # 0, ~reader'.bad
       PROVE  cur' # 0 /\ reader'.file = names[cur'].id
  <2>1. ~r.bad
    BY <1>11, <1>13, <1>24
  <2> QED
    BY <1>3, <1>8, <1>9, <1>13, <1>24, <2>1
<1>25. Made /\ Alone /\ ~fails => out'.ts = fr.ts
  BY <1>9, <1>18
<1>26. held' = [held EXCEPT ![live] = out'.pic]
  BY <1>7, <1>18
<1> QED
  BY <1>2, <1>8, <1>13, <1>15, <1>9, <1>18, <1>19, <1>20, <1>21, <1>22, <1>23, <1>24, <1>25, <1>26

LEMMA NextIs ==
  ASSUME Types, NextFrame
  PROVE  /\ pc = "next" /\ UNCHANGED <<now, start, media, files, global>> /\ PutFrame
         /\ \/ ~allowed /\ UNCHANGED <<player, held, mishaps>> /\ pc' = "add"
            \/ allowed /\ pc' = "code" /\ (Len(frames) <= 1 \/ mode = "no_latency") /\ NextLive
            \/ /\ allowed /\ pc' = "code" /\ Len(frames) > 1 /\ frames # <<>> /\ mode = "transmit_all"
               /\ NextQueued
<1>1. /\ pc = "next" /\ UNCHANGED <<now, start, media, files, global>> /\ PutFrame
      /\ IF ~allowed THEN UNCHANGED <<player, held, mishaps>>
         ELSE IF Len(frames) <= 1 \/ mode = "no_latency" THEN NextLive ELSE NextQueued
      /\ pc' = IF allowed THEN "code" ELSE "add"
  BY Zenon DEF NextFrame
<1>2. mode \in {"no_latency", "transmit_all"} /\ frames \in Seq(Entry) /\ Len(frames) \in Nat
  BY DEF Types, Modes
<1>3. CASE ~allowed
  BY <1>1, <1>3, Zenon
<1>4. CASE allowed /\ (Len(frames) <= 1 \/ mode = "no_latency")
  BY <1>1, <1>4, Zenon
<1>5. CASE allowed /\ ~(Len(frames) <= 1 \/ mode = "no_latency")
  <2>1. Len(frames) > 1 /\ frames # <<>> /\ mode = "transmit_all"
    BY <1>2, <1>5
  <2> QED
    BY <1>1, <1>5, <2>1, Zenon
<1> QED
  BY <1>3, <1>4, <1>5

(* A frame is taken from the queue, or straight from its buffer, and       *)
(* nothing else of the queue changes.                                      *)
Gone == \/ frames' = <<>> \/ frames' = frames
        \/ frames # <<>> /\ frames' = Tail(frames)

LEMMA GoneInOrder ==
  ASSUME Types, InOrder, Gone, UNCHANGED <<names, data, broken, now>> PROVE InOrder' /\ frames' \in Seq(Entry)
<1>1. CASE frames' = <<>>
  <2>1. DOMAIN frames' = {} /\ frames' \in Seq(Entry)
    BY <1>1
  <2> QED
    BY <2>1 DEF InOrder
<1>2. CASE frames' = frames
  BY <1>2 DEF InOrder, Entered, WrittenTo, Types
<1>3. CASE frames # <<>> /\ frames' = Tail(frames)
  <2>1. PICK g : g = Tail(frames)
    OBVIOUS
  <2>2. /\ g \in Seq(Entry) /\ Len(g) \in Nat /\ DOMAIN g = 1 .. Len(g)
        /\ \A i \in DOMAIN g : i + 1 \in DOMAIN frames /\ g[i] = frames[i + 1]
    BY <1>3, <2>1, TailIs
  <2>3. ASSUME NEW i \in DOMAIN g PROVE Entered(g[i], names', data', broken', now')
    BY <2>2 DEF InOrder
  <2>4. ASSUME NEW i \in DOMAIN g, NEW j \in DOMAIN g, i < j
        PROVE  g[i].ts < g[j].ts /\ g[i].file <= g[j].file
    <3>1. i + 1 \in DOMAIN frames /\ j + 1 \in DOMAIN frames /\ i + 1 < j + 1
      BY <2>2, <2>4
    <3> QED
      BY <2>2, <3>1 DEF InOrder
  <2>5. frames' = g
    BY <1>3, <2>1
  <2> QED
    BY <2>2, <2>3, <2>4, <2>5 DEF InOrder
<1> QED
  BY <1>1, <1>2, <1>3 DEF Gone

(* What putFrame() makes of the buffers. *)
LEMMA PutIs ==
  ASSUME Types, Buffered, pc = "next", PutFrame, pc' \in {"add", "code"}, now' = now, live' = live,
         NEW pic, held' = [held EXCEPT ![live] = pic], pic \in Nat, pc' = "code" => out'.pic = pic
  PROVE  /\ Buffered' /\ ring' \in Seq(Buffers) /\ done' \in 0 .. Len(ring') /\ Len(ring') <= Bufs
         /\ held' \in [Buffers -> Nat] /\ done' = done
<1>1. /\ ring \in Seq(Buffers) /\ done \in 0 .. Len(ring) /\ live \in Buffers /\ held \in [Buffers -> Nat]
      /\ Len(ring) = Bufs - 1 /\ Bufs \in Nat \ {0} /\ DOMAIN ring = 1 .. Bufs - 1
      /\ \A i, j \in DOMAIN ring : i # j => ring[i] # ring[j]
      /\ \A i \in 1 .. done : held[ring[i]] = now + i
      /\ \A i \in DOMAIN ring : ring[i] # live /\ ring[i] \in Buffers
  BY RecorderAssumption DEF Types, Buffered
<1>2. ring' = Append(ring, live) /\ done' = done
  BY DEF PutFrame
<1>3. PICK q : q = Append(ring, live)
  OBVIOUS
<1>4. /\ q \in Seq(Buffers) /\ Len(q) = Bufs /\ DOMAIN q = 1 .. Bufs
      /\ \A i \in 1 .. Bufs - 1 : q[i] = ring[i]
      /\ q[Bufs] = live
  BY <1>1, <1>3
<1>5. ASSUME NEW i \in DOMAIN q, NEW j \in DOMAIN q, i # j PROVE q[i] # q[j]
  <2>1. CASE i \in 1 .. Bufs - 1 /\ j \in 1 .. Bufs - 1
    BY <1>1, <1>4, <1>5, <2>1
  <2>2. CASE i = Bufs /\ j \in 1 .. Bufs - 1
    BY <1>1, <1>4, <2>2
  <2>3. CASE i \in 1 .. Bufs - 1 /\ j = Bufs
    BY <1>1, <1>4, <2>3
  <2> QED
    BY <1>1, <1>4, <1>5, <2>1, <2>2, <2>3
<1>6. ASSUME NEW i \in 1 .. done PROVE held'[q[i]] = now + i
  <2>1. i \in 1 .. Bufs - 1 /\ q[i] = ring[i] /\ ring[i] # live /\ ring[i] \in Buffers
    BY <1>1, <1>4, SMTT(40)
  <2>2. held'[ring[i]] = held[ring[i]]
    BY <1>1, <2>1
  <2> QED
    BY <1>1, <2>1, <2>2
<1>7. held' \in [Buffers -> Nat] /\ held'[live] = pic
  BY <1>1
<1>8. Buffered'
  BY <1>1, <1>2, <1>3, <1>4, <1>5, <1>6, <1>7 DEF Buffered
<1> QED
  BY <1>1, <1>2, <1>3, <1>4, <1>7, <1>8

LEMMA NextTypes == ASSUME Types, Buffered, Filed, Once, InOrder, Reading, Kept, NextFrame
                   PROVE  Types' /\ Buffered' /\ Filed' /\ Once' /\ InOrder' /\ Kept'
<1>1. /\ pc = "next" /\ UNCHANGED <<now, start, media, files, global>> /\ PutFrame
      /\ \/ ~allowed /\ UNCHANGED <<player, held, mishaps>> /\ pc' = "add"
         \/ allowed /\ pc' = "code" /\ (Len(frames) <= 1 \/ mode = "no_latency") /\ NextLive
         \/ /\ allowed /\ pc' = "code" /\ Len(frames) > 1 /\ frames # <<>> /\ mode = "transmit_all"
            /\ NextQueued
  BY NextIs
<1>2. /\ UNCHANGED <<now, live, coded, start, checked, ready, copyTo, names, data, stick, absent, broken>>
      /\ UNCHANGED <<runs, stamp, mode, allowed, born>> /\ pc' \in {"add", "code"}
  BY <1>1 DEF media, files, global, PutFrame
<1>3. held[live] = now /\ now \in Nat /\ held \in [Buffers -> Nat] /\ live \in Buffers
  BY <1>1 DEF Buffered, Types
<1>4. /\ Gone /\ cur' \in Nat /\ reader' \in [file : Nat, bad : BOOLEAN]
      /\ out' \in [ts : Nat, pic : Nat, file : Nat] /\ out'.ts <= now
      /\ mishaps \subseteq mishaps'
      /\ \E pic \in Nat : held' = [held EXCEPT ![live] = pic] /\ (pc' = "code" => out'.pic = pic)
  <2>1. CASE UNCHANGED <<player, held, mishaps>> /\ pc' = "add"
    <3>1. held' = [held EXCEPT ![live] = now]
      BY <1>3, <2>1
    <3> QED
      BY <1>3, <2>1, <3>1 DEF Types, player, Gone
  <2>2. CASE NextLive
    <3>1. held' = [held EXCEPT ![live] = now] /\ out' = [ts |-> now, pic |-> now, file |-> 0]
      BY <1>3, <2>2 DEF NextLive
    <3> QED
      BY <1>3, <2>2, <3>1 DEF NextLive, Types, Gone
  <2>3. CASE frames # <<>> /\ NextQueued
    <3>1. /\ frames' = Tail(frames) /\ cur' \in 0 .. Len(names)
          /\ reader' \in [file : Nat, bad : BOOLEAN]
          /\ out' \in [ts : Nat, pic : Nat, file : Nat] /\ out'.ts <= now
          /\ held' = [held EXCEPT ![live] = out'.pic] /\ mishaps \subseteq mishaps'
      BY <1>1, <2>3, QueuedIs
    <3>2. cur' \in Nat /\ out'.pic \in Nat
      BY <3>1
    <3> QED
      BY <2>3, <3>1, <3>2 DEF Gone
  <2> QED
    BY <1>1, <2>1, <2>2, <2>3
<1>5. InOrder' /\ frames' \in Seq(Entry)
  BY <1>2, <1>4, GoneInOrder
<1>6. PICK pic \in Nat : held' = [held EXCEPT ![live] = pic] /\ (pc' = "code" => out'.pic = pic)
  BY <1>4
<1>7. /\ Buffered' /\ ring' \in Seq(Buffers) /\ done' \in 0 .. Len(ring') /\ Len(ring') <= Bufs
      /\ held' \in [Buffers -> Nat] /\ done' = done
  BY <1>1, <1>2, <1>6, PutIs
<1>8. Filed' /\ Once'
  BY <1>1, <1>2 DEF Filed, Distinct, Once
<1>9. Kept'
  BY <1>1, <1>2, <1>4 DEF Kept, Alone
<1>10. Types'
  BY <1>1, <1>2, <1>4, <1>5, <1>7 DEF Types
<1> QED
  BY <1>5, <1>7, <1>8, <1>9, <1>10

LEMMA NextReading == ASSUME Types, Buffered, Filed, Once, InOrder, Reading, Kept, NextFrame PROVE Reading'
<1>1. /\ pc = "next" /\ UNCHANGED <<now, start, media, files, global>> /\ PutFrame
      /\ \/ ~allowed /\ UNCHANGED <<player, held, mishaps>> /\ pc' = "add"
         \/ allowed /\ pc' = "code" /\ (Len(frames) <= 1 \/ mode = "no_latency") /\ NextLive
         \/ /\ allowed /\ pc' = "code" /\ Len(frames) > 1 /\ frames # <<>> /\ mode = "transmit_all"
            /\ NextQueued
  BY NextIs
<1>2. UNCHANGED <<names, data, now, absent, broken>>
  BY <1>1 DEF files
<1>3. /\ cur \in 0 .. Len(names) /\ reader.file \in 0 .. Len(data) /\ (cur # 0 => reader.file # 0)
      /\ Failed \/ /\ Len(names) = 1 => OnFirst
                   /\ frames # <<>> /\ frames[1].file = 1 => OnFirst
                   /\ Alone /\ reader.file # 0 /\ ~reader.bad => cur # 0 /\ reader.file = names[cur].id
  BY DEF Reading
<1>4. frames # <<>> => frames[1].file \in DOMAIN names
  BY TailIs, EntryIs
<1>5. Len(names) = 1 /\ frames # <<>> => frames[1].file = 1
  <2>1. DOMAIN names = 1 .. Len(names)
    BY DEF Types
  <2> QED
    BY <1>4, <2>1
<1>6. frames # <<>> /\ Tail(frames) # <<>> /\ Tail(frames)[1].file = 1 => frames[1].file = 1
  <2> SUFFICES ASSUME frames # <<>>, Tail(frames) # <<>>, Tail(frames)[1].file = 1 PROVE frames[1].file = 1
    OBVIOUS
  <2>1. Tail(frames) \in Seq(Entry) /\ 1 \in DOMAIN frames
    BY TailIs
  <2>2. 1 \in DOMAIN Tail(frames)
    BY <2>1
  <2>3. 1 + 1 \in DOMAIN frames /\ Tail(frames)[1] = frames[1 + 1]
    BY <2>2, TailIs
  <2>4. frames[1].file <= frames[2].file /\ frames[2].file = 1
    BY <2>1, <2>3 DEF InOrder
  <2>5. frames[1].file >= 1 /\ frames[1].file \in Nat
    BY <2>1, EntryIs
  <2> QED
    BY <2>4, <2>5
<1>7. CASE ~allowed /\ UNCHANGED <<player, held, mishaps>> /\ pc' = "add"
  <2>1. (Failed' <=> Failed) /\ (Alone' <=> Alone) /\ (OnFirst' <=> OnFirst)
    BY <1>2, <1>7 DEF Failed, Unbroken, Alone, OnFirst, player
  <2> QED
    BY <1>2, <1>3, <1>7, <2>1 DEF Reading, player
<1>8. CASE pc' = "code" /\ NextLive
  <2>1. /\ out' = [ts |-> now, pic |-> now, file |-> 0] /\ UNCHANGED <<cur, reader, mishaps>>
        /\ frames' = IF frames = <<>> THEN frames ELSE Tail(frames)
    BY <1>1, <1>8 DEF NextLive, Buffered
  <2>2. (Failed' <=> Failed) /\ (Alone' <=> Alone) /\ (OnFirst' <=> OnFirst) /\ Given'
    BY <1>2, <2>1 DEF Failed, Unbroken, Alone, OnFirst, Given
  <2>3. ~Failed /\ frames' # <<>> /\ frames'[1].file = 1 => OnFirst
    BY <1>3, <1>6, <2>1
  <2> QED
    BY <1>2, <1>3, <2>1, <2>2, <2>3 DEF Reading
<1>9. CASE pc' = "code" /\ frames # <<>> /\ NextQueued
  <2>1. /\ frames' = Tail(frames)
        /\ reader'.file \in 0 .. Len(data)
        /\ cur' \in 0 .. Len(names) /\ (cur' # 0 => reader'.file # 0)
        /\ out'.file = frames[1].file /\ mishaps' \in {mishaps, mishaps \union {"unread"}}
        /\ ~Failed /\ "unread" \notin mishaps' =>
             /\ frames[1].file = 1 => /\ cur' = 1 /\ reader' = [file |-> names[1].id, bad |-> FALSE]
                                      /\ out'.pic = out'.ts
             /\ Alone => out'.pic \in {out'.ts, now}
             /\ Alone /\ reader'.file # 0 /\ ~reader'.bad => cur' # 0 /\ reader'.file = names[cur'].id
    BY <1>1, <1>9, QueuedIs
  <2>2. (~Failed' => ~Failed /\ "unread" \notin mishaps') /\ (Alone' <=> Alone)
    BY <1>2, <2>1 DEF Failed, Unbroken, Alone
  <2>3. CASE Failed'
    BY <1>2, <2>1, <2>3 DEF Reading
  <2>4. CASE ~Failed'
    <3>1. frames[1].file = 1 => OnFirst' /\ out'.pic = out'.ts
      BY <1>2, <2>1, <2>2, <2>4 DEF OnFirst
    <3>2. Len(names') = 1 => OnFirst'
      BY <1>2, <1>5, <1>9, <3>1
    <3>3. frames' # <<>> /\ frames'[1].file = 1 => OnFirst'
      BY <1>6, <1>9, <2>1, <3>1
    <3>4. out'.file >= 1 /\ out'.file \in Nat
      BY <1>9, <2>1, TailIs, EntryIs
    <3>5. Given'
      BY <1>2, <2>1, <2>2, <2>4, <3>1, <3>4 DEF Given
    <3> QED
      BY <1>2, <2>1, <2>2, <2>4, <3>2, <3>3, <3>5 DEF Reading
  <2> QED
    BY <2>3, <2>4
<1> QED
  BY <1>1, <1>7, <1>8, <1>9

(* What next_frame() gives out, and what it leaves. *)
LEMMA NextInTurn ==
  ASSUME Types, Buffered, Filed, Once, InOrder, Reading, Kept, InTurn, NextFrame
  PROVE  /\ InTurn'
         /\ pc' = "code" /\ mishaps' \subseteq {"same_minute"} /\ Made =>
              /\ out'.ts > out.ts
              /\ IF mode = "no_latency" THEN out'.ts = now
                 ELSE ready \/ ~checked => out'.ts = out.ts + 1
<1>1. /\ pc = "next" /\ UNCHANGED <<now, start, media, files, global>> /\ PutFrame
      /\ \/ ~allowed /\ UNCHANGED <<player, held, mishaps>> /\ pc' = "add"
         \/ allowed /\ pc' = "code" /\ (Len(frames) <= 1 \/ mode = "no_latency") /\ NextLive
         \/ /\ allowed /\ pc' = "code" /\ Len(frames) > 1 /\ frames # <<>> /\ mode = "transmit_all"
            /\ NextQueued
  BY NextIs
<1>2. UNCHANGED <<now, ready, checked, mode>> /\ pc' # "next" /\ (Made' <=> Made) /\ mishaps \subseteq mishaps'
  <2>1. UNCHANGED <<now, ready, checked, mode, names, absent>> /\ pc' # "next"
    BY <1>1 DEF media, global, files
  <2>2. mishaps \subseteq mishaps'
    BY <1>1, Zenon DEF NextLive, NextQueued
  <2> QED
    BY <2>1, <2>2 DEF Made
<1>3. /\ now \in Nat /\ out.ts \in Nat /\ out.ts < now /\ frames \in Seq(Entry) /\ Len(frames) \in Nat
      /\ mode \in {"no_latency", "transmit_all"}
  BY <1>1 DEF Types, InTurn, Modes
<1>4. mode = "transmit_all" /\ mishaps \subseteq {"same_minute"} /\ Made =>
        /\ \A i \in DOMAIN frames : frames[i].ts > out.ts
        /\ ready \/ ~checked => /\ out.ts + Len(frames) = now
                                /\ \A i \in DOMAIN frames : frames[i].ts = out.ts + i
  BY DEF InTurn
<1>5. CASE ~allowed /\ UNCHANGED <<player, held, mishaps>> /\ pc' = "add"
  BY <1>2, <1>4, <1>5 DEF InTurn, player
<1>6. CASE pc' = "code" /\ (Len(frames) <= 1 \/ mode = "no_latency") /\ NextLive
  <2>1. out'.ts = now /\ frames' = IF frames = <<>> THEN frames ELSE Tail(frames)
    BY <1>6 DEF NextLive
  <2>2. mode = "transmit_all" => Len(frames) <= 1
    BY <1>6
  <2>3. mode = "transmit_all" => frames' = <<>>
    BY <1>3, <2>1, <2>2
  <2>4. mode = "transmit_all" => Len(frames') = 0 /\ DOMAIN frames' = {}
    BY <2>3
  <2>5. InTurn'
    BY <1>2, <1>3, <2>1, <2>4 DEF InTurn
  <2>6. mode = "transmit_all" /\ mishaps \subseteq {"same_minute"} /\ Made /\ (ready \/ ~checked) =>
          out'.ts = out.ts + 1
    BY <1>3, <1>4, <2>1, <2>2
  <2> QED
    BY <1>2, <1>3, <2>1, <2>5, <2>6
<1>7. CASE pc' = "code" /\ frames # <<>> /\ mode = "transmit_all" /\ NextQueued
  <2>1. frames' = Tail(frames) /\ (Made /\ Alone /\ "unread" \notin mishaps' => out'.ts = frames[1].ts)
    BY <1>1, <1>7, QueuedIs
  <2>2. /\ Len(frames') = Len(frames) - 1 /\ 1 \in DOMAIN frames
        /\ \A i \in DOMAIN frames' : i \in Nat /\ i + 1 \in DOMAIN frames /\ i + 1 > 1
                                       /\ frames'[i] = frames[i + 1]
    BY <1>7, <2>1, TailIs
  <2>3. ASSUME mishaps' \subseteq {"same_minute"}, Made
        PROVE  /\ \A i \in DOMAIN frames' : frames'[i].ts > out'.ts
               /\ ready \/ ~checked => /\ out'.ts + Len(frames') = now
                                       /\ \A i \in DOMAIN frames' : frames'[i].ts = out'.ts + i
               /\ out'.ts > out.ts
               /\ ready \/ ~checked => out'.ts = out.ts + 1
    <3>1. Alone /\ mishaps \subseteq {"same_minute"} /\ "unread" \notin mishaps'
      BY <1>2, <2>3 DEF Alone
    <3>2. out'.ts = frames[1].ts
      BY <2>1, <2>3, <3>1
    <3>3. frames[1].ts > out.ts /\ (ready \/ ~checked => frames[1].ts = out.ts + 1)
      BY <1>4, <1>7, <2>2, <2>3, <3>1
    <3>4. \A i \in DOMAIN frames' : frames'[i].ts > out'.ts
      <4>1. \A i \in DOMAIN frames' : frames[1].ts < frames[i + 1].ts
        BY <2>2 DEF InOrder
      <4>2. \A j \in DOMAIN frames : frames[j].ts \in Nat
        <5> SUFFICES ASSUME NEW j \in DOMAIN frames PROVE frames[j].ts \in Nat
          OBVIOUS
        <5>1. PICK q \in Entry : q = frames[j]
          BY <1>3
        <5> QED
          BY <5>1 DEF Entry
      <4> QED
        BY <2>2, <3>2, <4>1, <4>2
    <3>5. ASSUME ready \/ ~checked
          PROVE  /\ out'.ts + Len(frames') = now
                 /\ \A i \in DOMAIN frames' : frames'[i].ts = out'.ts + i
      <4>1. out.ts + Len(frames) = now /\ \A i \in DOMAIN frames : frames[i].ts = out.ts + i
        BY <1>4, <1>7, <2>3, <3>1, <3>5
      <4>2. out'.ts = out.ts + 1
        BY <3>2, <3>3, <3>5
      <4> QED
        BY <1>3, <2>2, <4>1, <4>2
    <3> QED
      BY <3>2, <3>3, <3>4, <3>5
  <2> QED
    BY <1>2, <1>7, <2>3 DEF InTurn
<1> QED
  BY <1>1, <1>5, <1>6, <1>7
-----------------------------------------------------------------------------
(* The other steps.                                                        *)

(* A step that leaves the files alone: the frames stay where they are, and *)
(* what has failed has failed. *)
LEMMA Untouched ==
  ASSUME Types, Once, InOrder, Reading, UNCHANGED <<names, data, broken, frames, cur, reader>>,
         now' \in Nat, now <= now', mishaps \subseteq mishaps',
         pc' = "code" => pc = "code" /\ UNCHANGED <<out, now>>
  PROVE  Once' /\ InOrder' /\ Reading'
<1>1. now \in Nat
  BY DEF Types
<1>2. Once'
  <2>1. \A f \in DOMAIN data : \A k \in DOMAIN data[f] : data[f][k] \in 1 .. now'
    BY <1>1 DEF Once
  <2> QED
    BY <2>1 DEF Once
<1>3. InOrder'
  <2>1. ASSUME NEW i \in DOMAIN frames PROVE Entered(frames[i], names, data, broken, now')
    <3>1. Entered(frames[i], names, data, broken, now)
      BY DEF InOrder
    <3>2. frames[i].ts \in 1 .. now'
      BY <1>1, <3>1 DEF Entered
    <3> QED
      BY <3>1, <3>2, Zenon DEF Entered
  <2>2. \A i, j \in DOMAIN frames : i < j => frames[i].ts < frames[j].ts /\ frames[i].file <= frames[j].file
    BY DEF InOrder
  <2> QED
    BY <2>1, <2>2 DEF InOrder
<1>4. (Failed => Failed') /\ (Alone' => Alone) /\ (OnFirst' <=> OnFirst)
  BY DEF Failed, Unbroken, Alone, OnFirst
<1>5. pc' = "code" => pc = "code" /\ (Given => Given')
  BY <1>4 DEF Given
<1> QED
  BY <1>2, <1>3, <1>4, <1>5 DEF Reading

(* A step that leaves the directory alone, too. *)
LEMMA SameFiles ==
  ASSUME Filed, Kept, Complete, Stamped,
         UNCHANGED <<names, data, stick, absent, broken, ready, checked, born, now, stamp, runs>>,
         mishaps \subseteq mishaps', (pc' # "off" /\ pc # "off") \/ pc' = pc
  PROVE  Filed' /\ Kept' /\ Complete' /\ Stamped'
<1>1. Filed'
  BY DEF Filed, Distinct
<1>2. Alone' => Alone
  BY DEF Alone
<1>3. Kept'
  BY <1>2 DEF Kept
<1>4. Complete'
  BY DEF Complete, Recorded, Unbroken
<1>5. Stamped'
  BY DEF Stamped
<1> QED
  BY <1>1, <1>3, <1>4, <1>5

LEMMA CodedStays ==
  ASSUME CodedRight, UNCHANGED <<coded, names, broken>>, mishaps \subseteq mishaps'
  PROVE  CodedRight'
<1>1. Unbroken' <=> Unbroken
  BY DEF Unbroken
<1> QED
  BY <1>1 DEF CodedRight

LEMMA TurnStays ==
  ASSUME InTurn, UNCHANGED <<frames, out, now, ready, checked, mode, names, absent>>,
         mishaps \subseteq mishaps', pc' # "next" \/ pc = "next"
  PROVE  InTurn'
<1>1. Made' <=> Made
  BY DEF Made
<1> QED
  BY <1>1 DEF InTurn

LEMMA NothingCoded == ASSUME coded' = NoFrame PROVE CodedRight'
BY DEF CodedRight, NoFrame

LEMMA InitInv == Init => IInv
<1> SUFFICES ASSUME Init PROVE IInv
  OBVIOUS
<1>1. /\ pc = "off" /\ now = 0 /\ runs = 0 /\ stamp = 1 /\ start = 0 /\ born = 0
      /\ ring = <<>> /\ done = 0 /\ live = 1 /\ held = [b \in Buffers |-> 0] /\ coded = NoFrame
      /\ checked = FALSE /\ ready = FALSE /\ copyTo = FALSE /\ absent = {} /\ broken = {}
      /\ names = <<>> /\ data = <<<<>>>> /\ frames = <<>> /\ cur = 0 /\ reader = [file |-> 0, bad |-> FALSE]
      /\ out = [ts |-> 0, pic |-> 0, file |-> 0] /\ mode = "no_latency" /\ allowed = TRUE /\ mishaps = {}
      /\ stick = <<>> \/ stick = <<[name |-> <<0, 0>>, id |-> 1]>>
  BY DEF Init, Closed
<1>2. stick \in Seq(File) /\ \A i \in DOMAIN stick : i = 1 /\ stick[i].id = 1 /\ stick[i].name = <<0, 0>>
  <2>1. CASE stick = <<>>
    BY <2>1
  <2>2. CASE stick = <<[name |-> <<0, 0>>, id |-> 1]>>
    <3>1. PICK f : f = [name |-> <<0, 0>>, id |-> 1]
      OBVIOUS
    <3>2. f \in File /\ f.id = 1 /\ f.name = <<0, 0>>
      BY <3>1 DEF File
    <3> QED
      BY <2>2, <3>1, <3>2
  <2> QED
    BY <1>1, <2>1, <2>2
<1>3. data \in Seq(Seq(Nat)) /\ data # <<>> /\ DOMAIN data = {1} /\ data[1] = <<>> /\ Len(data) = 1
  <2>1. <<>> \in Seq(Nat)
    OBVIOUS
  <2> QED
    BY <1>1, <2>1
<1>4. /\ names \in Seq(File) /\ frames \in Seq(Entry) /\ DOMAIN names = {} /\ DOMAIN frames = {}
      /\ Len(names) = 0 /\ Len(frames) = 0 /\ DOMAIN <<>> = {}
  BY <1>1
<1>5. Types
  <2>1. /\ now \in Nat /\ now + done <= MaxFrames /\ runs \in Nat
        /\ stamp \in Nat /\ start \in 0 .. now /\ born \in 0 .. start
    BY <1>1, RecorderAssumption
  <2>2. /\ ring \in Seq(Buffers) /\ Len(ring) = 0 /\ done \in 0 .. Len(ring) /\ Len(ring) <= Bufs
        /\ live \in Buffers /\ held \in [Buffers -> Nat]
    BY <1>1, RecorderAssumption DEF Buffers
  <2>3. /\ reader \in [file : Nat, bad : BOOLEAN] /\ cur \in Nat
        /\ out \in [ts : Nat, pic : Nat, file : Nat] /\ out.ts <= now
    BY <1>1
  <2>4. /\ allowed \in BOOLEAN /\ checked \in BOOLEAN /\ ready \in BOOLEAN /\ copyTo = ready
        /\ (ready => checked) /\ mode \in Modes /\ absent \subseteq broken
    BY <1>1, Zenon DEF Modes
  <2> QED
    BY <1>1, <1>2, <1>3, <1>4, <2>1, <2>2, <2>3, <2>4 DEF Types
<1>6. Filed /\ Buffered
  BY <1>1, <1>2, <1>3, <1>4 DEF Filed, Distinct, Buffered
<1>7. Once /\ InOrder /\ Kept
  BY <1>1, <1>3, <1>4 DEF Once, InOrder, Kept
<1>8. Reading
  BY <1>1, <1>3, <1>4 DEF Reading
<1>9. Complete /\ InTurn
  BY <1>1, <1>4 DEF Complete, InTurn
<1>10. Stamped
  BY <1>1, <1>2 DEF Stamped
<1>11. CodedRight
  BY <1>1 DEF CodedRight, NoFrame
<1> QED
  BY <1>5, <1>6, <1>7, <1>8, <1>9, <1>10, <1>11 DEF IInv

(* The driver gets every buffer, and the frame that began the run back. *)
LEMMA AllQueued ==
  ASSUME Types, live' = Head(StreamingBufs), ring' = Append(Tail(StreamingBufs), live')
  PROVE  /\ ring' \in Seq(Buffers) /\ Len(ring') = Bufs /\ live' \in Buffers
         /\ \A i, j \in DOMAIN ring' : i # j => ring'[i] # ring'[j]
<1>1. Bufs \in Nat \ {0}
  BY RecorderAssumption
<1>2. PICK s : s = StreamingBufs
  OBVIOUS
<1>3. s \in Seq(Buffers) /\ Len(s) = Bufs /\ s # <<>> /\ \A i \in 1 .. Bufs : s[i] = i
  BY <1>1, <1>2 DEF StreamingBufs, Buffers
<1>4. live' = 1 /\ live' \in Buffers
  BY <1>1, <1>2, <1>3 DEF Buffers
<1>5. PICK q : q = Tail(s)
  OBVIOUS
<1>6. q \in Seq(Buffers) /\ Len(q) = Bufs - 1 /\ DOMAIN q = 1 .. Bufs - 1 /\ \A i \in 1 .. Bufs - 1 : q[i] = i + 1
  <2>1. q \in Seq(Buffers) /\ Len(q) = Len(s) - 1 /\ \A i \in 1 .. Len(s) - 1 : q[i] = s[i + 1]
    BY <1>3, <1>5, HeadTailProperties
  <2> QED
    BY <1>1, <1>3, <2>1
<1>7. PICK r : r = Append(q, live')
  OBVIOUS
<1>8. r \in Seq(Buffers) /\ Len(r) = Bufs /\ DOMAIN r = 1 .. Bufs /\ r[Bufs] = 1
      /\ \A i \in 1 .. Bufs - 1 : r[i] = i + 1
  BY <1>1, <1>4, <1>6, <1>7
<1>9. ASSUME NEW i \in DOMAIN r, NEW j \in DOMAIN r, i # j PROVE r[i] # r[j]
  BY <1>1, <1>8, <1>9
<1> QED
  BY <1>2, <1>4, <1>5, <1>7, <1>8, <1>9

(* A FileWriter that begins: its file is new and empty, its queue is too.  *)
LEMMA WriterInv == IInv /\ NewWriter => IInv'
<1> SUFFICES ASSUME IInv, NewWriter PROVE IInv'
  OBVIOUS
<1>1. Types /\ Filed /\ Once /\ Stamped
  BY DEF IInv
<1>2. /\ pc = "off" /\ runs' = runs + 1 /\ stamp' \in {stamp, stamp + 1}
      /\ mode' \in Modes /\ allowed' \in {allowed, TRUE} /\ start' = now /\ born' = now
      /\ checked' = FALSE /\ ready' = FALSE /\ copyTo' = FALSE
      /\ data' = Append(data, <<>>)
      /\ names' = <<[name |-> <<stamp', FragmentNum(0)>>, id |-> Len(data')]>>
      /\ frames' = <<>> /\ cur' = 0 /\ reader' = [file |-> 0, bad |-> FALSE]
      /\ out' = [ts |-> now, pic |-> now, file |-> 0]
      /\ mishaps' = mishaps \union (IF runs > 0 /\ stamp' = stamp THEN {"same_minute"} ELSE {})
      /\ live' = Head(StreamingBufs) /\ ring' = Append(Tail(StreamingBufs), live')
      /\ done' = 0 /\ held' = [b \in Buffers |-> 0] /\ pc' = "add" /\ coded' = NoFrame
      /\ UNCHANGED <<now, stick>>
  BY DEF NewWriter, Closed
<1>17. absent' \subseteq broken'
  <2>1. PICK failed : absent' = absent \union failed /\ broken' = broken \union failed
    BY Zenon DEF NewWriter
  <2> QED
    BY <1>1, <2>1 DEF Types
<1>3. /\ now \in Nat /\ now <= MaxFrames /\ runs \in Nat /\ stamp \in Nat /\ stick \in Seq(File)
      /\ data \in Seq(Seq(Nat)) /\ Len(data) \in Nat \ {0} /\ DOMAIN data = 1 .. Len(data)
      /\ allowed \in BOOLEAN /\ Bufs \in Nat \ {0}
  BY <1>1, RecorderAssumption DEF Types
<1>4. /\ data' \in Seq(Seq(Nat)) /\ Len(data') = Len(data) + 1 /\ DOMAIN data' = 1 .. Len(data) + 1
      /\ \A f \in DOMAIN data : data'[f] = data[f]
      /\ data'[Len(data) + 1] = <<>> /\ DOMAIN <<>> = {}
  <2>1. <<>> \in Seq(Nat)
    OBVIOUS
  <2> QED
    BY <1>2, <1>3, <2>1
<1>5. PICK f : f = [name |-> <<stamp', FragmentNum(0)>>, id |-> Len(data')]
  OBVIOUS
<1>6. f \in File /\ f.id = Len(data) + 1 /\ f.name = <<stamp', 0>>
  <2>1. stamp' \in Nat
    BY <1>2, <1>3
  <2>2. FragmentNum(0) = 0
    BY Fragment
  <2>3. <<stamp', 0>> \in Nat \X Nat /\ Len(data') \in Nat
    BY <1>3, <1>4, <2>1
  <2> QED
    BY <1>4, <1>5, <2>2, <2>3 DEF File
<1>7. names' \in Seq(File) /\ Len(names') = 1 /\ DOMAIN names' = {1} /\ names'[1] = f /\ names' # <<>>
  BY <1>2, <1>5, <1>6
<1>8. frames' \in Seq(Entry) /\ DOMAIN frames' = {} /\ Len(frames') = 0
  BY <1>2
<1>18. /\ ring' \in Seq(Buffers) /\ Len(ring') = Bufs /\ live' \in Buffers
       /\ \A i, j \in DOMAIN ring' : i # j => ring'[i] # ring'[j]
  BY <1>1, <1>2, AllQueued
<1>9. Types'
  <2>1. /\ now' \in Nat /\ done' \in 0 .. Len(ring') /\ now' + done' <= MaxFrames /\ Len(ring') <= Bufs
        /\ held' \in [Buffers -> Nat]
    BY <1>2, <1>3, <1>18
  <2>2. /\ runs' \in Nat /\ runs' > 0 /\ stamp' \in Nat /\ start' \in 0 .. now' /\ born' \in 0 .. start'
    BY <1>2, <1>3
  <2>3. /\ reader' \in [file : Nat, bad : BOOLEAN] /\ cur' \in Nat
        /\ out' \in [ts : Nat, pic : Nat, file : Nat] /\ out'.ts <= now'
    BY <1>2, <1>3
  <2>4. /\ allowed' \in BOOLEAN /\ checked' \in BOOLEAN /\ ready' \in BOOLEAN /\ copyTo' = ready'
        /\ (ready' => checked')
    BY <1>2, <1>3, Zenon
  <2>5. data' # <<>>
    BY <1>3, <1>4
  <2> QED
    BY <1>2, <1>3, <1>4, <1>7, <1>8, <1>17, <1>18, <2>1, <2>2, <2>3, <2>4, <2>5 DEF Types
<1>19. Buffered'
  <2>1. 1 .. done' = {} /\ pc' = "add" /\ Len(ring') = Bufs
    BY <1>2, <1>18
  <2> QED
    BY <1>18, <2>1 DEF Buffered
<1>10. Filed'
  <2>1. \A i \in DOMAIN stick : stick[i].id \in 1 .. Len(data)
    BY <1>1, <1>3 DEF Filed
  <2>2. Distinct(stick)
    BY <1>1 DEF Filed
  <2>3. \A i \in DOMAIN stick' : stick'[i].id \in DOMAIN data' /\ stick'[i].id # names'[1].id
    BY <1>2, <1>3, <1>4, <1>6, <1>7, <2>1
  <2>4. \A n \in DOMAIN names' : names'[n].id = (Len(data') - Len(names')) + n
    BY <1>3, <1>4, <1>6, <1>7
  <2>5. Len(names') <= Len(data')
    BY <1>3, <1>4, <1>7
  <2> QED
    BY <1>2, <2>2, <2>3, <2>4, <2>5 DEF Filed, Distinct
<1>11. Once'
  <2>1. ASSUME NEW g \in DOMAIN data', NEW k \in DOMAIN data'[g]
        PROVE  g \in DOMAIN data /\ data'[g] = data[g]
    <3>1. g # Len(data) + 1
      BY <1>4
    <3>2. g \in 1 .. Len(data) + 1 /\ Len(data) \in Nat
      BY <1>3, <1>4
    <3>3. g \in 1 .. Len(data)
      BY <3>1, <3>2
    <3> QED
      BY <1>3, <1>4, <3>3
  <2> QED
    BY <1>1, <1>2, <2>1 DEF Once
<1>12. InOrder' /\ Kept'
  BY <1>2, <1>7, <1>8 DEF InOrder, Kept
<1>13. Reading'
  BY <1>2, <1>3, <1>4, <1>7 DEF Reading, OnFirst, Closed
<1>14. Complete' /\ InTurn'
  <2>1. born' + 1 .. now' = {}
    BY <1>2, <1>3
  <2> QED
    BY <1>2, <1>3, <1>8, <2>1 DEF Complete, InTurn
<1>15. Stamped'
  <2>1. ASSUME "same_minute" \notin mishaps'
        PROVE  \A i \in DOMAIN stick : stick[i].name[1] < stamp'
    <3>1. "same_minute" \notin mishaps /\ (runs > 0 => stamp' = stamp + 1)
      BY <1>2, <2>1
    <3>2. \A i \in DOMAIN stick : stick[i].name[1] < stamp \/ (runs > 0 /\ stick[i].name[1] = stamp)
      BY <1>1, <3>1 DEF Stamped
    <3>3. ASSUME NEW i \in DOMAIN stick PROVE stick[i].name[1] \in Nat
      <4>1. PICK q \in File : q = stick[i]
        BY <1>3
      <4>2. q.name \in Nat \X Nat
        BY <4>1 DEF File
      <4> QED
        BY <4>1, <4>2
    <3>4. stamp' = stamp \/ stamp' = stamp + 1
      BY <1>2
    <3>5. CASE runs > 0
      <4>1. stamp' = stamp + 1 /\ \A i \in DOMAIN stick : stick[i].name[1] < stamp \/ stick[i].name[1] = stamp
        BY <3>1, <3>2, <3>5
      <4>2. ASSUME NEW i \in DOMAIN stick PROVE stick[i].name[1] < stamp'
        <5>1. PICK m \in Nat : m = stick[i].name[1]
          BY <3>3
        <5>2. stamp \in Nat /\ stamp' = stamp + 1 /\ (m < stamp \/ m = stamp)
          BY <1>3, <4>1, <5>1
        <5>3. m < stamp'
          BY ONLY <5>2, m \in Nat
        <5> QED
          BY <5>1, <5>3
      <4> QED
        BY <4>2
    <3>6. CASE ~(runs > 0)
      BY <1>3, <3>2, <3>3, <3>4, <3>6
    <3> QED
      BY <3>5, <3>6
  <2> QED
    BY <1>2, <1>6, <1>7, <2>1 DEF Stamped
<1>16. CodedRight'
  BY <1>2, NothingCoded
<1> QED
  BY <1>9, <1>10, <1>11, <1>12, <1>13, <1>14, <1>15, <1>16, <1>19 DEF IInv

(* An error in add_frame() before the segment is begun. *)
LEMMA ThrowInv == IInv /\ AddFrameThrows => IInv'
<1> SUFFICES ASSUME IInv, AddFrameThrows PROVE IInv'
  OBVIOUS
<1>1. Types /\ Buffered /\ Filed /\ Once /\ InOrder /\ Reading /\ Kept /\ Stamped
  BY DEF IInv
<1>2. /\ pc = "add" /\ GetFrame /\ pc' = "unwind"
      /\ \/ UNCHANGED <<media, stick>>
         \/ checked' = TRUE /\ ready' = TRUE /\ copyTo' = TRUE /\ stick' = stick
         \/ MediaCheck(now + 1) /\ stick' \in AfterDeletion
      /\ mishaps' = mishaps \union {"thrown"} \union (IF stick' # stick THEN {"deleted"} ELSE {})
      /\ UNCHANGED <<start, names, data, absent, broken, player, global>>
  BY Zenon DEF AddFrameThrows
<1>3. checked' \in BOOLEAN /\ ready' \in BOOLEAN /\ copyTo' = ready' /\ (ready' => checked')
  <2>1. CASE UNCHANGED <<media, stick>>
    BY <1>1, <2>1 DEF Types, media
  <2>2. CASE checked' = TRUE /\ ready' = TRUE /\ copyTo' = TRUE
    BY <2>2
  <2>3. CASE MediaCheck(now + 1)
    BY <1>1, <2>3, MediaIs DEF Looked
  <2> QED
    BY <1>2, <2>1, <2>2, <2>3
<1>4. stick' \in AfterDeletion
  BY <1>2 DEF AfterDeletion
<1>5. /\ stick' \in Seq(File) /\ Distinct(stick')
      /\ \A i \in DOMAIN stick' : \E j \in DOMAIN stick : stick'[i] = stick[j]
  BY <1>1, <1>4, LeftIs DEF Types, Filed
<1>6. mishaps \subseteq mishaps' /\ "thrown" \in mishaps' /\ (Alone' => Alone /\ stick' = stick)
  BY <1>2 DEF Alone
<1>7. /\ UNCHANGED <<start, names, data, absent, broken, frames, cur, reader, out>>
      /\ UNCHANGED <<runs, stamp, mode, allowed, born>>
  BY <1>2 DEF player, global
<1>8. Types'
  <2>1. /\ now' \in Nat /\ now' + done' <= MaxFrames /\ now' = now + 1
        /\ ring' \in Seq(Buffers) /\ done' \in 0 .. Len(ring') /\ Len(ring') = Bufs - 1 /\ live' \in Buffers
        /\ held' = held
    BY <1>1, <1>2, FetchIs
  <2>2. Len(ring') <= Bufs
    BY <2>1, RecorderAssumption
  <2>3. start' \in 0 .. now' /\ born' \in 0 .. start' /\ out'.ts <= now'
    BY <1>1, <1>7, <2>1 DEF Types
  <2> QED
    BY <1>1, <1>2, <1>3, <1>5, <1>7, <2>1, <2>2, <2>3 DEF Types
<1>9. Once' /\ InOrder' /\ Reading'
  <2>1. now' \in Nat /\ now <= now'
    BY <1>1, <1>2, FetchIs DEF Types
  <2> QED
    BY <1>1, <1>2, <1>6, <1>7, <2>1, Untouched
<1>10. Filed'
  BY <1>1, <1>2, <1>5, <1>7 DEF Filed
<1>11. Kept'
  BY <1>1, <1>2, <1>6, <1>7 DEF Kept
<1>12. Stamped'
  BY <1>1, <1>2, <1>5, <1>6, <1>7 DEF Stamped
<1>13. Buffered' /\ Complete' /\ InTurn'
  BY <1>2, <1>6 DEF Buffered, Complete, InTurn
<1>14. CodedRight'
  BY <1>1, <1>2, FetchIs, NothingCoded
<1> QED
  BY <1>8, <1>9, <1>10, <1>11, <1>12, <1>13, <1>14 DEF IInv

LEMMA AddInv == IInv /\ AddFrame => IInv'
<1> SUFFICES ASSUME IInv, AddFrame PROVE IInv'
  OBVIOUS
<1>1. Types /\ Buffered /\ Filed /\ Once /\ InOrder /\ Reading /\ Kept /\ Complete /\ InTurn /\ Stamped
  BY DEF IInv
<1>2. Types' /\ Buffered' /\ Filed' /\ Once' /\ InOrder' /\ Reading' /\ Kept' /\ Complete' /\ InTurn' /\ Stamped'
  BY <1>1, AddTypes, AddFiled, AddOnce, AddInOrder, AddReading, AddKept, AddComplete, AddInTurn,
     AddStamped
<1>3. coded' = NoFrame
  BY <1>1, AddIs DEF Added
<1>4. CodedRight'
  BY <1>3, NothingCoded
<1> QED
  BY <1>2, <1>4 DEF IInv

LEMMA NextFrameInv == IInv /\ NextFrame => IInv'
<1> SUFFICES ASSUME IInv, NextFrame PROVE IInv'
  OBVIOUS
<1>1. Types /\ Buffered /\ Filed /\ Once /\ InOrder /\ Reading /\ Kept /\ Complete /\ InTurn /\ Stamped /\ CodedRight
  BY DEF IInv
<1>2. Types' /\ Buffered' /\ Filed' /\ Once' /\ InOrder' /\ Kept'
  BY <1>1, NextTypes
<1>3. Reading'
  BY <1>1, NextReading
<1>4. InTurn'
  BY <1>1, NextInTurn
<1>5. /\ pc = "next" /\ pc' \in {"add", "code"} /\ mishaps \subseteq mishaps'
      /\ UNCHANGED <<names, data, stick, absent, broken, ready, checked, born, now, stamp, runs, coded>>
  <2>1. /\ pc = "next" /\ UNCHANGED <<now, start, media, files, global>> /\ PutFrame /\ pc' \in {"add", "code"}
        /\ UNCHANGED mishaps \/ NextLive \/ NextQueued
    BY <1>1, NextIs
  <2>2. mishaps \subseteq mishaps'
    BY <2>1, Zenon DEF NextLive, NextQueued
  <2> QED
    BY <2>1, <2>2 DEF media, files, global, PutFrame
<1>6. Complete' /\ Stamped'
  BY <1>1, <1>5, SameFiles
<1>7. CodedRight'
  BY <1>1, <1>5, CodedStays
<1> QED
  BY <1>2, <1>3, <1>4, <1>6, <1>7 DEF IInv

(* The frame is coded while the driver has not come to its buffer. *)
LEMMA CodeInv == IInv /\ Code => IInv'
<1> SUFFICES ASSUME IInv, Code PROVE IInv'
  OBVIOUS
<1>1. Types /\ Buffered /\ Filed /\ Once /\ InOrder /\ Reading /\ Kept /\ Complete /\ InTurn /\ Stamped
  BY DEF IInv
<1>2. /\ pc = "code" /\ pc' = "add"
      /\ coded' = [ts |-> out.ts, file |-> out.file, now |-> now, late |-> done,
                   pic |-> IF done < Len(ring) /\ ring[done + 1] = live THEN 0 ELSE held[live]]
      /\ UNCHANGED <<now, driver, start, media, files, player, global, mishaps>>
  BY DEF Code
<1>3. /\ UNCHANGED <<now, ring, done, live, held, start, checked, ready, copyTo, names, data, stick, absent, broken>>
      /\ UNCHANGED <<frames, cur, reader, out, runs, stamp, mode, allowed, born, mishaps>>
  BY <1>2 DEF driver, media, files, player, global
<1>4. Types'
  BY <1>1, <1>2, <1>3 DEF Types
<1>5. Buffered'
  BY <1>1, <1>2, <1>3 DEF Buffered
<1>6. Once' /\ InOrder' /\ Reading'
  <2>1. now' \in Nat /\ now <= now'
    BY <1>1, <1>3 DEF Types
  <2> QED
    BY <1>1, <1>2, <1>3, <2>1, Untouched
<1>7. Filed' /\ Kept' /\ Complete' /\ Stamped'
  BY <1>1, <1>2, <1>3, SameFiles
<1>8. InTurn'
  BY <1>1, <1>2, <1>3, TurnStays
<1>9. CodedRight'
  <2> SUFFICES ASSUME done < Bufs - 1, ~Failed
               PROVE  IF out.file \in {0, 1} THEN coded'.pic = out.ts
                      ELSE Alone => coded'.pic \in {out.ts, now}
    BY <1>2, <1>3 DEF CodedRight, Failed, Unbroken, Alone
  <2>1. /\ Len(ring) = Bufs /\ ring[Bufs] = live /\ held[live] = out.pic
        /\ \A i, j \in DOMAIN ring : i # j => ring[i] # ring[j]
        /\ DOMAIN ring = 1 .. Bufs /\ done \in Nat /\ Bufs \in Nat
    BY <1>1, <1>2, RecorderAssumption DEF Buffered, Types
  <2>2. done + 1 \in DOMAIN ring /\ Bufs \in DOMAIN ring /\ done + 1 # Bufs
    BY <2>1
  <2>3. ring[done + 1] # live
    BY <2>1, <2>2
  <2>4. coded'.pic = out.pic
    BY <1>2, <2>1, <2>3
  <2>5. Given
    BY <1>1, <1>2 DEF Reading
  <2> QED
    BY <2>4, <2>5 DEF Given
<1> QED
  BY <1>4, <1>5, <1>6, <1>7, <1>8, <1>9 DEF IInv

(* The driver fills its next buffer, which is not the one of the live      *)
(* frame while another is left. *)
LEMMA CaptureInv == IInv /\ Capture => IInv'
<1> SUFFICES ASSUME IInv, Capture PROVE IInv'
  OBVIOUS
<1>1. Types /\ Buffered /\ Filed /\ Once /\ InOrder /\ Reading /\ Kept /\ Complete /\ InTurn /\ Stamped /\ CodedRight
  BY DEF IInv
<1>2. /\ pc \in {"add", "next", "code"} /\ done < Len(ring) /\ now + done < MaxFrames /\ done' = done + 1
      /\ held' = [held EXCEPT ![ring[done']] = now + done']
      /\ UNCHANGED <<pc, now, ring, live, coded, start, media, files, player, global, mishaps>>
  BY DEF Capture
<1>3. /\ UNCHANGED <<pc, now, ring, live, coded, start, checked, ready, copyTo, names, data, stick, absent, broken>>
      /\ UNCHANGED <<frames, cur, reader, out, runs, stamp, mode, allowed, born, mishaps>>
  BY <1>2 DEF media, files, player, global
<1>4. /\ now \in Nat /\ MaxFrames \in Nat /\ ring \in Seq(Buffers) /\ Len(ring) \in Nat /\ done \in Nat
      /\ DOMAIN ring = 1 .. Len(ring) /\ held \in [Buffers -> Nat] /\ live \in Buffers /\ Bufs \in Nat
      /\ done' \in DOMAIN ring /\ ring[done'] \in Buffers
  BY <1>1, <1>2, RecorderAssumption, SMTT(40) DEF Types
<1>5. PICK b \in Buffers : b = ring[done']
  BY <1>4
<1>6. held' = [held EXCEPT ![b] = now + done'] /\ now + done' \in Nat
  BY <1>2, <1>4, <1>5
<1>7. Types'
  <2>1. now' + done' <= MaxFrames /\ done' \in 0 .. Len(ring') /\ held' \in [Buffers -> Nat]
    BY <1>2, <1>3, <1>4, <1>6
  <2> QED
    BY <1>1, <1>3, <2>1 DEF Types
<1>8. Buffered'
  <2>1. /\ Len(ring) = IF pc = "next" THEN Bufs - 1 ELSE Bufs
        /\ \A i, j \in DOMAIN ring : i # j => ring[i] # ring[j]
        /\ \A i \in 1 .. done : held[ring[i]] = now + i
        /\ pc = "next" => held[live] = now /\ \A i \in DOMAIN ring : ring[i] # live
        /\ pc = "code" => ring[Bufs] = live /\ (done < Bufs => held[live] = out.pic)
    BY <1>1, <1>2 DEF Buffered
  <2>2. ASSUME NEW i \in 1 .. done' PROVE held'[ring[i]] = now + i
    <3>1. CASE i = done'
      BY <1>4, <1>5, <1>6, <3>1
    <3>2. CASE i # done'
      <4>1. i \in 1 .. done /\ i \in DOMAIN ring
        BY <1>2, <1>4, <3>2
      <4>2. ring[i] # b /\ ring[i] \in Buffers
        BY <1>4, <1>5, <2>1, <3>2, <4>1, SMTT(40)
      <4> QED
        BY <1>4, <1>6, <2>1, <4>1, <4>2
    <3> QED
      BY <3>1, <3>2
  <2>3. pc = "next" => held'[live] = now
    BY <1>4, <1>5, <1>6, <2>1
  <2>4. pc = "code" /\ done' < Bufs => held'[live] = out.pic
    <3> SUFFICES ASSUME pc = "code", done' < Bufs PROVE held'[live] = out.pic
      OBVIOUS
    <3>1. Len(ring) = Bufs /\ Bufs \in DOMAIN ring /\ done' # Bufs /\ ring[Bufs] = live /\ done < Bufs
      BY <1>2, <1>4, <2>1
    <3>2. b # live
      BY <1>4, <1>5, <2>1, <3>1
    <3> QED
      BY <1>4, <1>6, <2>1, <3>1, <3>2
  <2> QED
    BY <1>3, <2>1, <2>2, <2>3, <2>4 DEF Buffered
<1>9. Once' /\ InOrder' /\ Reading'
  <2>1. now' \in Nat /\ now <= now'
    BY <1>3, <1>4
  <2> QED
    BY <1>1, <1>3, <2>1, Untouched
<1>10. Filed' /\ Kept' /\ Complete' /\ Stamped'
  BY <1>1, <1>3, SameFiles
<1>11. InTurn' /\ CodedRight'
  BY <1>1, <1>3, TurnStays, CodedStays
<1> QED
  BY <1>7, <1>8, <1>9, <1>10, <1>11 DEF IInv

(* Only the word of Comm changes, or nothing. *)
LEMMA AllowInv == IInv /\ (AllowTransmission \/ UNCHANGED vars) => IInv'
<1> SUFFICES ASSUME IInv, AllowTransmission \/ UNCHANGED vars PROVE IInv'
  OBVIOUS
<1>1. Types /\ Buffered /\ Filed /\ Once /\ InOrder /\ Reading /\ Kept /\ Complete /\ InTurn /\ Stamped /\ CodedRight
  BY DEF IInv
<1>2. /\ UNCHANGED <<pc, now, ring, done, live, held, coded, start, checked, ready, copyTo, names, data, stick>>
      /\ UNCHANGED <<absent, broken, frames, cur, reader, out, runs, stamp, mode, born, mishaps>>
  BY DEF AllowTransmission, vars, capture, driver, media, files, player, global
<1>3. allowed' \in BOOLEAN
  <2>1. CASE AllowTransmission
    BY <2>1, Zenon DEF AllowTransmission
  <2>2. CASE UNCHANGED vars
    BY <1>1, <2>2 DEF vars, global, Types
  <2> QED
    BY <2>1, <2>2
<1>4. Types'
  BY <1>1, <1>2, <1>3 DEF Types
<1>5. Buffered'
  BY <1>1, <1>2 DEF Buffered
<1>6. Once' /\ InOrder' /\ Reading'
  <2>1. now' \in Nat /\ now <= now'
    BY <1>1, <1>2 DEF Types
  <2> QED
    BY <1>1, <1>2, <2>1, Untouched
<1>7. Filed' /\ Kept' /\ Complete' /\ Stamped' /\ InTurn' /\ CodedRight'
  BY <1>1, <1>2, SameFiles, TurnStays, CodedStays
<1> QED
  BY <1>4, <1>5, <1>6, <1>7 DEF IInv

(* ~FileWriter(): the first file comes to the stick. *)
LEMMA CopyIs ==
  ASSUME Types, Filed, pc # "off", NEW left \in AfterDeletion, ~Has(left, names[1].name),
         stick' = Append(left, names[1])
  PROVE  /\ names[1] \in File /\ 1 \in DOMAIN names
         /\ stick' \in Seq(File) /\ Distinct(stick')
         /\ \A i \in DOMAIN stick' : stick'[i] = names[1] \/ \E j \in DOMAIN stick : stick'[i] = stick[j]
         /\ \E i \in DOMAIN stick' : stick'[i] = names[1]
         /\ left = stick => \A j \in DOMAIN stick : \E i \in DOMAIN stick' : stick'[i] = stick[j]
<1>1. /\ names \in Seq(File) /\ names # <<>> /\ stick \in Seq(File) /\ Distinct(stick)
      /\ \A i \in DOMAIN stick : stick[i].id # names[1].id
  BY DEF Types, Filed
<1>2. names[1] \in File /\ 1 \in DOMAIN names
  BY <1>1
<1>3. PICK f \in File : f = names[1]
  BY <1>2
<1>4. PICK new : new = stick'
  OBVIOUS
<1>5. Without(left, f.name) = left
  BY <1>3 DEF Without
<1>6. /\ f \in File /\ left \in AfterDeletion /\ stick \in Seq(File) /\ Distinct(stick)
      /\ \A i \in DOMAIN stick : stick[i].id # f.id
      /\ new = Append(Without(left, f.name), f)
  BY <1>1, <1>3, <1>4, <1>5
<1>7. Grown(new, left, f)
  BY ONLY <1>6, StickGrows, Zenon
<1>8. left = stick => ~Has(stick, f.name)
  BY <1>3
<1> QED
  BY ONLY <1>2, <1>3, <1>4, <1>7, <1>8, Zenon DEF Grown

LEMMA FinishInv == IInv /\ Finish => IInv'
<1> SUFFICES ASSUME IInv, Finish PROVE IInv'
  OBVIOUS
<1>1. Types /\ Filed /\ Once /\ InOrder /\ Reading /\ Kept /\ Complete /\ InTurn /\ Stamped /\ CodedRight
  BY DEF IInv
<1>2. /\ pc \in {"add", "unwind"} /\ pc' = "off"
      /\ IF copyTo
         THEN \E left \in AfterDeletion :
                /\ left = stick \/ left # <<>>
                /\ names[1].id \notin absent
                /\ ~Has(left, names[1].name)
                /\ stick' = Append(left, names[1])
                /\ mishaps' = mishaps \union (IF left # stick THEN {"deleted"} ELSE {})
         ELSE UNCHANGED <<stick, mishaps>>
      /\ UNCHANGED <<now, capture, start, media, names, data, absent, broken, player, global>>
  BY Zenon DEF Finish
<1>3. /\ UNCHANGED <<now, ring, done, live, held, coded, start, checked, ready, copyTo, names, data, absent, broken>>
      /\ UNCHANGED <<frames, cur, reader, out, runs, stamp, mode, allowed, born>> /\ pc # "off"
  BY <1>2 DEF capture, driver, media, player, global
<1>4. /\ stick' \in Seq(File) /\ Distinct(stick') /\ mishaps \subseteq mishaps'
      /\ mishaps' \subseteq mishaps \union {"deleted"}
      /\ \A i \in DOMAIN stick' : (ready /\ stick'[i] = names[1]) \/ \E j \in DOMAIN stick : stick'[i] = stick[j]
      /\ Alone' => /\ ready => \E i \in DOMAIN stick' : stick'[i] = names[1]
                   /\ \A j \in DOMAIN stick : \E i \in DOMAIN stick' : stick'[i] = stick[j]
  <2>1. copyTo = ready /\ ready \in BOOLEAN
    BY <1>1 DEF Types
  <2>2. CASE copyTo
    <3>1. PICK left \in AfterDeletion :
            /\ ~Has(left, names[1].name)
            /\ stick' = Append(left, names[1])
            /\ mishaps' = mishaps \union (IF left # stick THEN {"deleted"} ELSE {})
      BY <1>2, <2>2
    <3>2. /\ stick' \in Seq(File) /\ Distinct(stick')
          /\ \A i \in DOMAIN stick' : stick'[i] = names[1] \/ \E j \in DOMAIN stick : stick'[i] = stick[j]
          /\ \E i \in DOMAIN stick' : stick'[i] = names[1]
          /\ left = stick => \A j \in DOMAIN stick : \E i \in DOMAIN stick' : stick'[i] = stick[j]
      BY <1>1, <1>3, <3>1, CopyIs
    <3>3. /\ mishaps \subseteq mishaps' /\ mishaps' \subseteq mishaps \union {"deleted"}
          /\ (Alone' => left = stick)
      BY <3>1 DEF Alone
    <3> QED
      BY <2>1, <2>2, <3>2, <3>3, Zenon
  <2>3. CASE ~copyTo
    <3>1. stick' = stick /\ mishaps' = mishaps
      BY <1>2, <2>3
    <3>2. stick \in Seq(File) /\ Distinct(stick)
      BY <1>1 DEF Types, Filed
    <3> QED
      BY <2>1, <2>3, <3>1, <3>2 DEF Distinct
  <2> QED
    BY <2>2, <2>3
<1>5. Types' /\ Buffered'
  BY <1>1, <1>2, <1>3, <1>4 DEF Types, Buffered
<1>6. Filed'
  <2>1. 1 \in DOMAIN names
    BY <1>1, <1>3 DEF Types
  <2>2. names[1].id \in DOMAIN data /\ \A j \in DOMAIN stick : stick[j].id \in DOMAIN data
    BY <1>1, <2>1, NameIs DEF Filed
  <2>3. \A i \in DOMAIN stick' : stick'[i].id \in DOMAIN data
    BY <1>4, <2>2
  <2> QED
    BY <1>1, <1>2, <1>3, <1>4, <2>3 DEF Filed
<1>7. Once' /\ InOrder' /\ Reading'
  <2>1. now' \in Nat /\ now <= now'
    BY <1>1, <1>3 DEF Types
  <2> QED
    BY <1>1, <1>2, <1>3, <1>4, <2>1, Untouched
<1>8. Complete'
  BY <1>1, <1>3, <1>4 DEF Complete, Recorded, Unbroken
<1>9. Kept'
  <2>1. ASSUME Alone', NEW n \in DOMAIN names, n > 1 \/ ready, names[n].id \notin absent
        PROVE  \E i \in DOMAIN stick' : stick'[i] = names[n]
    <3>1. Alone
      BY <1>4, <2>1 DEF Alone
    <3>2. CASE n > 1
      BY <1>1, <1>4, <2>1, <3>1, <3>2 DEF Kept
    <3>3. CASE ready /\ ~(n > 1)
      <4>1. n = 1
        BY <1>1, <3>3 DEF Types
      <4> QED
        BY <1>4, <2>1, <3>3, <4>1
    <3> QED
      BY <2>1, <3>2, <3>3
  <2> QED
    BY <1>3, <2>1 DEF Kept
<1>10. InTurn' /\ CodedRight'
  BY <1>1, <1>2, <1>3, <1>4, TurnStays, CodedStays
<1>11. Stamped'
  <2>1. ASSUME "same_minute" \notin mishaps', NEW i \in DOMAIN stick'
        PROVE  stick'[i].name[1] < stamp \/ (runs > 0 /\ stick'[i].name[1] = stamp)
    <3>1. /\ names[1].name = <<stamp, 0>> /\ runs > 0
          /\ \A j \in DOMAIN stick : stick[j].name[1] < stamp \/ stick[j].name[1] = stamp
      BY <1>1, <1>3, <1>4, <2>1 DEF Stamped, Types
    <3>2. names[1].name[1] = stamp
      BY <3>1
    <3> QED
      BY <1>4, <3>1, <3>2
  <2> QED
    BY <1>2, <1>3, <2>1 DEF Stamped
<1> QED
  BY <1>5, <1>6, <1>7, <1>8, <1>9, <1>10, <1>11 DEF IInv

LEMMA TerminateInv == IInv /\ Terminate => IInv'
<1> SUFFICES ASSUME IInv, Terminate PROVE IInv'
  OBVIOUS
<1>1. Types /\ Filed /\ Once /\ InOrder /\ Reading /\ Kept /\ Complete /\ InTurn /\ Stamped /\ CodedRight
  BY DEF IInv
<1>2. /\ pc \in {"add", "unwind"} /\ pc' = "terminated" /\ stick' \in AfterDeletion
      /\ mishaps' = mishaps \union {"thrown"} \union (IF stick' # stick THEN {"deleted"} ELSE {})
      /\ UNCHANGED <<now, capture, start, media, names, data, absent, broken, player, global>>
  BY DEF Terminate, AfterDeletion
<1>3. /\ UNCHANGED <<now, ring, done, live, held, coded, start, checked, ready, copyTo, names, data, absent, broken>>
      /\ UNCHANGED <<frames, cur, reader, out, runs, stamp, mode, allowed, born>>
  BY <1>2 DEF capture, driver, media, player, global
<1>4. mishaps \subseteq mishaps' /\ "thrown" \in mishaps' /\ (Alone' => Alone /\ stick' = stick)
  BY <1>2 DEF Alone
<1>5. /\ stick' \in Seq(File) /\ Distinct(stick')
      /\ \A i \in DOMAIN stick' : \E j \in DOMAIN stick : stick'[i] = stick[j]
  BY <1>1, <1>2, LeftIs DEF Types, Filed
<1>6. Types' /\ Buffered'
  BY <1>1, <1>2, <1>3, <1>5 DEF Types, Buffered
<1>7. Filed'
  BY <1>1, <1>2, <1>3, <1>5 DEF Filed
<1>8. Once' /\ InOrder' /\ Reading'
  <2>1. now' \in Nat /\ now <= now'
    BY <1>1, <1>3 DEF Types
  <2> QED
    BY <1>1, <1>2, <1>3, <1>4, <2>1, Untouched
<1>9. Kept'
  BY <1>1, <1>2, <1>3, <1>4 DEF Kept
<1>10. Complete' /\ Stamped'
  BY <1>1, <1>2, <1>3, <1>4, <1>5 DEF Complete, Stamped
<1>11. InTurn' /\ CodedRight'
  BY <1>1, <1>2, <1>3, <1>4, TurnStays, CodedStays
<1> QED
  BY <1>6, <1>7, <1>8, <1>9, <1>10, <1>11 DEF IInv
-----------------------------------------------------------------------------
(* The theorems.                                                           *)

(* The inductive invariant of the recorder. *)
THEOREM Invariant == Spec => []IInv
<1>1. IInv /\ [Next]_vars => IInv'
  BY WriterInv, AllowInv, CaptureInv, AddInv, ThrowInv, NextFrameInv, CodeInv, FinishInv, TerminateInv
  DEF Next
<1> QED
  BY InitInv, <1>1, PTL DEF Spec

(* The type invariant: the driver never has more buffers, or more of them  *)
(* filled, than there are, and what a queued frame, a name and the stream  *)
(* refer to exists.                                                        *)
THEOREM Typed == Spec => []TypeOK
<1>1. IInv => TypeOK
  <2> SUFFICES ASSUME IInv PROVE TypeOK
    OBVIOUS
  <2>1. Types /\ Filed /\ InOrder /\ Reading
    BY DEF IInv
  <2>2. /\ pc \in {"off", "add", "next", "code", "unwind", "terminated"}
        /\ done \in 0 .. Len(ring) /\ Len(ring) <= Bufs /\ live \in Buffers
        /\ now \in 0 .. MaxFrames /\ start \in 0 .. now /\ born \in 0 .. start
    BY <2>1, RecorderAssumption DEF Types
  <2>3. (copyTo => ready) /\ (ready => checked) /\ mode \in Modes /\ out.ts \in 0 .. now
    BY <2>1 DEF Types
  <2>4. cur \in 0 .. Len(names) /\ reader.file \in 0 .. Len(data)
    BY <2>1 DEF Reading
  <2>5. \A i \in DOMAIN names : names[i].id \in DOMAIN data
    BY <2>1, NameIs
  <2>6. \A i \in DOMAIN frames : frames[i].file \in DOMAIN names
    BY <2>1 DEF InOrder, Entered
  <2> QED
    BY <2>2, <2>3, <2>4, <2>5, <2>6 DEF TypeOK
<1> QED
  BY <1>1, Invariant, PTL

(* A frame is coded with its own picture, if it is live or from the first  *)
(* file, nothing failed and run() is not later than the driver has buffers *)
(* to spare: the stream stays on the first file while a frame of it is     *)
(* queued, and the buffer that was put back is the last one to be filled.  *)
THEOREM PicturesMatch == Spec => []CodedRight
<1>1. IInv => CodedRight
  BY DEF IInv
<1> QED
  BY <1>1, Invariant, PTL

(* A run during which the stick was found leaves each of its frames in     *)
(* exactly one file on the stick, unless a file was deleted, overwritten   *)
(* or not written. *)
THEOREM AllKept == Spec => []AllOnStick
<1>1. IInv => AllOnStick
  <2> SUFFICES ASSUME IInv, pc = "off", ready, mishaps \subseteq {"same_minute", "unread"}, Unbroken,
                      NEW t \in born + 1 .. now
               PROVE  \E i \in DOMAIN stick :
                        /\ \E k \in DOMAIN data[stick[i].id] : data[stick[i].id][k] = t
                        /\ \A j \in DOMAIN stick \ {i} :
                             \A k \in DOMAIN data[stick[j].id] : data[stick[j].id][k] # t
    BY DEF AllOnStick
  <2>1. Types /\ Filed /\ Once /\ Kept /\ Complete
    BY DEF IInv
  <2>2. PICK n \in DOMAIN names : \E k \in DOMAIN data[names[n].id] : data[names[n].id][k] = t
    BY <2>1 DEF Complete, Recorded
  <2>6. Alone /\ names[n].id \notin absent
    BY <2>1 DEF Alone, Unbroken, Types
  <2>3. PICK i \in DOMAIN stick : stick[i] = names[n]
    BY <2>1, <2>6 DEF Kept
  <2>4. \E k \in DOMAIN data[stick[i].id] : data[stick[i].id][k] = t
    BY <2>2, <2>3
  <2>5. ASSUME NEW j \in DOMAIN stick \ {i}, NEW k \in DOMAIN data[stick[j].id]
        PROVE  data[stick[j].id][k] # t
    <3>1. stick[j].id \in DOMAIN data /\ stick[i].id \in DOMAIN data /\ stick[j].id # stick[i].id
      BY <2>1 DEF Filed, Distinct
    <3> QED
      BY <2>1, <2>4, <3>1 DEF Once
  <2> QED
    BY <2>4, <2>5
<1> QED
  BY <1>1, Invariant, PTL

(* The name that the first segment is copied to is free as long as no two  *)
(* recordings began in the same minute: the number of a later segment has  *)
(* first digits other than zero. *)
THEOREM NameFree == Spec => []FirstNameFree
<1>1. IInv => FirstNameFree
  <2> SUFFICES ASSUME Types, Stamped, pc # "off", OnStick(names[1].name), "same_minute" \notin mishaps
               PROVE  FALSE
    BY DEF IInv, FirstNameFree
  <2>1. PICK i \in DOMAIN stick : stick[i].name = names[1].name
    BY DEF OnStick, Has
  <2>2. names[1].name = <<stamp, 0>> /\ stamp \in Nat
    BY DEF Stamped, Types
  <2>3. stick[i].name[1] = stamp /\ stick[i].name[2] = 0
    BY <2>1, <2>2
  <2>4. stick[i].name[1] < stamp \/ stick[i].name[2] # 0
    BY DEF Stamped
  <2> QED
    BY <2>2, <2>3, <2>4
<1> QED
  BY <1>1, Invariant, PTL

(* The frames are given out in time, and in transmit_all mode every one.   *)
THEOREM FramesInTurn == Spec => EveryFrameInTurn
<1>1. IInv /\ [Next]_vars =>
        [pc = "next" /\ allowed /\ pc' = "code" /\ Made /\ mishaps' \subseteq {"same_minute"} =>
           /\ out'.ts > out.ts
           /\ IF mode = "no_latency" THEN out'.ts = now
              ELSE ready \/ ~checked => out'.ts = out.ts + 1]_vars
  <2> SUFFICES ASSUME IInv, Next, pc = "next", pc' = "code", Made, mishaps' \subseteq {"same_minute"}
               PROVE  /\ out'.ts > out.ts
                      /\ IF mode = "no_latency" THEN out'.ts = now
                         ELSE ready \/ ~checked => out'.ts = out.ts + 1
    OBVIOUS
  <2>1. NextFrame
    BY DEF Next, NewWriter, AllowTransmission, Capture, AddFrame, AddFrameThrows, Code, Finish, Terminate
  <2>2. Types /\ Buffered /\ Filed /\ Once /\ InOrder /\ Reading /\ Kept /\ InTurn
    BY DEF IInv
  <2> QED
    BY <2>1, <2>2, NextInTurn
<1> QED
  BY <1>1, Invariant, PTL DEF Spec, EveryFrameInTurn
=============================================================================
