---------------------------- MODULE PortsProofs ----------------------------
(***************************************************************************)
(* Proofs about Ports for every number of baud rates and of tries at boot, *)
(* every camera, any number of faults, and every device, set of requests   *)
(* and way their bytes arrive at the control port.                         *)
(***************************************************************************)
EXTENDS Ports, SequenceTheorems, WellFoundedInduction, TLAPS

Types == /\ pc \in FlirLives \union Listens \union {"dead"}
         /\ rate \in 1 .. NRates /\ tries \in Nat
         /\ second \in BOOLEAN /\ answered \in BOOLEAN /\ first \in BOOLEAN
         /\ wire \in Nat /\ chunks \in Seq({"whole", "head", "tail"})
         /\ cam \in [on : BOOLEAN, rate : 1 .. NRates, obeys : BOOLEAN]
         /\ heard \in BOOLEAN /\ wrong \in BOOLEAN /\ setup \in BOOLEAN
         /\ found \in 0 .. NRates

(* Answers that are on the way, or have come: none, some, or exactly one.  *)
Idle == wire = 0 /\ chunks = <<>> /\ ~answered
Owed == wire > 0 \/ chunks # <<>> \/ answered
One  == \/ wire = 1 /\ chunks = <<>> /\ ~answered
        \/ wire = 0 /\ Len(chunks) = 1 /\ ~answered
        \/ wire = 0 /\ chunks = <<>> /\ answered
(* The camera does not hear, and what it still has to say is not heard     *)
(* either: it did not take the rate it was given.                          *)
Deaf == cam.on /\ cam.rate # rate /\ chunks = <<>> /\ ~answered

(* The second search may begin with the answer to the command that set the *)
(* rate still to come: from a camera that will hear the first probe, or    *)
(* from one that is heard by nobody.                                       *)
Probing == ~heard /\ (Idle \/ (second /\ Hears /\ Owed) \/ (second /\ Deaf))
AwaitingAnswer == \/ heard /\ Hears /\ (One \/ (second /\ Owed))
                  \/ ~heard /\ (Idle \/ (second /\ Deaf))
Over == \/ found = 0 /\ ~heard
        \/ found = rate /\ heard /\ Hears /\ (second \/ (wire = 0 /\ chunks = <<>>))

Search == ~wrong => /\ pc = "probe" => Probing
                    /\ pc = "wait" => AwaitingAnswer
                    /\ pc = "found" => Over
                    /\ \A i \in DOMAIN chunks : chunks[i] = "whole"
                    /\ setup => cam.on /\ cam.rate = 1

SetUpLast == setup => pc \in {"close", "dead"}

IInv == Types /\ Search /\ SetUpLast
-----------------------------------------------------------------------------
LEMMA Rates == NRates \in Nat /\ 1 \in 1 .. NRates /\ 0 \in 0 .. NRates /\ 1 .. NRates \subseteq 0 .. NRates
<1>1. NRates \in Nat /\ NRates # 0
  BY PortsAssumption
<1> QED
  BY <1>1

LEMMA NoChunks == <<>> \in Seq({"whole", "head", "tail"}) /\ 0 \in Nat
OBVIOUS

LEMMA InitIInv == ASSUME Init PROVE IInv
<1>1. pc \in {"probe", "close"} /\ chunks = <<>> /\ wire = 0 /\ ~answered /\ ~heard /\ ~setup
  BY DEF Init
<1>2. tries \in Nat
  BY PortsAssumption DEF Init
<1>3. Types
  <2>1. 1 \in 1 .. NRates /\ 0 \in 0 .. NRates
    BY Rates
  <2>2. /\ rate = 1 /\ second = FALSE /\ answered = FALSE /\ first \in BOOLEAN /\ heard = FALSE /\ wrong = FALSE
        /\ found = 0 /\ setup = FALSE
        /\ cam \in [on : BOOLEAN, rate : 1 .. NRates, obeys : BOOLEAN]
    BY DEF Init
  <2> QED
    BY <1>1, <1>2, <2>1, <2>2, NoChunks DEF Types, FlirLives
<1> QED
  BY <1>1, <1>3 DEF IInv, Search, SetUpLast, Probing, Idle

LEMMA CameraStartsKeeps == ASSUME IInv, CameraStarts PROVE IInv'
<1>1. Types'
  BY DEF IInv, Types, CameraStarts
<1>2. ASSUME ~wrong
      PROVE  (pc = "probe" => Probing') /\ (pc = "wait" => AwaitingAnswer')
  BY <1>2 DEF IInv, Types, Search, Probing, AwaitingAnswer, Idle, Owed, One, Deaf, Hears, CameraStarts
<1>3. Search'
  BY <1>2 DEF IInv, Types, SetUpLast, Search, CameraStarts
<1> QED
  BY <1>1, <1>3 DEF IInv, SetUpLast, CameraStarts

LEMMA ProbeKeeps == ASSUME IInv, Probe PROVE IInv'
<1>1. Types'
  BY DEF IInv, Types, Probe, FlirLives
<1>2. ASSUME ~wrong
      PROVE  AwaitingAnswer'
  BY <1>2 DEF IInv, Types, Search, Probing, AwaitingAnswer, Idle, Owed, One, Deaf, Hears, Probe
<1> QED
  BY <1>1, <1>2 DEF IInv, Search, SetUpLast, Probe

LEMMA CameraAnswersKeeps == ASSUME IInv, CameraAnswers PROVE IInv'
<1>1. Types' /\ (~wrong' => ~wrong /\ chunks' \in {chunks, Append(chunks, "whole")})
  <2>1. wire > 0 /\ wire' = wire - 1 /\ chunks \in Seq({"whole", "head", "tail"}) /\ wire \in Nat
    BY DEF IInv, Types, CameraAnswers
  <2>2. /\ Append(chunks, "whole") \in Seq({"whole", "head", "tail"})
        /\ chunks \o <<"head", "tail">> \in Seq({"whole", "head", "tail"})
        /\ chunks \o <<"tail">> \in Seq({"whole", "head", "tail"})
    BY <2>1
  <2>3. \/ chunks' = Append(chunks, "whole") /\ wrong' = wrong
        \/ chunks' = chunks \o (IF Hears THEN <<"head", "tail">> ELSE <<"tail">>) /\ wrong' = TRUE
        \/ chunks' = chunks /\ wrong' = wrong
    BY DEF CameraAnswers
  <2>4. chunks' \in Seq({"whole", "head", "tail"}) /\ wrong' \in BOOLEAN
    BY <2>1, <2>2, <2>3 DEF IInv, Types
  <2>5. wire' \in Nat
    BY <2>1
  <2>6. Types'
    BY <2>4, <2>5 DEF IInv, Types, CameraAnswers
  <2> QED
    BY <2>3, <2>6
<1>2. ASSUME ~wrong'
      PROVE  \/ Hears /\ chunks' = Append(chunks, "whole")
             \/ ~Hears /\ chunks' = chunks
  BY <1>2 DEF IInv, Types, CameraAnswers
<1>3. /\ pc' = pc /\ wire > 0 /\ wire' = wire - 1
      /\ UNCHANGED <<rate, second, answered, cam, heard, found, setup>>
  BY DEF CameraAnswers
<1>4. ASSUME ~wrong'
      PROVE  /\ pc = "probe" => Probing'
             /\ pc = "wait" => AwaitingAnswer'
             /\ pc = "found" => Over'
             /\ \A i \in DOMAIN chunks' : chunks'[i] = "whole"
  <2>1. ~wrong /\ chunks \in Seq({"whole", "head", "tail"})
    BY <1>1, <1>4 DEF IInv, Types
  <2>2. CASE Hears /\ chunks' = Append(chunks, "whole")
    <3>1. chunks' # <<>> /\ Len(chunks') = Len(chunks) + 1 /\ (chunks = <<>> => Len(chunks') = 1)
      BY <2>1, <2>2
    <3>2. \A i \in DOMAIN chunks' : chunks'[i] = "whole"
      BY <2>1, <2>2 DEF IInv, Search
    <3>3. pc = "probe" => Probing'
      BY <1>3, <2>1, <2>2, <3>1 DEF IInv, Types, Search, Probing, Idle, Owed, Deaf, Hears
    <3>4. pc = "wait" => AwaitingAnswer'
      BY <1>3, <2>1, <2>2, <3>1 DEF IInv, Types, Search, AwaitingAnswer, Idle, Owed, One, Deaf, Hears
    <3>5. pc = "found" => Over'
      BY <1>3, <2>1, <2>2 DEF IInv, Types, Search, Over, Hears
    <3> QED
      BY <3>2, <3>3, <3>4, <3>5
  <2>3. CASE ~Hears /\ chunks' = chunks
    BY <1>3, <2>1, <2>3 DEF IInv, Types, Search, Probing, AwaitingAnswer, Over, Idle, Owed, One, Deaf, Hears
  <2> QED
    BY <1>2, <1>4, <2>2, <2>3
<1> QED
  BY <1>1, <1>3, <1>4 DEF IInv, Search, SetUpLast

LEMMA ReadChunkKeeps == ASSUME IInv, ReadChunk PROVE IInv'
<1>1. chunks \in Seq({"whole", "head", "tail"}) /\ chunks # <<>>
  BY DEF IInv, Types, ReadChunk
<1>2. /\ Tail(chunks) \in Seq({"whole", "head", "tail"}) /\ Len(Tail(chunks)) = Len(chunks) - 1
      /\ 1 \in DOMAIN chunks /\ Head(chunks) = chunks[1]
      /\ \A i \in DOMAIN Tail(chunks) : i + 1 \in DOMAIN chunks /\ Tail(chunks)[i] = chunks[i + 1]
  BY <1>1
<1>3. chunks' = Tail(chunks) /\ answered' \in BOOLEAN /\ first' \in BOOLEAN
  BY DEF ReadChunk
<1>4. Types'
  BY <1>2, <1>3 DEF IInv, Types, ReadChunk
<1>5. ASSUME ~wrong
      PROVE  /\ answered'
             /\ \A i \in DOMAIN chunks' : chunks'[i] = "whole"
  BY <1>2, <1>3, <1>5 DEF IInv, Search, ReadChunk
<1>6. Len(chunks) = 1 => Tail(chunks) = <<>>
  BY <1>2, EmptySeq
<1>7. ASSUME ~wrong
      PROVE  /\ pc = "probe" => Probing'
             /\ pc = "wait" => AwaitingAnswer'
             /\ pc = "found" => Over'
  BY <1>1, <1>3, <1>5, <1>6, <1>7
     DEF IInv, Types, Search, Probing, AwaitingAnswer, Over, Idle, Owed, One, Deaf, Hears, ReadChunk
<1> QED
  BY <1>4, <1>5, <1>7 DEF IInv, Search, SetUpLast, ReadChunk

LEMMA ReadFailsKeeps == ASSUME IInv, ReadFails PROVE IInv'
BY DEF IInv, Types, Search, SetUpLast, ReadFails

LEMMA WaitKeeps == ASSUME IInv, Wait PROVE IInv'
<1>1. Types'
  <2>1. rate \in 1 .. NRates /\ tries \in Nat
    BY DEF IInv, Types
  <2>2. ASSUME NextRate
        PROVE  /\ pc' \in {"probe", "found"} /\ rate' \in 1 .. NRates /\ tries' \in Nat
               /\ found' = found \/ found' = 0
    BY <2>1, <2>2, Rates DEF NextRate, Return
  <2>3. ASSUME Return(rate)
        PROVE  pc' = "found" /\ rate' = rate /\ tries' = tries /\ found' = rate
    BY <2>3 DEF Return
  <2>4. /\ pc' \in {"probe", "found"} /\ rate' \in 1 .. NRates /\ tries' \in Nat
        /\ found' \in {found, 0, rate}
    BY <2>1, <2>2, <2>3 DEF Wait
  <2>5. wrong' = wrong \/ wrong' = TRUE
    BY DEF Wait
  <2> QED
    BY <2>1, <2>4, <2>5, Rates DEF IInv, Types, Wait, FlirLives
<1>2. /\ UNCHANGED <<second, answered, wire, chunks, cam, heard, setup>>
      /\ ~wrong' => ~wrong
  BY DEF Wait, IInv, Types
<1>3. ASSUME ~wrong', answered
      PROVE  pc' = "found" /\ Over'
  <2>1. pc' = "found" /\ found' = rate /\ rate' = rate /\ pc = "wait"
    BY <1>3 DEF Wait, Return
  <2>2. heard /\ Hears /\ (second \/ (wire = 0 /\ chunks = <<>>))
    BY <1>2, <1>3, <2>1 DEF IInv, Search, AwaitingAnswer, Idle, Owed, One, Deaf
  <2> QED
    BY <1>2, <2>1, <2>2 DEF Over, Hears
<1>4. ASSUME ~wrong', ~answered
      PROVE  (pc' = "probe" => Probing') /\ (pc' = "wait" => AwaitingAnswer') /\ (pc' = "found" => Over')
  <2>1. NextRate /\ wire = 0 /\ chunks = <<>> /\ pc = "wait"
    BY <1>4 DEF Wait
  <2>2. ~heard /\ Idle
    BY <1>2, <1>4, <2>1 DEF IInv, Search, AwaitingAnswer, Idle, Owed, One, Deaf
  <2>3. pc' = "probe" \/ (pc' = "found" /\ found' = 0)
    BY <2>1 DEF NextRate, Return
  <2> QED
    BY <1>2, <2>2, <2>3 DEF Probing, Over, Idle
<1> QED
  BY <1>1, <1>2, <1>3, <1>4 DEF IInv, Search, SetUpLast, Wait

LEMMA FoundKeeps == ASSUME IInv, Found PROVE IInv'
<1>1. Types'
  <2>1. cam' = SetRate \/ cam' = cam
    BY DEF Found
  <2>2. SetRate \in [on : BOOLEAN, rate : 1 .. NRates, obeys : BOOLEAN]
    BY Rates DEF IInv, Types, SetRate
  <2>3. /\ pc' \in {"probe", "close"} /\ rate' \in {rate, 1} /\ second' \in {second, TRUE}
        /\ answered' \in {answered, FALSE} /\ heard' \in {heard, FALSE} /\ found' = found
        /\ setup' \in {setup, TRUE, FALSE} /\ UNCHANGED <<tries, first, chunks, wrong>>
    BY DEF Found, SearchAgain
  <2>4. wire' \in {wire, wire + 1}
    BY DEF Found
  <2>5. wire' \in Nat
    BY <2>4 DEF IInv, Types
  <2> QED
    BY <2>1, <2>2, <2>3, <2>5, Rates DEF IInv, Types, FlirLives
<1>2. CASE found > 1 /\ ~second
  <2>1. /\ pc = "found" /\ pc' = "probe" /\ second' /\ rate' = 1 /\ ~heard' /\ ~answered' /\ cam' = SetRate
        /\ wire' = (IF Hears THEN wire + 1 ELSE wire)
        /\ UNCHANGED <<chunks, wrong, setup>>
    BY <1>2 DEF Found, SearchAgain, IInv, Types
  <2>2. ~setup
    BY <2>1 DEF IInv, SetUpLast
  <2>3. ASSUME ~wrong
        PROVE  Probing'
    <3>1. found = rate /\ Hears /\ wire = 0 /\ chunks = <<>>
      BY <1>2, <2>1, <2>3 DEF IInv, Types, Search, Over
    <3>2. CASE cam.obeys
      BY <2>1, <3>1, <3>2 DEF IInv, Types, SetRate, Hears, Probing, Owed
    <3>3. CASE ~cam.obeys
      BY <1>2, <2>1, <3>1, <3>3 DEF IInv, Types, SetRate, Hears, Probing, Deaf
    <3> QED
      BY <3>2, <3>3
  <2> QED
    BY <1>1, <2>1, <2>2, <2>3 DEF IInv, Search, SetUpLast
<1>3. CASE ~(found > 1 /\ ~second)
  <2>1. /\ pc = "found" /\ pc' = "close" /\ setup' = (found = 1)
        /\ UNCHANGED <<cam, rate, chunks, wrong>>
    BY <1>3 DEF Found
  <2>2. ASSUME ~wrong, setup'
        PROVE  cam.on /\ cam.rate = 1
    <3>1. found = 1 /\ Over
      BY <2>1, <2>2 DEF IInv, Search
    <3> QED
      BY <3>1 DEF Over, Hears
  <2> QED
    BY <1>1, <2>1, <2>2 DEF IInv, Search, SetUpLast
<1> QED
  BY <1>2, <1>3

LEMMA OpenControlKeeps == ASSUME IInv, OpenControl PROVE IInv'
<1>1. Types'
  <2>1. 1 \in 1 .. NRates /\ 0 \in 0 .. NRates
    BY Rates
  <2>2. /\ pc' = "opening" /\ rate' = 1 /\ tries' = 0 /\ second' = FALSE /\ answered' = FALSE /\ first' = FALSE
        /\ wire' = 0 /\ chunks' = <<>> /\ heard' = FALSE /\ wrong' = FALSE
        /\ found' = 0 /\ setup' = FALSE
        /\ cam' = [on |-> FALSE, rate |-> 1, obeys |-> FALSE]
    BY DEF OpenControl
  <2>3. cam' \in [on : BOOLEAN, rate : 1 .. NRates, obeys : BOOLEAN]
    BY <2>1, <2>2
  <2> QED
    BY <2>1, <2>2, <2>3, NoChunks DEF Types, Listens
<1> QED
  BY <1>1 DEF IInv, Search, SetUpLast, OpenControl

(* What the control port does leaves the search alone. *)
LEMMA ControlKeeps ==
  ASSUME IInv, UNCHANGED flir,
         pc' \in {pc, "dead"} \/ (pc \in {"opening", "opened"} /\ pc' \in {"opened", "control"})
  PROVE  IInv'
BY DEF Listens, IInv, Types, Search, SetUpLast, Probing, AwaitingAnswer, Over, Idle, Owed, One, Deaf, Hears, flir

(* What the search hears, and what is on its way to it. *)
THEOREM Invariant == Spec => []IInv
<1>1. ASSUME IInv, [Next]_vars
      PROVE  IInv'
  <2>1. CASE Main
    <3>1. Construct \/ send_status => UNCHANGED flir /\ pc \in {"opening", "opened"} /\ pc' \in {"opened", "control"}
      BY DEF Construct, send_status
    <3> QED
      BY <1>1, <2>1, <3>1, ProbeKeeps, WaitKeeps, FoundKeeps, OpenControlKeeps, ControlKeeps DEF Main
  <2>2. CASE Io
    <3>1. Receive => UNCHANGED flir /\ pc' = pc
      BY DEF Receive
    <3> QED
      BY <1>1, <2>2, <3>1, ReadChunkKeeps, ControlKeeps DEF Io
  <2>3. CASE CameraStarts \/ CameraAnswers \/ ReadFails
    BY <1>1, <2>3, CameraStartsKeeps, CameraAnswersKeeps, ReadFailsKeeps
  <2>4. CASE PortFails \/ ReaderStops \/ Ask \/ Damage
    <3>1. UNCHANGED flir /\ pc' \in {pc, "dead"}
      BY <2>4 DEF PortFails, ReaderStops, Ask, Damage
    <3> QED
      BY <1>1, <3>1, ControlKeeps
  <2>5. CASE UNCHANGED vars
    BY <1>1, <2>5, ControlKeeps DEF vars
  <2> QED
    BY <1>1, <2>1, <2>2, <2>3, <2>4, <2>5 DEF Next
<1> QED
  BY <1>1, InitIInv, PTL DEF Spec

(* The camera is found exactly if it understood a probe of this search,    *)
(* and gets its modes only at its rate, unless an answer is late, in two   *)
(* pieces or garbled, or a read failed: for any number of rates, also if   *)
(* it starts late or does not take the rate it is given.                   *)
THEOREM FoundIfHeard == Spec => []CameraFound
<1>1. IInv => CameraFound
  <2> SUFFICES ASSUME IInv PROVE CameraFound
    OBVIOUS
  <2>1. ASSUME pc = "found", ~wrong
        PROVE  found # 0 <=> heard
    <3>1. Over /\ rate # 0
      BY <2>1 DEF IInv, Types, Search
    <3> QED
      BY <3>1 DEF Over
  <2> QED
    BY <2>1 DEF IInv, Search, CameraFound
<1> QED
  BY <1>1, Invariant, PTL
-----------------------------------------------------------------------------
(* Every set of natural numbers has a least one. *)
Less == {ss \in Nat \X Nat : ss[1] < ss[2]}

LEMMA Least == ASSUME NEW T \in SUBSET Nat, T # {} PROVE \E x \in T : \A y \in T : x <= y
<1>1. IsWellFoundedOn(Less, Nat)
  BY NatLessThanWellFounded, Zenon DEF OpToRel, Less
<1>2. T \subseteq Nat
  OBVIOUS
<1>3. PICK x \in T : \A y \in T : ~(<<y, x>> \in Less)
  BY ONLY <1>1, <1>2, WFMin, T # {}, Zenon
<1>4. ASSUME NEW y \in T PROVE x <= y
  <2>1. x \in Nat /\ y \in Nat /\ ~(<<y, x>> \in Less)
    BY <1>3
  <2> QED
    BY <2>1 DEF Less
<1> QED
  BY <1>4

(* A shortest stream that is in T. *)
Byte   == 0 .. 255
Stream == Seq(Byte)

LEMMA Shortest == ASSUME NEW T \in SUBSET Stream, T # {}
                  PROVE  \E b \in T : \A c \in T : Len(b) <= Len(c)
<1> DEFINE L == {Len(b) : b \in T}
<1>1. L \in SUBSET Nat /\ L # {}
  BY LenProperties DEF Stream
<1>2. PICK x \in L : \A y \in L : x <= y
  BY <1>1, Least
<1>3. PICK b \in T : x = Len(b)
  BY <1>2
<1> QED
  BY <1>2, <1>3
-----------------------------------------------------------------------------
(* parse(): its loop ends, because each packet is a piece of what is left. *)
Pkt    == [dst : Nat, src : Nat, cmd : Nat, data : Stream, valid : BOOLEAN]
Result == [rest : Stream, packets : Seq(Pkt), overrun : BOOLEAN]

Size(b)   == full_len(b[3])
Behind(b) == SubSeq(b, Size(b) + 1, Len(b))

LEMMA ByteIs == ASSUME NEW b \in Stream, NEW i \in Nat, 1 <= i, i <= Len(b)
                PROVE  b[i] \in Nat /\ b[i] <= 255
<1>1. b \in Seq(Byte) /\ i \in 1 .. Len(b)
  BY LenProperties DEF Stream
<1>2. b[i] \in Byte
  BY ONLY <1>1, ElementOfSeq
<1>3. \A k \in Byte : k \in Nat /\ k <= 255
  BY DEF Byte
<1> QED
  BY ONLY <1>2, <1>3, Zenon

LEMMA SizeIs == ASSUME NEW b \in Stream, Len(b) > 2
                PROVE  Size(b) \in Nat /\ Size(b) >= 4
<1>1. b[3] \in Nat
  <2>1. 3 \in Nat /\ 1 <= 3 /\ 3 <= Len(b)
    BY LenProperties DEF Stream
  <2> QED
    BY <2>1, ByteIs
<1>2. PICK k \in Nat : k = b[3]
  BY <1>1
<1>3. full_len(k) \in Nat /\ full_len(k) >= 4
  BY DEF full_len
<1> QED
  BY <1>2, <1>3 DEF Size

LEMMA BehindIs ==
  ASSUME NEW b \in Stream, Complete(b)
  PROVE  /\ Size(b) \in 4 .. Len(b) /\ Len(b) \in Nat
         /\ Behind(b) \in Stream /\ Len(Behind(b)) = Len(b) - Size(b)
         /\ \A i \in 1 .. Len(b) - Size(b) : Behind(b)[i] = b[Size(b) + i]
<1>1. Size(b) \in 4 .. Len(b) /\ Len(b) \in Nat
  BY SizeIs DEF Complete, Size, Stream
<1>2. PICK n \in 4 .. Len(b) : n = Size(b)
  BY <1>1
<1>3. CASE n = Len(b)
  <2>1. Behind(b) = <<>>
    BY <1>1, <1>2, <1>3, SubSeqEmpty DEF Behind, Stream
  <2> QED
    BY <1>1, <1>2, <1>3, <2>1 DEF Stream
<1>4. CASE n < Len(b)
  <2>1. n + 1 \in 1 .. Len(b) + 1 /\ Len(b) \in n + 1 - 1 .. Len(b)
    BY <1>1, <1>4
  <2> QED
    BY <1>1, <1>2, <1>4, <2>1, SubSeqProperties DEF Behind, Stream
<1> QED
  BY <1>1, <1>3, <1>4

Step(g, b) ==
  IF ~Complete(b) THEN [rest |-> b, packets |-> <<>>, overrun |-> FALSE]
  ELSE LET n == full_len(b[3])
           r == g[SubSeq(b, n + 1, Len(b))]
       IN  [r EXCEPT !.packets = <<FirstPacket(b)>> \o @, !.overrun = @ \/ n > PacketSize]

LEMMA StepAgrees == ASSUME NEW b \in Stream, NEW g, NEW h, Complete(b) => g[Behind(b)] = h[Behind(b)]
                    PROVE  Step(g, b) = Step(h, b)
BY DEF Step, Behind, Size

UpTo(g, n) == g = [b \in Stream |-> g[b]] /\ \A b \in Stream : Len(b) <= n => g[b] = Step(g, b)

LEMMA OneUpTo ==
  ASSUME NEW n \in Nat, NEW m \in Nat, NEW g, NEW h, UpTo(g, n), UpTo(h, m),
         NEW b \in Stream, Len(b) <= n, Len(b) <= m
  PROVE  g[b] = h[b]
<1> DEFINE T == {c \in Stream : Len(c) <= n /\ Len(c) <= m /\ g[c] # h[c]}
<1>1. SUFFICES ASSUME T # {} PROVE FALSE
  OBVIOUS
<1>2. T \in SUBSET Stream
  OBVIOUS
<1>3. PICK x \in T : \A y \in T : Len(x) <= Len(y)
  BY <1>1, <1>2, Shortest
<1>4. x \in Stream /\ Len(x) <= n /\ Len(x) <= m /\ g[x] # h[x] /\ g[x] = Step(g, x) /\ h[x] = Step(h, x)
  BY <1>3 DEF UpTo
<1>5. ASSUME Complete(x) PROVE g[Behind(x)] = h[Behind(x)]
  <2>1. Behind(x) \in Stream /\ Len(Behind(x)) \in Nat /\ Len(x) \in Nat /\ Len(Behind(x)) < Len(x)
    BY <1>4, <1>5, BehindIs
  <2> QED
    BY <1>3, <1>4, <2>1
<1> HIDE DEF T
<1> QED
  BY <1>4, <1>5, StepAgrees

LEMMA AnyUpTo == ASSUME NEW n \in Nat PROVE \E g : UpTo(g, n)
<1> DEFINE T == {x \in Nat : ~\E g : UpTo(g, x)}
<1>1. SUFFICES ASSUME T # {} PROVE FALSE
  OBVIOUS
<1>2. T \in SUBSET Nat
  OBVIOUS
<1>3. PICK x \in T : \A y \in T : x <= y
  BY <1>1, <1>2, Least
<1>4. x \in Nat /\ ~\E g : UpTo(g, x)
  BY <1>3
<1>5. \E g : g = [b \in Stream |-> g[b]] /\ \A b \in Stream : Len(b) < x => g[b] = Step(g, b)
  <2>1. CASE x = 0
    <3>1. \A b \in Stream : ~(Len(b) < x)
      BY <2>1, LenProperties DEF Stream
    <3>2. [b \in Stream |-> b] = [b \in Stream |-> [c \in Stream |-> c][b]]
      OBVIOUS
    <3> QED
      BY <3>1, <3>2
  <2>2. CASE x > 0
    <3>1. x - 1 \in Nat /\ ~(x <= x - 1)
      BY <1>4, <2>2
    <3>2. PICK g : UpTo(g, x - 1)
      BY <1>3, <3>1
    <3>3. \A b \in Stream : Len(b) < x => Len(b) <= x - 1
      BY <1>4, LenProperties DEF Stream
    <3> QED
      BY <3>2, <3>3 DEF UpTo
  <2> QED
    BY <1>4, <2>1, <2>2
<1>6. PICK g : g = [b \in Stream |-> g[b]] /\ \A b \in Stream : Len(b) < x => g[b] = Step(g, b)
  BY <1>5
<1> DEFINE h == [b \in Stream |-> IF Len(b) < x THEN g[b] ELSE Step(g, b)]
<1>7. ASSUME NEW b \in Stream, Len(b) <= x PROVE h[b] = Step(h, b)
  <2>1. h[b] = Step(g, b)
    BY <1>4, <1>6, <1>7
  <2>2. ASSUME Complete(b) PROVE h[Behind(b)] = g[Behind(b)]
    <3>1. Behind(b) \in Stream /\ Len(Behind(b)) < x
      BY <1>4, <1>7, <2>2, BehindIs
    <3> QED
      BY <3>1
  <2> HIDE DEF h
  <2>3. Step(g, b) = Step(h, b)
    BY <2>2, StepAgrees
  <2> QED
    BY <2>1, <2>3
<1>8. h = [b \in Stream |-> h[b]]
  OBVIOUS
<1> HIDE DEF h
<1>9. UpTo(h, x)
  BY <1>7, <1>8 DEF UpTo
<1> QED
  BY <1>4, <1>9

LEMMA ParseIs == \E f : /\ \A b \in Stream : f[b] = Step(f, b)
                       /\ \A b \in Stream : Parse(b) = f[b]
<1> DEFINE At(n) == CHOOSE g : UpTo(g, n)
           F == [b \in Stream |-> At(Len(b))[b]]
           P == CHOOSE f : f = [b \in Stream |-> Step(f, b)]
<1>1. ASSUME NEW n \in Nat PROVE UpTo(At(n), n)
  BY AnyUpTo
<1> HIDE DEF At
<1>2. ASSUME NEW b \in Stream PROVE F[b] = Step(F, b)
  <2>1. Len(b) \in Nat
    BY LenProperties DEF Stream
  <2>2. F[b] = Step(At(Len(b)), b)
    BY <1>1, <2>1 DEF UpTo
  <2>3. ASSUME Complete(b) PROVE At(Len(b))[Behind(b)] = F[Behind(b)]
    <3>1. Behind(b) \in Stream /\ Len(Behind(b)) \in Nat /\ Len(Behind(b)) <= Len(b)
      BY <2>1, <2>3, BehindIs
    <3>2. At(Len(b))[Behind(b)] = At(Len(Behind(b)))[Behind(b)]
      BY <1>1, <2>1, <3>1, OneUpTo
    <3> QED
      BY <3>1, <3>2
  <2> HIDE DEF F
  <2> QED
    BY <2>2, <2>3, StepAgrees
<1>3. F = [b \in Stream |-> F[b]]
  OBVIOUS
<1> HIDE DEF F
<1>4. F = [b \in Stream |-> Step(F, b)]
  BY <1>2, <1>3
<1>5. P = [b \in Stream |-> Step(P, b)]
  BY ONLY <1>4, Zenon
<1>6. \A b \in Stream : Parse(b) = P[b]
  BY Zenon DEF Parse, Stream, Byte, Step
<1> HIDE DEF P
<1>7. \A b \in Stream : P[b] = Step(P, b)
  BY ONLY <1>5, Zenon
<1> QED
  BY <1>6, <1>7

(* The packet at the front: its fields have their types.                   *)
LEMMA FirstIs == ASSUME NEW b \in Stream, Complete(b) PROVE FirstPacket(b) \in Pkt
<1>1. PICK n \in 4 .. Len(b) : n = full_len(b[3])
  BY BehindIs DEF Size
<1>2. b[1] \in Nat /\ b[2] \in Nat /\ b[3] \in Nat /\ b \in Seq(Byte) /\ Len(b) \in Nat
  <2>1. Len(b) \in Nat /\ b \in Seq(Byte)
    BY LenProperties DEF Stream
  <2>2. 1 <= Len(b) /\ 2 <= Len(b) /\ 3 <= Len(b)
    BY <1>1, <2>1
  <2> QED
    BY <2>1, <2>2, ByteIs
<1>3. ASSUME n # 4 PROVE SubSeq(b, 5, n - 1) \in Seq(Byte)
  <2>1. PICK k \in Nat : k = b[3]
    BY <1>2
  <2>2. n >= 6 /\ n \in Nat
    BY <1>1, <1>3, <2>1 DEF full_len
  <2>3. 5 \in 1 .. Len(b) + 1 /\ n - 1 \in 5 - 1 .. Len(b)
    BY <1>1, <1>2, <2>2
  <2> QED
    BY ONLY <1>2, <2>3, SubSeqProperties
<1>4. (IF n = 4 THEN <<>> ELSE SubSeq(b, 5, n - 1)) \in Stream
  BY <1>3 DEF Stream
<1>5. b[1] % 16 \in Nat /\ b[1] \div 16 \in Nat /\ b[2] % 32 \in Nat
  <2>1. ASSUME NEW k \in Nat PROVE k % 16 \in Nat /\ k \div 16 \in Nat /\ k % 32 \in Nat
    OBVIOUS
  <2> QED
    BY ONLY <1>2, <2>1
<1> DEFINE data == IF n = 4 THEN <<>> ELSE SubSeq(b, 5, n - 1)
           ok == b[4] = crc(SubSeq(b, 1, 3), CRC_OFFSET)
                   /\ (n = 4 \/ b[n] = crc(SubSeq(b, 5, n - 1), crc(SubSeq(b, 1, 3), CRC_OFFSET)))
<1>6. FirstPacket(b) = [dst |-> b[1] % 16, src |-> b[1] \div 16, cmd |-> b[2] % 32, data |-> data, valid |-> ok]
  BY <1>1, Zenon DEF FirstPacket
<1>7. ok \in BOOLEAN
  OBVIOUS
<1>8. data \in Stream
  BY <1>4
<1> HIDE DEF data, ok
<1>9. ASSUME NEW x \in Nat, NEW y \in Nat, NEW z \in Nat
      PROVE  [dst |-> x, src |-> y, cmd |-> z, data |-> data, valid |-> ok] \in Pkt
  BY ONLY <1>7, <1>8, <1>9 DEF Pkt
<1> QED
  BY <1>5, <1>6, <1>9

(* The equation of parse(), in its two cases, and its type. *)
LEMMA ParseNone == ASSUME NEW b \in Stream, ~Complete(b)
                   PROVE  Parse(b) = [rest |-> b, packets |-> <<>>, overrun |-> FALSE]
BY ParseIs DEF Step

LEMMA ParseType == \A b \in Stream : Parse(b) \in Result
<1> DEFINE T == {b \in Stream : Parse(b) \notin Result}
<1>1. SUFFICES ASSUME T # {} PROVE FALSE
  OBVIOUS
<1>2. T \in SUBSET Stream
  OBVIOUS
<1>3. PICK x \in T : \A y \in T : Len(x) <= Len(y)
  BY <1>1, <1>2, Shortest
<1>4. x \in Stream /\ Parse(x) \notin Result
  BY <1>3
<1>5. CASE ~Complete(x)
  <2>1. Parse(x) = [rest |-> x, packets |-> <<>>, overrun |-> FALSE] /\ <<>> \in Seq(Pkt)
    BY <1>4, <1>5, ParseNone
  <2> QED
    BY <1>4, <2>1 DEF Result
<1>6. CASE Complete(x)
  <2>1. Behind(x) \in Stream /\ ~(Len(x) <= Len(Behind(x)))
    BY <1>4, <1>6, BehindIs
  <2>2. PICK r : r = Parse(Behind(x)) /\ r \in Result
    BY <1>3, <2>1
  <2>3. Parse(x) = [r EXCEPT !.packets = <<FirstPacket(x)>> \o @, !.overrun = @ \/ Size(x) > PacketSize]
    BY <1>4, <1>6, <2>1, <2>2, ParseIs, ZenonT(30) DEF Step, Behind, Size
  <2>4. <<FirstPacket(x)>> \in Seq(Pkt)
    BY <1>4, <1>6, FirstIs
  <2>5. <<FirstPacket(x)>> \o r.packets \in Seq(Pkt)
    BY <2>2, <2>4, ConcatProperties DEF Result
  <2>6. (r.overrun \/ Size(x) > PacketSize) \in BOOLEAN
    OBVIOUS
  <2> QED
    BY <1>4, <2>2, <2>3, <2>5, <2>6 DEF Result
<1> QED
  BY <1>5, <1>6

LEMMA ParseNext ==
  ASSUME NEW b \in Stream, Complete(b)
  PROVE  /\ Parse(b).rest = Parse(Behind(b)).rest
         /\ Parse(b).packets = <<FirstPacket(b)>> \o Parse(Behind(b)).packets
         /\ Parse(b).overrun <=> Parse(Behind(b)).overrun \/ Size(b) > PacketSize
<1>1. Behind(b) \in Stream
  BY BehindIs
<1>2. PICK r : r = Parse(Behind(b)) /\ r \in Result
  BY <1>1, ParseType
<1>3. Parse(b) = [r EXCEPT !.packets = <<FirstPacket(b)>> \o @, !.overrun = @ \/ Size(b) > PacketSize]
  BY <1>1, <1>2, ParseIs DEF Step, Behind, Size
<1> QED
  BY <1>2, <1>3 DEF Result

(* More bytes behind a packet change nothing about it. *)
LEMMA Glued ==
  ASSUME NEW a \in Stream, NEW c \in Stream
  PROVE  /\ a \o c \in Stream /\ Len(a \o c) = Len(a) + Len(c)
         /\ \A i \in 1 .. Len(a) : (a \o c)[i] = a[i]
         /\ \A i \in 1 .. Len(c) : (a \o c)[Len(a) + i] = c[i]
         /\ Len(a) \in Nat /\ Len(c) \in Nat
<1>1. /\ a \in Seq(Byte) /\ c \in Seq(Byte) /\ Len(a) \in Nat /\ Len(c) \in Nat
  BY LenProperties DEF Stream
<1>2. /\ a \o c \in Seq(Byte) /\ Len(a \o c) = Len(a) + Len(c)
      /\ \A i \in 1 .. Len(a) + Len(c) : (a \o c)[i] = IF i <= Len(a) THEN a[i] ELSE c[i - Len(a)]
  BY ONLY <1>1, ConcatProperties
<1>3. \A i \in 1 .. Len(a) : i \in 1 .. Len(a) + Len(c) /\ i <= Len(a)
  BY <1>1
<1>4. \A i \in 1 .. Len(c) : Len(a) + i \in 1 .. Len(a) + Len(c) /\ ~(Len(a) + i <= Len(a)) /\ Len(a) + i - Len(a) = i
  BY <1>1
<1>5. \A i \in 1 .. Len(a) : (a \o c)[i] = a[i]
  BY ONLY <1>2, <1>3
<1>6. \A i \in 1 .. Len(c) : (a \o c)[Len(a) + i] = c[i]
  BY ONLY <1>2, <1>4
<1> QED
  BY <1>1, <1>2, <1>5, <1>6 DEF Stream

LEMMA BehindGlued ==
  ASSUME NEW a \in Stream, NEW c \in Stream, Complete(a)
  PROVE  /\ Complete(a \o c) /\ Size(a \o c) = Size(a) /\ FirstPacket(a \o c) = FirstPacket(a)
         /\ Behind(a \o c) = Behind(a) \o c
<1> DEFINE b == a \o c
<1>1. PICK n \in Nat : n = Size(a) /\ 4 <= n /\ n <= Len(a)
  BY BehindIs
<1>2. b \in Stream /\ Len(b) = Len(a) + Len(c) /\ (\A i \in 1 .. Len(a) : b[i] = a[i])
      /\ Len(a) \in Nat /\ Len(c) \in Nat /\ a \in Seq(Byte) /\ c \in Seq(Byte)
  BY Glued DEF Stream
<1>3. /\ 1 \in 1 .. Len(a) /\ 2 \in 1 .. Len(a) /\ 3 \in 1 .. Len(a) /\ 4 \in 1 .. Len(a) /\ n \in 1 .. Len(a)
  BY <1>1, <1>2
<1>4. b[1] = a[1] /\ b[2] = a[2] /\ b[3] = a[3] /\ b[4] = a[4] /\ b[n] = a[n]
  BY <1>2, <1>3
<1>5. Size(b) = n /\ Complete(b)
  <2>1. Size(b) = n
    BY <1>1, <1>4 DEF Size
  <2>2. Len(b) > 2 /\ Len(b) >= n
    BY <1>1, <1>2
  <2> QED
    BY <2>1, <2>2 DEF Complete, Size
<1>6. SubSeq(b, 1, 3) = SubSeq(a, 1, 3)
  BY <1>2, <1>3, SubSeqOfConcat1
<1>7. n # 4 => SubSeq(b, 5, n - 1) = SubSeq(a, 5, n - 1)
  <2>1. SUFFICES ASSUME n # 4 PROVE SubSeq(b, 5, n - 1) = SubSeq(a, 5, n - 1)
    OBVIOUS
  <2>2. 5 \in 1 .. Len(a) /\ n - 1 \in 1 .. Len(a)
    BY <1>1, <1>2, <2>1
  <2> QED
    BY ONLY <1>2, <2>2, SubSeqOfConcat1
<1> HIDE DEF b
<1>8. FirstPacket(b) = FirstPacket(a)
  <2>1. full_len(b[3]) = n /\ full_len(a[3]) = n
    BY <1>1, <1>5 DEF Size
  <2> DEFINE Ok(x) == x[4] = crc(SubSeq(x, 1, 3), CRC_OFFSET)
                        /\ (n = 4 \/ x[n] = crc(SubSeq(x, 5, n - 1), crc(SubSeq(x, 1, 3), CRC_OFFSET)))
             Data5(x) == IF n = 4 THEN <<>> ELSE SubSeq(x, 5, n - 1)
             Rec(x) == [dst |-> x[1] % 16, src |-> x[1] \div 16, cmd |-> x[2] % 32, data |-> Data5(x), valid |-> Ok(x)]
  <2>2. FirstPacket(b) = Rec(b) /\ FirstPacket(a) = Rec(a)
    BY <2>1, Zenon DEF FirstPacket
  <2>3. Ok(b) = Ok(a)
    <3>1. CASE n = 4
      BY <1>4, <1>6, <3>1, Zenon
    <3>2. CASE n # 4
      BY <1>4, <1>6, <1>7, <3>2, Zenon
    <3> QED
      BY <3>1, <3>2
  <2>4. Data5(b) = Data5(a)
    BY <1>7, Zenon
  <2> HIDE DEF Ok, Data5
  <2> QED
    BY <1>4, <2>2, <2>3, <2>4, Zenon
<1>9. Behind(b) = Behind(a) \o c
  <2>1. /\ Behind(b) \in Stream /\ Len(Behind(b)) = Len(b) - n
        /\ \A i \in 1 .. Len(b) - n : Behind(b)[i] = b[n + i]
    BY <1>2, <1>5, BehindIs
  <2>2. /\ Behind(a) \in Stream /\ Len(Behind(a)) = Len(a) - n
        /\ \A i \in 1 .. Len(a) - n : Behind(a)[i] = a[n + i]
    BY <1>1, BehindIs
  <2>3. PICK k \in Nat : k = Len(a) - n
    BY <1>1, <1>2
  <2>4. /\ Behind(a) \o c \in Stream /\ Len(Behind(a) \o c) = k + Len(c)
        /\ \A i \in 1 .. k : (Behind(a) \o c)[i] = Behind(a)[i]
        /\ \A i \in 1 .. Len(c) : (Behind(a) \o c)[k + i] = c[i]
    <3>1. Len(Behind(a)) = k
      BY <2>2, <2>3
    <3> QED
      BY ONLY <2>2, <3>1, Glued, c \in Stream
  <2>5. Len(b) - n = k + Len(c)
    BY <1>1, <1>2, <2>3
  <2>6. ASSUME NEW i \in 1 .. k + Len(c) PROVE Behind(b)[i] = (Behind(a) \o c)[i]
    <3>1. Behind(b)[i] = b[n + i]
      BY <2>1, <2>5
    <3>2. CASE i <= k
      <4>1. i \in 1 .. k /\ n + i \in 1 .. Len(a) /\ i \in 1 .. Len(a) - n
        BY <1>1, <1>2, <2>3, <3>2
      <4> QED
        BY <1>2, <2>2, <2>4, <3>1, <4>1
    <3>3. CASE ~(i <= k)
      <4>1. PICK j \in 1 .. Len(c) : i = k + j /\ n + i = Len(a) + j
        <5>1. i - k \in 1 .. Len(c) /\ i = k + (i - k) /\ n + i = Len(a) + (i - k)
          <6>1. i \in Nat /\ i <= k + Len(c) /\ Len(c) \in Nat /\ Len(a) \in Nat
            BY <1>2
          <6> QED
            BY ONLY <2>3, <3>3, <6>1, k \in Nat, n \in Nat
        <5> QED
          BY <5>1
      <4>2. b[Len(a) + j] = c[j]
        BY Glued DEF b
      <4> QED
        BY <2>4, <3>1, <4>1, <4>2
    <3> QED
      BY <3>2, <3>3
  <2>7. Behind(b) \in Seq(Byte) /\ Behind(a) \o c \in Seq(Byte) /\ Len(Behind(b)) = Len(Behind(a) \o c)
        /\ Len(Behind(b)) = k + Len(c)
    BY <2>1, <2>4, <2>5 DEF Stream
  <2> QED
    BY <2>6, <2>7, SeqEqual
<1> QED
  BY <1>1, <1>5, <1>8, <1>9 DEF b

(* What is found in a stream is what is found in a first part of it, and   *)
(* then in what is left of that with the rest of the stream.               *)
LEMMA ParseGlued ==
  \A a, c \in Stream :
    /\ Parse(a).rest \in Stream /\ Parse(a).rest \o c \in Stream
    /\ Parse(a \o c).rest = Parse(Parse(a).rest \o c).rest
    /\ Parse(a \o c).packets = Parse(a).packets \o Parse(Parse(a).rest \o c).packets
<1> SUFFICES ASSUME NEW c \in Stream
             PROVE  \A a \in Stream :
                      /\ Parse(a).rest \in Stream /\ Parse(a).rest \o c \in Stream
                      /\ Parse(a \o c).rest = Parse(Parse(a).rest \o c).rest
                      /\ Parse(a \o c).packets = Parse(a).packets \o Parse(Parse(a).rest \o c).packets
  OBVIOUS
<1>1. \A a \in Stream : Parse(a).rest \in Stream /\ Parse(a).packets \in Seq(Pkt) /\ Parse(a).rest \o c \in Stream
  BY ParseType, Glued DEF Result
<1> DEFINE Ok(a) == /\ Parse(a \o c).rest = Parse(Parse(a).rest \o c).rest
                    /\ Parse(a \o c).packets = Parse(a).packets \o Parse(Parse(a).rest \o c).packets
           T == {a \in Stream : ~Ok(a)}
<1>2. SUFFICES ASSUME T # {} PROVE FALSE
  BY <1>1
<1>3. T \in SUBSET Stream
  OBVIOUS
<1>4. PICK x \in T : \A y \in T : Len(x) <= Len(y)
  BY <1>2, <1>3, Shortest
<1>5. x \in Stream /\ ~Ok(x) /\ x \o c \in Stream
  BY <1>4, Glued
<1>6. CASE ~Complete(x)
  <2>1. Parse(x).rest = x /\ Parse(x).packets = <<>>
    BY <1>5, <1>6, ParseNone
  <2>2. <<>> \o Parse(x \o c).packets = Parse(x \o c).packets
    BY <1>1, <1>5, ConcatEmptySeq
  <2> QED
    BY <1>5, <2>1, <2>2
<1>7. CASE Complete(x)
  <2>1. Behind(x) \in Stream /\ ~(Len(x) <= Len(Behind(x)))
    BY <1>5, <1>7, BehindIs
  <2>2. Ok(Behind(x))
    BY <1>4, <2>1
  <2>3. Complete(x \o c) /\ FirstPacket(x \o c) = FirstPacket(x) /\ Behind(x \o c) = Behind(x) \o c
    BY <1>5, <1>7, BehindGlued
  <2>4. Parse(x \o c).rest = Parse(Behind(x) \o c).rest
        /\ Parse(x \o c).packets = <<FirstPacket(x)>> \o Parse(Behind(x) \o c).packets
    BY <1>5, <2>3, ParseNext
  <2>5. Parse(x).rest = Parse(Behind(x)).rest /\ Parse(x).packets = <<FirstPacket(x)>> \o Parse(Behind(x)).packets
    BY <1>5, <1>7, ParseNext
  <2> DEFINE one == <<FirstPacket(x)>>
             two == Parse(Behind(x)).packets
             three == Parse(Parse(Behind(x)).rest \o c).packets
  <2>6. one \in Seq(Pkt) /\ two \in Seq(Pkt) /\ three \in Seq(Pkt)
    BY <1>1, <1>5, <1>7, <2>1, FirstIs
  <2> HIDE DEF one, two, three
  <2>7. one \o (two \o three) = (one \o two) \o three
    BY ONLY <2>6, ConcatAssociative
  <2> USE DEF one, two, three
  <2> QED
    BY <1>5, <2>2, <2>4, <2>5, <2>7
<1> QED
  BY <1>5, <1>6, <1>7
-----------------------------------------------------------------------------
(* A stream of whole packets that fit into pkt_t: C is where they end.     *)
Ends(b, C) ==
  /\ 0 \in C /\ Len(b) \in C
  /\ \A c \in C : c < Len(b) =>
       c + 3 <= Len(b) /\ full_len(b[c + 3]) <= PacketSize /\ c + full_len(b[c + 3]) \in C
Framed(b) == \E C \in SUBSET (0 .. Len(b)) : Ends(b, C)

(* All the bytes of a packet that fits into pkt_t. *)
IsPacket(bytes) == /\ bytes \in Stream /\ Len(bytes) > 2
                   /\ Len(bytes) = full_len(bytes[3]) /\ Len(bytes) <= PacketSize

LEMMA FramedNone == Framed(<<>>)
<1>1. Len(<<>>) = 0 /\ 0 \in 0 .. 0
  OBVIOUS
<1>2. Ends(<<>>, {0})
  BY <1>1 DEF Ends
<1> QED
  BY <1>1, <1>2 DEF Framed

LEMMA FramedFront ==
  ASSUME NEW b \in Stream, Framed(b), b # <<>>
  PROVE  Complete(b) /\ Size(b) <= PacketSize /\ Framed(Behind(b))
<1>1. PICK C \in SUBSET (0 .. Len(b)) : Ends(b, C)
  BY DEF Framed
<1>2. Len(b) \in Nat /\ 0 < Len(b)
  BY LenProperties, EmptySeq DEF Stream
<1>3. 0 + 3 <= Len(b) /\ full_len(b[0 + 3]) <= PacketSize /\ 0 + full_len(b[0 + 3]) \in C
  BY <1>1, <1>2 DEF Ends
<1>4. 0 + 3 = 3
  OBVIOUS
<1>5. Len(b) > 2 /\ Size(b) <= PacketSize /\ 0 + Size(b) \in C
  BY <1>2, <1>3, <1>4 DEF Size
<1>6. PICK n \in Nat : n = Size(b) /\ n >= 4
  BY <1>5, SizeIs
<1>7. n \in C /\ n <= Len(b)
  BY <1>1, <1>2, <1>5, <1>6
<1>8. Complete(b)
  BY <1>2, <1>5, <1>6, <1>7 DEF Complete, Size
<1>9. PICK l \in Nat : l = Len(b) - n /\ Len(Behind(b)) = l /\ \A i \in 1 .. l : Behind(b)[i] = b[n + i]
  <2>1. PICK l \in Nat : l = Len(b) - n
    <3>1. Len(b) - n \in Nat
      BY <1>2, <1>7
    <3> QED
      BY <3>1
  <2>2. Len(Behind(b)) = Len(b) - Size(b) /\ \A i \in 1 .. Len(b) - Size(b) : Behind(b)[i] = b[Size(b) + i]
    BY <1>8, BehindIs
  <2>3. Len(Behind(b)) = l /\ \A i \in 1 .. l : Behind(b)[i] = b[n + i]
    BY ONLY <1>6, <2>1, <2>2, Zenon
  <2> QED
    BY <2>1, <2>3
<1> DEFINE D == {c \in 0 .. l : c + n \in C}
<1>10. D \in SUBSET (0 .. l) /\ 0 \in D /\ l \in D
  <2>1. 0 + n = n /\ l + n = Len(b) /\ Len(b) \in C
    BY <1>1, <1>2, <1>9 DEF Ends
  <2> QED
    BY <1>7, <2>1
<1>11. ASSUME NEW c \in D, c < l
       PROVE  c + 3 <= l /\ full_len(Behind(b)[c + 3]) <= PacketSize /\ c + full_len(Behind(b)[c + 3]) \in D
  <2>1. PICK d \in C : d = c + n /\ d < Len(b) /\ c \in Nat
    BY <1>2, <1>9, <1>11
  <2>2. d + 3 <= Len(b) /\ full_len(b[d + 3]) <= PacketSize /\ d + full_len(b[d + 3]) \in C
    BY <1>1, <2>1 DEF Ends
  <2>3. c + 3 \in 1 .. l /\ n + (c + 3) = d + 3
    BY <1>2, <1>9, <2>1, <2>2
  <2>4. Behind(b)[c + 3] = b[d + 3]
    BY <1>9, <2>3
  <2>5. PICK m \in Nat : m = full_len(b[d + 3])
    <3>1. d + 3 \in Nat /\ 1 <= d + 3
      BY <2>1
    <3>2. PICK k \in Nat : k = b[d + 3]
      BY <2>2, <3>1, ByteIs
    <3>3. full_len(k) \in Nat
      BY DEF full_len
    <3> QED
      BY <3>2, <3>3
  <2>6. c + m \in D
    <3>1. d + m \in 0 .. Len(b) /\ d + m \in C
      BY <1>1, <2>2, <2>5
    <3>2. c + m \in 0 .. l /\ (c + m) + n = d + m
      BY <1>2, <1>9, <2>1, <3>1
    <3> QED
      BY <3>1, <3>2
  <2> QED
    BY <2>2, <2>3, <2>4, <2>5, <2>6
<1> HIDE DEF D
<1>12. Ends(Behind(b), D)
  BY <1>9, <1>10, <1>11 DEF Ends
<1> QED
  BY <1>5, <1>8, <1>9, <1>10, <1>12 DEF Framed

LEMMA FramedGlued ==
  ASSUME NEW b \in Stream, Framed(b), NEW r, IsPacket(r)
  PROVE  r \in Stream /\ Framed(b \o r)
<1>1. r \in Stream /\ Len(r) > 2 /\ Len(r) = full_len(r[3]) /\ Len(r) <= PacketSize
  BY DEF IsPacket
<1>2. PICK C \in SUBSET (0 .. Len(b)) : Ends(b, C)
  BY DEF Framed
<1>3. /\ Len(b \o r) = Len(b) + Len(r) /\ Len(b) \in Nat /\ Len(r) \in Nat
      /\ \A i \in 1 .. Len(b) : (b \o r)[i] = b[i]
      /\ \A i \in 1 .. Len(r) : (b \o r)[Len(b) + i] = r[i]
  BY <1>1, Glued
<1> DEFINE D == C \union {Len(b) + Len(r)}
<1>4. D \in SUBSET (0 .. Len(b \o r)) /\ 0 \in D /\ Len(b \o r) \in D
  <2>1. PICK n \in Nat : n = Len(b \o r) /\ n = Len(b) + Len(r)
    BY <1>3
  <2>2. 0 .. Len(b) \subseteq 0 .. n /\ n \in 0 .. n
    BY <1>3, <2>1
  <2>3. 0 \in C
    BY <1>2 DEF Ends
  <2> QED
    BY ONLY <1>2, <2>1, <2>2, <2>3
<1>5. ASSUME NEW c \in D, c < Len(b \o r)
      PROVE  c + 3 <= Len(b \o r) /\ full_len((b \o r)[c + 3]) <= PacketSize /\ c + full_len((b \o r)[c + 3]) \in D
  <2>1. c \in C /\ c \in Nat /\ c <= Len(b)
    BY <1>2, <1>3, <1>5
  <2>2. CASE c < Len(b)
    <3>1. c + 3 <= Len(b) /\ full_len(b[c + 3]) <= PacketSize /\ c + full_len(b[c + 3]) \in C
      BY <1>2, <2>1, <2>2 DEF Ends
    <3>2. c + 3 \in 1 .. Len(b) /\ c + 3 <= Len(b \o r)
      BY <1>3, <2>1, <3>1
    <3> QED
      BY <1>3, <3>1, <3>2
  <2>3. CASE c = Len(b)
    <3>1. 3 \in 1 .. Len(r) /\ c + 3 <= Len(b \o r)
      BY <1>1, <1>3, <2>3
    <3>2. (b \o r)[c + 3] = r[3]
      BY <1>3, <2>3, <3>1
    <3> QED
      BY <1>1, <2>3, <3>1, <3>2
  <2> QED
    BY <1>3, <2>1, <2>2, <2>3
<1> HIDE DEF D
<1>6. Ends(b \o r, D)
  BY <1>4, <1>5 DEF Ends
<1> QED
  BY <1>1, <1>4, <1>6 DEF Framed

(* In step, parse() copies nothing over the end of a packet, and stays in step. *)
LEMMA ParseFramed ==
  \A a, c \in Stream : Framed(a \o c) => ~Parse(a).overrun /\ Framed(Parse(a).rest \o c)
<1> SUFFICES ASSUME NEW c \in Stream
             PROVE  \A a \in Stream : Framed(a \o c) => ~Parse(a).overrun /\ Framed(Parse(a).rest \o c)
  OBVIOUS
<1> DEFINE Ok(a) == Framed(a \o c) => ~Parse(a).overrun /\ Framed(Parse(a).rest \o c)
           T == {a \in Stream : ~Ok(a)}
<1>1. SUFFICES ASSUME T # {} PROVE FALSE
  OBVIOUS
<1>2. T \in SUBSET Stream
  OBVIOUS
<1>3. PICK x \in T : \A y \in T : Len(x) <= Len(y)
  BY <1>1, <1>2, Shortest
<1>4. x \in Stream /\ Framed(x \o c) /\ ~(~Parse(x).overrun /\ Framed(Parse(x).rest \o c))
  BY <1>3
<1>5. CASE ~Complete(x)
  BY <1>4, <1>5, ParseNone
<1>6. CASE Complete(x)
  <2>1. Behind(x) \in Stream /\ ~(Len(x) <= Len(Behind(x))) /\ Len(x) \in Nat /\ Len(x) >= 4
    BY <1>4, <1>6, BehindIs
  <2>2. x \o c \in Stream /\ x \o c # <<>>
    <3>1. x \o c \in Stream /\ Len(x \o c) = Len(x) + Len(c) /\ Len(c) \in Nat
      BY <1>4, Glued
    <3> QED
      BY <2>1, <3>1
  <2>3. Size(x \o c) <= PacketSize /\ Framed(Behind(x \o c))
    BY <1>4, <2>2, FramedFront
  <2>4. Size(x) <= PacketSize /\ Framed(Behind(x) \o c)
    BY <1>4, <1>6, <2>3, BehindGlued
  <2>5. Ok(Behind(x))
    BY <1>3, <2>1
  <2>6. Parse(x).rest = Parse(Behind(x)).rest
        /\ (Parse(x).overrun <=> Parse(Behind(x)).overrun \/ Size(x) > PacketSize)
    BY <1>4, <1>6, ParseNext
  <2>7. ~(Size(x) > PacketSize)
    <3>1. Size(x) \in Nat /\ PacketSize \in Int
      BY <1>4, <2>1, SizeIs, ControlPacketAssumption DEF PacketSize
    <3> QED
      BY <2>4, <3>1
  <2> HIDE DEF T
  <2> QED
    BY <1>4, <2>4, <2>5, <2>6, <2>7
<1> QED
  BY <1>5, <1>6

-----------------------------------------------------------------------------
(* What holds at 0, and from one number to the next, holds up to N. *)
LEMMA UpToN ==
  ASSUME NEW N \in Nat, NEW T \in SUBSET Nat, 0 \in T,
         ASSUME NEW n \in T, n < N PROVE n + 1 \in T
  PROVE  \A n \in 0 .. N : n \in T
<1> DEFINE U == {n \in Nat : n <= N /\ n \notin T}
<1>1. SUFFICES ASSUME U # {} PROVE FALSE
  OBVIOUS
<1>2. U \in SUBSET Nat
  OBVIOUS
<1>3. PICK x \in U : \A y \in U : x <= y
  BY <1>1, <1>2, Least
<1>4. x \in Nat /\ x <= N /\ x \notin T /\ x # 0
  BY <1>3
<1>5. x - 1 \in Nat /\ x - 1 < N /\ x - 1 + 1 = x /\ ~(x <= x - 1)
  BY <1>4
<1>6. x - 1 \in T
  BY <1>3, <1>5
<1> QED
  BY <1>4, <1>5, <1>6

(* Ours() packet by packet. *)
OwnStep(f, ps, n) == IF n = 0 THEN <<>>
                     ELSE IF Accepted(ps[n]) THEN Append(f[n - 1], ps[n]) ELSE f[n - 1]

LEMMA OwnStepAgrees ==
  ASSUME NEW f, NEW g, NEW ps, NEW n, n # 0 => f[n - 1] = g[n - 1]
  PROVE  OwnStep(f, ps, n) = OwnStep(g, ps, n)
BY DEF OwnStep

LEMMA OursIs ==
  ASSUME NEW ps, Len(ps) \in Nat
  PROVE  \E f : /\ \A n \in 0 .. Len(ps) : f[n] = OwnStep(f, ps, n)
                /\ Ours(ps) = f[Len(ps)]
<1> DEFINE N == Len(ps)
           Good(f, m) == f = [n \in 0 .. N |-> f[n]] /\ \A n \in 0 .. N : n <= m => f[n] = OwnStep(f, ps, n)
           T == {m \in Nat : \E f : Good(f, m)}
           P == CHOOSE f : f = [n \in 0 .. N |-> OwnStep(f, ps, n)]
<1>1. N \in Nat /\ T \in SUBSET Nat
  OBVIOUS
<1>2. 0 \in T
  <2> DEFINE e == [n \in 0 .. N |-> <<>>]
  <2>1. e = [n \in 0 .. N |-> e[n]]
    OBVIOUS
  <2>2. ASSUME NEW n \in 0 .. N, n <= 0 PROVE e[n] = OwnStep(e, ps, n)
    BY <2>2 DEF OwnStep
  <2> HIDE DEF e
  <2> QED
    BY <2>1, <2>2
<1>3. ASSUME NEW m \in T, m < N PROVE m + 1 \in T
  <2>1. PICK f : Good(f, m)
    BY <1>3
  <2> DEFINE h == [n \in 0 .. N |-> IF n <= m THEN f[n] ELSE OwnStep(f, ps, n)]
  <2>2. h = [n \in 0 .. N |-> h[n]]
    OBVIOUS
  <2>3. ASSUME NEW n \in 0 .. N, n <= m + 1 PROVE h[n] = OwnStep(h, ps, n)
    <3>1. h[n] = OwnStep(f, ps, n)
      BY <2>1
    <3>2. ASSUME n # 0 PROVE h[n - 1] = f[n - 1]
      <4>1. n - 1 \in 0 .. N /\ n - 1 <= m
        BY <1>1, <2>3, <3>2
      <4> QED
        BY <4>1
    <3> HIDE DEF h
    <3> QED
      BY <3>1, <3>2, OwnStepAgrees
  <2> HIDE DEF h
  <2>4. Good(h, m + 1) /\ m + 1 \in Nat
    BY <2>2, <2>3
  <2> QED
    BY <2>4
<1>4. N \in T
  <2>1. \A n \in 0 .. N : n \in T
    BY ONLY <1>1, <1>2, <1>3, UpToN
  <2>2. N \in 0 .. N
    BY <1>1
  <2> QED
    BY <2>1, <2>2
<1>5. PICK f : Good(f, N)
  BY <1>4
<1>6. f = [n \in 0 .. N |-> f[n]] /\ \A n \in 0 .. N : f[n] = OwnStep(f, ps, n)
  BY <1>1, <1>5
<1>7. f = [n \in 0 .. N |-> OwnStep(f, ps, n)]
  BY <1>6
<1>8. P = [n \in 0 .. N |-> OwnStep(P, ps, n)]
  BY ONLY <1>7, Zenon
<1>9. Ours(ps) = P[N]
  BY Zenon DEF Ours, OwnStep
<1> HIDE DEF P
<1>10. \A n \in 0 .. N : P[n] = OwnStep(P, ps, n)
  BY ONLY <1>8, Zenon
<1> QED
  BY <1>9, <1>10

LEMMA OwnStepIs ==
  ASSUME NEW ps \in Seq(Pkt), NEW f, f[0] = OwnStep(f, ps, 0),
         \A n \in 0 .. Len(ps) : f[n] = OwnStep(f, ps, n)
  PROVE  \A n \in 0 .. Len(ps) : f[n] \in Seq(Pkt)
<1> DEFINE T == {n \in Nat : n <= Len(ps) => f[n] \in Seq(Pkt)}
<1>1. Len(ps) \in Nat /\ T \in SUBSET Nat
  BY LenProperties
<1>2. 0 \in T
  <2>1. f[0] = <<>> /\ <<>> \in Seq(Pkt)
    BY DEF OwnStep
  <2> QED
    BY <2>1
<1>3. ASSUME NEW n \in T, n < Len(ps) PROVE n + 1 \in T
  <2>1. /\ n + 1 \in 0 .. Len(ps) /\ n + 1 # 0 /\ (n + 1) - 1 = n /\ n + 1 \in 1 .. Len(ps) /\ n + 1 \in Nat
        /\ f[n] \in Seq(Pkt)
    BY <1>1, <1>3
  <2>2. ps[n + 1] \in Pkt
    BY ONLY <2>1, ElementOfSeq, ps \in Seq(Pkt)
  <2>3. f[n + 1] = IF Accepted(ps[n + 1]) THEN Append(f[n], ps[n + 1]) ELSE f[n]
    BY <2>1 DEF OwnStep
  <2>4. Append(f[n], ps[n + 1]) \in Seq(Pkt)
    BY <2>1, <2>2, AppendProperties
  <2> QED
    BY <2>1, <2>3, <2>4
<1>4. \A n \in 0 .. Len(ps) : n \in T
  BY ONLY <1>1, <1>2, <1>3, UpToN
<1> QED
  BY <1>1, <1>4

LEMMA OursType == ASSUME NEW ps \in Seq(Pkt) PROVE Ours(ps) \in Seq(Pkt)
<1>1. Len(ps) \in Nat /\ 0 \in 0 .. Len(ps) /\ Len(ps) \in 0 .. Len(ps)
  BY LenProperties
<1>2. PICK f : (\A n \in 0 .. Len(ps) : f[n] = OwnStep(f, ps, n)) /\ Ours(ps) = f[Len(ps)]
  BY <1>1, OursIs
<1> QED
  BY <1>1, <1>2, OwnStepIs

LEMMA OursNone == Ours(<<>>) = <<>>
<1>1. Len(<<>>) = 0
  OBVIOUS
<1>2. PICK f : (\A n \in 0 .. Len(<<>>) : f[n] = OwnStep(f, <<>>, n)) /\ Ours(<<>>) = f[Len(<<>>)]
  BY <1>1, OursIs
<1> QED
  BY <1>1, <1>2 DEF OwnStep

(* What is for the board in two pieces of the packets. *)
LEMMA OursGlued ==
  ASSUME NEW ps \in Seq(Pkt), NEW qs \in Seq(Pkt)
  PROVE  Ours(ps \o qs) = Ours(ps) \o Ours(qs)
<1>1. Len(ps) \in Nat /\ Len(qs) \in Nat
  BY LenProperties
<1>2. PICK a \in Nat : a = Len(ps)
  BY <1>1
<1>3. PICK b \in Nat : b = Len(qs)
  BY <1>1
<1>4. PICK both : both = ps \o qs
  OBVIOUS
<1>5. both \in Seq(Pkt) /\ Len(both) = a + b
      /\ \A i \in 1 .. a + b : both[i] = IF i <= a THEN ps[i] ELSE qs[i - a]
  BY ONLY <1>2, <1>3, <1>4, ps \in Seq(Pkt), qs \in Seq(Pkt), ConcatProperties
<1>6. PICK f : (\A n \in 0 .. a + b : f[n] = OwnStep(f, both, n)) /\ Ours(both) = f[a + b]
  <2>1. a + b \in Nat /\ Len(both) = a + b
    BY <1>5
  <2> QED
    BY ONLY <2>1, OursIs
<1>7. PICK g : (\A n \in 0 .. a : g[n] = OwnStep(g, ps, n)) /\ Ours(ps) = g[a]
  BY <1>1, <1>2, OursIs
<1>8. PICK h : (\A n \in 0 .. b : h[n] = OwnStep(h, qs, n)) /\ Ours(qs) = h[b]
  BY <1>1, <1>3, OursIs
<1> DEFINE T == {n \in Nat : n <= a => f[n] = g[n]}
           U == {n \in Nat : n <= b => f[a + n] = g[a] \o h[n]}
<1>9. \A n \in 0 .. a : n \in T
  <2>1. 0 \in T /\ T \in SUBSET Nat
    <3>1. 0 \in 0 .. a + b /\ 0 \in 0 .. a
      OBVIOUS
    <3> QED
      BY <1>6, <1>7, <3>1 DEF OwnStep
  <2>2. ASSUME NEW n \in T, n < a PROVE n + 1 \in T
    <3>1. /\ n + 1 \in 0 .. a + b /\ n + 1 \in 0 .. a /\ n + 1 \in 1 .. a + b /\ n + 1 <= a
          /\ n + 1 # 0 /\ n + 1 - 1 = n /\ n + 1 \in Nat
      BY <2>2
    <3>2. both[n + 1] = ps[n + 1] /\ f[n] = g[n]
      BY <1>5, <2>2, <3>1
    <3>3. f[n + 1] = OwnStep(f, both, n + 1) /\ g[n + 1] = OwnStep(g, ps, n + 1)
      BY <1>6, <1>7, <3>1
    <3> QED
      BY <3>1, <3>2, <3>3 DEF OwnStep
  <2> HIDE DEF T
  <2> QED
    BY ONLY <2>1, <2>2, UpToN
<1>10. f[a] = g[a]
  BY <1>9
<1>11. (\A n \in 0 .. a : g[n] \in Seq(Pkt)) /\ (\A n \in 0 .. b : h[n] \in Seq(Pkt))
  <2>1. 0 \in 0 .. a /\ 0 \in 0 .. b
    OBVIOUS
  <2> QED
    BY <1>2, <1>3, <1>7, <1>8, <2>1, OwnStepIs
<1>12. PICK w \in Seq(Pkt) : w = g[a]
  BY <1>11
<1>13. \A n \in 0 .. b : n \in U
  <2>1. 0 \in U /\ U \in SUBSET Nat
    <3>1. h[0] = <<>>
      <4>1. 0 \in 0 .. b
        OBVIOUS
      <4>2. h[0] = OwnStep(h, qs, 0)
        BY <1>8, <4>1
      <4> QED
        BY ONLY <4>2 DEF OwnStep
    <3>2. w \o <<>> = w
      BY ConcatEmptySeq
    <3>3. a + 0 = a /\ 0 \in Nat
      OBVIOUS
    <3> QED
      BY <1>10, <1>12, <3>1, <3>2, <3>3
  <2>2. ASSUME NEW n \in U, n < b PROVE n + 1 \in U
    <3>1. /\ n + 1 \in 0 .. b /\ n \in 0 .. b /\ n + 1 \in 1 .. b /\ n + 1 # 0 /\ n + 1 - 1 = n /\ n + 1 \in Nat
      BY <2>2
    <3>2. /\ a + (n + 1) \in 0 .. a + b /\ a + (n + 1) \in 1 .. a + b /\ ~(a + (n + 1) <= a)
          /\ a + (n + 1) # 0 /\ a + (n + 1) - 1 = a + n /\ a + (n + 1) - a = n + 1
      BY <2>2
    <3>3. PICK e \in Pkt : e = qs[n + 1]
      BY <1>3, <3>1, ElementOfSeq
    <3>4. both[a + (n + 1)] = e
      BY <1>5, <3>2, <3>3
    <3>5. f[a + (n + 1)] = IF Accepted(e) THEN Append(f[a + n], e) ELSE f[a + n]
      BY <1>6, <3>2, <3>4 DEF OwnStep
    <3>6. h[n + 1] = IF Accepted(e) THEN Append(h[n], e) ELSE h[n]
      BY <1>8, <3>1, <3>3 DEF OwnStep
    <3>7. PICK v \in Seq(Pkt) : v = h[n]
      BY <1>11, <3>1
    <3>8. f[a + n] = w \o v
      <4>1. n <= b
        BY <2>2
      <4> QED
        BY <1>12, <3>7, <4>1
    <3>9. Append(w \o v, e) = w \o Append(v, e)
      <4>1. w \o v \in Seq(Pkt) /\ <<e>> \in Seq(Pkt)
        BY ConcatProperties
      <4>2. Append(w \o v, e) = (w \o v) \o <<e>> /\ Append(v, e) = v \o <<e>>
        BY <4>1, AppendIsConcat
      <4>3. (w \o v) \o <<e>> = w \o (v \o <<e>>)
        BY ONLY <4>1, ConcatAssociative, w \in Seq(Pkt), v \in Seq(Pkt)
      <4> QED
        BY ONLY <4>2, <4>3
    <3>10. f[a + (n + 1)] = w \o h[n + 1]
      BY ONLY <3>5, <3>6, <3>7, <3>8, <3>9, Zenon
    <3> QED
      BY <1>12, <3>1, <3>10
  <2> HIDE DEF U
  <2> QED
    BY ONLY <2>1, <2>2, UpToN, b \in Nat
<1>14. f[a + b] = g[a] \o h[b]
  <2>1. b \in 0 .. b /\ b <= b
    OBVIOUS
  <2> QED
    BY <1>13, <2>1
<1> QED
  BY <1>4, <1>6, <1>7, <1>8, <1>14
-----------------------------------------------------------------------------
(* The packets tt and what was sent: an answer to each of tt, with its      *)
(* command, to the device that asked.                                      *)
Fits(ans, p) == ans.dst = p.src /\ ans.cmd = AnswerTo(p.cmd)
Match(ss, tt) == /\ (\E A : ss \in Seq(A)) /\ tt \in Seq(Pkt)
                 /\ Len(ss) = Len(tt)
                 /\ \A i \in 1 .. Len(tt) : Fits(ss[i], tt[i])

LEMMA MatchNext ==
  ASSUME NEW ss, NEW tt, Match(ss, tt), NEW p \in Pkt, NEW ans, Fits(ans, p)
  PROVE  Match(Append(ss, ans), Append(tt, p))
<1>1. PICK A : ss \in Seq(A)
  BY DEF Match
<1>2. tt \in Seq(Pkt) /\ Len(ss) = Len(tt) /\ Len(tt) \in Nat
  BY LenProperties DEF Match
<1> DEFINE B == A \union {ans}
<1>3. ss \in Seq(B) /\ ans \in B
  <2>1. A \subseteq B /\ ans \in B
    OBVIOUS
  <2> QED
    BY ONLY <1>1, <2>1, SeqMonotonic
<1> HIDE DEF B
<1>4. /\ Append(ss, ans) \in Seq(B) /\ Len(Append(ss, ans)) = Len(ss) + 1
      /\ \A i \in 1 .. Len(ss) : Append(ss, ans)[i] = ss[i]
      /\ Append(ss, ans)[Len(ss) + 1] = ans
  BY ONLY <1>3, AppendProperties
<1>5. /\ Append(tt, p) \in Seq(Pkt) /\ Len(Append(tt, p)) = Len(tt) + 1
      /\ \A i \in 1 .. Len(tt) : Append(tt, p)[i] = tt[i]
      /\ Append(tt, p)[Len(tt) + 1] = p
  BY ONLY <1>2, p \in Pkt, AppendProperties
<1>6. ASSUME NEW i \in 1 .. Len(tt) + 1
      PROVE  Fits(Append(ss, ans)[i], Append(tt, p)[i])
  <2>1. CASE i = Len(tt) + 1
    <3>1. i = Len(ss) + 1
      BY <1>2, <2>1
    <3> QED
      BY <1>4, <1>5, <2>1, <3>1
  <2>2. CASE i # Len(tt) + 1
    <3>1. i \in 1 .. Len(tt) /\ i \in 1 .. Len(ss)
      BY <1>2, <2>2
    <3>2. Fits(ss[i], tt[i])
      BY <3>1 DEF Match
    <3> QED
      BY <1>4, <1>5, <3>1, <3>2
  <2> QED
    BY <2>1, <2>2
<1>7. Len(Append(ss, ans)) = Len(Append(tt, p))
  BY <1>2, <1>4, <1>5
<1> QED
  BY <1>4, <1>5, <1>6, <1>7 DEF Match

(* Whatever the command, the answer goes to the device that asked, with    *)
(* the command that answers.                                               *)
LEMMA AnswerFits == ASSUME NEW p \in Pkt, NEW st, NEW junk PROVE Fits(dispatch(p, st, junk).ans, p)
<1>1. p.cmd \in Nat
  BY DEF Pkt
<1>2. \E y, z : dispatch(p, st, junk).ans = Reply(p, AnswerTo(p.cmd), y, z)
  BY <1>1 DEF dispatch, AnswerTo, PING, GET_SW_VER, GET_TIME, TIME_NOTIFY, SET_TIME, GET_DATE, DATE_NOTIFY,
              SET_DATE, GET_STATUS, STATUS_NOTIFY, GET_MODE, MODE_NOTIFY, SET_MODE, SW_VER_NOTIFY
<1> QED
  BY <1>2 DEF Reply, Fits

(* Answers() packet by packet. *)
AnswerStep(f, st, ps, junk, n) ==
  IF n = 0 THEN [s |-> st, sent |-> sent, taken |-> taken]
  ELSE LET a == f[n - 1]
           p == ps[n]
           d == dispatch(p, a.s, junk)
       IN  IF Accepted(p)
           THEN [s |-> d.s, sent |-> Append(a.sent, d.ans), taken |-> Append(a.taken, p)]
           ELSE a

LEMMA AnswerStepAgrees ==
  ASSUME NEW f, NEW g, NEW st, NEW ps, NEW junk, NEW n, n # 0 => f[n - 1] = g[n - 1]
  PROVE  AnswerStep(f, st, ps, junk, n) = AnswerStep(g, st, ps, junk, n)
BY DEF AnswerStep

LEMMA AnswersIs ==
  ASSUME NEW st, NEW ps, NEW junk, Len(ps) \in Nat
  PROVE  \E f : /\ \A n \in 0 .. Len(ps) : f[n] = AnswerStep(f, st, ps, junk, n)
                /\ Answers(st, ps, junk) = f[Len(ps)]
<1> DEFINE N == Len(ps)
           Good(f, m) == f = [n \in 0 .. N |-> f[n]]
                         /\ \A n \in 0 .. N : n <= m => f[n] = AnswerStep(f, st, ps, junk, n)
           T == {m \in Nat : \E f : Good(f, m)}
           P == CHOOSE f : f = [n \in 0 .. N |-> AnswerStep(f, st, ps, junk, n)]
<1>1. N \in Nat /\ T \in SUBSET Nat
  OBVIOUS
<1>2. 0 \in T
  <2> DEFINE e == [n \in 0 .. N |-> [s |-> st, sent |-> sent, taken |-> taken]]
  <2>1. e = [n \in 0 .. N |-> e[n]]
    OBVIOUS
  <2>2. ASSUME NEW n \in 0 .. N, n <= 0 PROVE e[n] = AnswerStep(e, st, ps, junk, n)
    BY <2>2 DEF AnswerStep
  <2> HIDE DEF e
  <2> QED
    BY <2>1, <2>2
<1>3. ASSUME NEW m \in T, m < N PROVE m + 1 \in T
  <2>1. PICK f : Good(f, m)
    BY <1>3
  <2> DEFINE h == [n \in 0 .. N |-> IF n <= m THEN f[n] ELSE AnswerStep(f, st, ps, junk, n)]
  <2>2. h = [n \in 0 .. N |-> h[n]]
    OBVIOUS
  <2>3. ASSUME NEW n \in 0 .. N, n <= m + 1 PROVE h[n] = AnswerStep(h, st, ps, junk, n)
    <3>1. h[n] = AnswerStep(f, st, ps, junk, n)
      BY <2>1
    <3>2. ASSUME n # 0 PROVE h[n - 1] = f[n - 1]
      <4>1. n - 1 \in 0 .. N /\ n - 1 <= m
        BY <1>1, <2>3, <3>2
      <4> QED
        BY <4>1
    <3> HIDE DEF h
    <3> QED
      BY <3>1, <3>2, AnswerStepAgrees
  <2> HIDE DEF h
  <2>4. Good(h, m + 1) /\ m + 1 \in Nat
    BY <2>2, <2>3
  <2> QED
    BY <2>4
<1>4. N \in T
  <2>1. \A n \in 0 .. N : n \in T
    BY ONLY <1>1, <1>2, <1>3, UpToN
  <2>2. N \in 0 .. N
    BY <1>1
  <2> QED
    BY <2>1, <2>2
<1>5. PICK f : Good(f, N)
  BY <1>4
<1>6. f = [n \in 0 .. N |-> f[n]] /\ \A n \in 0 .. N : f[n] = AnswerStep(f, st, ps, junk, n)
  BY <1>1, <1>5
<1>7. f = [n \in 0 .. N |-> AnswerStep(f, st, ps, junk, n)]
  BY <1>6
<1>8. P = [n \in 0 .. N |-> AnswerStep(P, st, ps, junk, n)]
  BY ONLY <1>7, Zenon
<1>9. Answers(st, ps, junk) = P[N]
  BY Zenon DEF Answers, AnswerStep
<1> HIDE DEF P
<1>10. \A n \in 0 .. N : P[n] = AnswerStep(P, st, ps, junk, n)
  BY ONLY <1>8, Zenon
<1> QED
  BY <1>9, <1>10

(* Each packet for the board is answered once, in its turn. *)
LEMMA Answered ==
  ASSUME NEW st, NEW ps \in Seq(Pkt), NEW junk, Match(sent, taken)
  PROVE  LET a == Answers(st, ps, junk)
         IN  a.taken = taken \o Ours(ps) /\ Match(a.sent, a.taken)
<1>1. PICK N \in Nat : N = Len(ps)
  BY LenProperties
<1>2. PICK f : (\A n \in 0 .. N : f[n] = AnswerStep(f, st, ps, junk, n)) /\ Answers(st, ps, junk) = f[N]
  BY <1>1, AnswersIs
<1>3. PICK g : (\A n \in 0 .. N : g[n] = OwnStep(g, ps, n)) /\ Ours(ps) = g[N]
  BY <1>1, OursIs
<1>4. \A n \in 0 .. N : g[n] \in Seq(Pkt)
  <2>1. 0 \in 0 .. N
    OBVIOUS
  <2> QED
    BY <1>1, <1>3, <2>1, OwnStepIs
<1> DEFINE T == {n \in Nat : n <= N => f[n].taken = taken \o g[n] /\ Match(f[n].sent, f[n].taken)}
<1>5. 0 \in T /\ T \in SUBSET Nat
  <2>1. taken \o <<>> = taken
    BY ConcatEmptySeq DEF Match
  <2>2. 0 \in 0 .. N
    OBVIOUS
  <2>3. f[0] = [s |-> st, sent |-> sent, taken |-> taken] /\ g[0] = <<>>
    BY <1>2, <1>3, <2>2 DEF AnswerStep, OwnStep
  <2>4. f[0].taken = taken /\ f[0].sent = sent
    BY <2>3
  <2>5. f[0].taken = taken \o g[0] /\ Match(f[0].sent, f[0].taken)
    BY ONLY <2>1, <2>3, <2>4, Match(sent, taken), Zenon
  <2> QED
    BY <2>5
<1>6. ASSUME NEW n \in T, n < N PROVE n + 1 \in T
  <2>1. /\ n + 1 \in 0 .. N /\ n \in 0 .. N /\ n + 1 \in 1 .. N /\ n + 1 # 0 /\ n + 1 - 1 = n /\ n + 1 \in Nat
    BY <1>6
  <2>2. PICK e \in Pkt : e = ps[n + 1]
    BY <1>1, <2>1, ElementOfSeq
  <2>3. f[n].taken = taken \o g[n] /\ Match(f[n].sent, f[n].taken)
    <3>1. n <= N
      BY <1>6
    <3> QED
      BY <3>1
  <2>4. g[n + 1] = IF Accepted(e) THEN Append(g[n], e) ELSE g[n]
    BY <1>3, <2>1, <2>2 DEF OwnStep
  <2>5. f[n + 1] = IF Accepted(e)
                   THEN [s |-> dispatch(e, f[n].s, junk).s,
                         sent |-> Append(f[n].sent, dispatch(e, f[n].s, junk).ans),
                         taken |-> Append(f[n].taken, e)]
                   ELSE f[n]
    <3>1. f[n + 1] = AnswerStep(f, st, ps, junk, n + 1)
      BY <1>2, <2>1
    <3>2. PICK m : m = n + 1 /\ m # 0 /\ m - 1 = n
      BY <2>1
    <3>3. AnswerStep(f, st, ps, junk, m) =
            IF Accepted(ps[m])
            THEN [s |-> dispatch(ps[m], f[m - 1].s, junk).s,
                  sent |-> Append(f[m - 1].sent, dispatch(ps[m], f[m - 1].s, junk).ans),
                  taken |-> Append(f[m - 1].taken, ps[m])]
            ELSE f[m - 1]
      BY ONLY <3>2, Zenon DEF AnswerStep
    <3> QED
      BY ONLY <2>2, <3>1, <3>2, <3>3, Zenon
  <2>6. ASSUME Accepted(e)
        PROVE  f[n + 1].taken = taken \o g[n + 1] /\ Match(f[n + 1].sent, f[n + 1].taken)
    <3>1. PICK d : d = dispatch(e, f[n].s, junk)
      OBVIOUS
    <3>2. f[n + 1] = [s |-> d.s, sent |-> Append(f[n].sent, d.ans), taken |-> Append(f[n].taken, e)]
      BY ONLY <2>5, <2>6, <3>1, Zenon
    <3>3. Fits(d.ans, e)
      BY <3>1, AnswerFits
    <3>4. Match(Append(f[n].sent, d.ans), Append(f[n].taken, e))
      BY <2>3, <3>3, MatchNext
    <3>5. Append(taken \o g[n], e) = taken \o Append(g[n], e)
      <4>1. PICK w \in Seq(Pkt) : w = taken
        BY DEF Match
      <4>2. PICK v \in Seq(Pkt) : v = g[n]
        BY <1>4, <2>1
      <4>3. w \o v \in Seq(Pkt) /\ <<e>> \in Seq(Pkt)
        BY ConcatProperties
      <4>4. Append(w \o v, e) = (w \o v) \o <<e>> /\ Append(v, e) = v \o <<e>>
        BY <4>3, AppendIsConcat
      <4>5. (w \o v) \o <<e>> = w \o (v \o <<e>>)
        BY ONLY <4>3, ConcatAssociative, w \in Seq(Pkt), v \in Seq(Pkt)
      <4> QED
        BY ONLY <4>1, <4>2, <4>4, <4>5
    <3>6. f[n + 1].sent = Append(f[n].sent, d.ans) /\ f[n + 1].taken = Append(f[n].taken, e)
      BY <3>2, SMTT(20)
    <3>7. g[n + 1] = Append(g[n], e)
      BY <2>4, <2>6
    <3> QED
      BY ONLY <2>3, <3>4, <3>5, <3>6, <3>7, Zenon
  <2>7. ASSUME ~Accepted(e) PROVE f[n + 1] = f[n]
    BY ONLY <2>5, <2>7, Zenon
  <2>8. ASSUME ~Accepted(e) PROVE g[n + 1] = g[n]
    BY <2>4, <2>8
  <2>9. f[n + 1].taken = taken \o g[n + 1] /\ Match(f[n + 1].sent, f[n + 1].taken)
    BY ONLY <2>3, <2>6, <2>7, <2>8, Zenon
  <2> QED
    BY <2>1, <2>9
<1>7. \A n \in 0 .. N : n \in T
  <2> HIDE DEF T
  <2> QED
    BY ONLY <1>5, <1>6, UpToN, N \in Nat
<1>8. N \in 0 .. N /\ N <= N
  OBVIOUS
<1> QED
  BY <1>2, <1>3, <1>7, <1>8
-----------------------------------------------------------------------------
(* The sum of bytes is a byte. *)
CrcStep(f, bs, st, n) == IF n = 0 THEN st ELSE (f[n - 1] + bs[n]) % 256

LEMMA CrcStepAgrees ==
  ASSUME NEW f, NEW g, NEW bs, NEW st, NEW n, n # 0 => f[n - 1] = g[n - 1]
  PROVE  CrcStep(f, bs, st, n) = CrcStep(g, bs, st, n)
BY DEF CrcStep

LEMMA CrcIs ==
  ASSUME NEW bs, NEW st, Len(bs) \in Nat
  PROVE  \E f : /\ \A n \in 0 .. Len(bs) : f[n] = CrcStep(f, bs, st, n)
                /\ crc(bs, st) = f[Len(bs)]
<1> DEFINE N == Len(bs)
           Good(f, m) == f = [n \in 0 .. N |-> f[n]] /\ \A n \in 0 .. N : n <= m => f[n] = CrcStep(f, bs, st, n)
           T == {m \in Nat : \E f : Good(f, m)}
           P == CHOOSE f : f = [n \in 0 .. N |-> CrcStep(f, bs, st, n)]
<1>1. N \in Nat /\ T \in SUBSET Nat
  OBVIOUS
<1>2. 0 \in T
  <2> DEFINE e == [n \in 0 .. N |-> st]
  <2>1. e = [n \in 0 .. N |-> e[n]]
    OBVIOUS
  <2>2. ASSUME NEW n \in 0 .. N, n <= 0 PROVE e[n] = CrcStep(e, bs, st, n)
    BY <2>2 DEF CrcStep
  <2> HIDE DEF e
  <2> QED
    BY <2>1, <2>2
<1>3. ASSUME NEW m \in T, m < N PROVE m + 1 \in T
  <2>1. PICK f : Good(f, m)
    BY <1>3
  <2> DEFINE h == [n \in 0 .. N |-> IF n <= m THEN f[n] ELSE CrcStep(f, bs, st, n)]
  <2>2. h = [n \in 0 .. N |-> h[n]]
    OBVIOUS
  <2>3. ASSUME NEW n \in 0 .. N, n <= m + 1 PROVE h[n] = CrcStep(h, bs, st, n)
    <3>1. h[n] = CrcStep(f, bs, st, n)
      BY <2>1
    <3>2. ASSUME n # 0 PROVE h[n - 1] = f[n - 1]
      <4>1. n - 1 \in 0 .. N /\ n - 1 <= m
        BY <1>1, <2>3, <3>2
      <4> QED
        BY <4>1
    <3> HIDE DEF h
    <3> QED
      BY <3>1, <3>2, CrcStepAgrees
  <2> HIDE DEF h
  <2>4. Good(h, m + 1) /\ m + 1 \in Nat
    BY <2>2, <2>3
  <2> QED
    BY <2>4
<1>4. N \in T
  <2>1. \A n \in 0 .. N : n \in T
    BY ONLY <1>1, <1>2, <1>3, UpToN
  <2>2. N \in 0 .. N
    BY <1>1
  <2> QED
    BY <2>1, <2>2
<1>5. PICK f : Good(f, N)
  BY <1>4
<1>6. f = [n \in 0 .. N |-> f[n]] /\ \A n \in 0 .. N : f[n] = CrcStep(f, bs, st, n)
  BY <1>1, <1>5
<1>7. f = [n \in 0 .. N |-> CrcStep(f, bs, st, n)]
  BY <1>6
<1>8. P = [n \in 0 .. N |-> CrcStep(P, bs, st, n)]
  BY ONLY <1>7, Zenon
<1>9. crc(bs, st) = P[N]
  BY Zenon DEF crc, CrcStep
<1> HIDE DEF P
<1>10. \A n \in 0 .. N : P[n] = CrcStep(P, bs, st, n)
  BY ONLY <1>8, Zenon
<1> QED
  BY <1>9, <1>10

LEMMA CrcIsByte == ASSUME NEW bs \in Stream, NEW st \in Byte PROVE crc(bs, st) \in Byte
<1>1. Len(bs) \in Nat
  BY LenProperties DEF Stream
<1>2. PICK f : (\A n \in 0 .. Len(bs) : f[n] = CrcStep(f, bs, st, n)) /\ crc(bs, st) = f[Len(bs)]
  BY <1>1, CrcIs
<1> DEFINE T == {n \in Nat : n <= Len(bs) => f[n] \in Byte}
<1>3. 0 \in T /\ T \in SUBSET Nat
  <2>1. 0 \in 0 .. Len(bs)
    BY <1>1
  <2>2. f[0] = st
    BY <1>2, <2>1 DEF CrcStep
  <2> QED
    BY <2>2
<1>4. ASSUME NEW n \in T, n < Len(bs) PROVE n + 1 \in T
  <2>1. /\ n \in Nat /\ n + 1 \in 0 .. Len(bs) /\ n + 1 # 0 /\ n + 1 - 1 = n
        /\ n + 1 \in Nat /\ 1 <= n + 1 /\ n + 1 <= Len(bs) /\ f[n] \in Byte
    BY <1>1, <1>4
  <2>2. PICK x \in Nat : x = bs[n + 1]
    BY <2>1, ByteIs
  <2>3. PICK y \in Nat : y = f[n]
    <3>1. \A z \in Byte : z \in Nat
      BY DEF Byte
    <3> QED
      BY ONLY <2>1, <3>1, Zenon
  <2>4. f[n + 1] = (y + x) % 256
    BY <1>2, <2>1, <2>2, <2>3 DEF CrcStep
  <2>5. (y + x) % 256 \in Byte
    BY DEF Byte
  <2> QED
    BY <2>1, <2>4, <2>5
<1>5. \A n \in 0 .. Len(bs) : n \in T
  <2> HIDE DEF T
  <2> QED
    BY ONLY <1>1, <1>3, <1>4, UpToN
<1>6. Len(bs) \in 0 .. Len(bs) /\ Len(bs) <= Len(bs)
  BY <1>1
<1> QED
  BY <1>2, <1>5, <1>6

(* The bytes of a request are the packet it was made from. *)
LEMMA BytesAre ==
  ASSUME NEW r \in pkt_t, Len(r.data) <= MAX_DATA_SIZE
  PROVE  /\ IsPacket(Bytes(r)) /\ Complete(Bytes(r)) /\ Behind(Bytes(r)) = <<>>
         /\ FirstPacket(Bytes(r)) = Understood(r)
<1>1. PICK l \in Nat : l = Len(r.data) /\ l <= MAX_DATA_SIZE /\ MAX_DATA_SIZE \in 3 .. 255
  BY LenProperties, ControlPacketAssumption DEF pkt_t
<1>2. PICK d \in Stream : d = r.data /\ Len(d) = l /\ d \in Seq(Byte)
  BY <1>1 DEF pkt_t, Stream, Byte
<1>3. PICK h1 \in Byte : h1 = r.dst + 16 * r.src /\ h1 % 16 = r.dst /\ h1 \div 16 = r.src
  <2>1. r.dst \in 0 .. 15 /\ r.src \in 0 .. 15
    BY DEF pkt_t
  <2>2. \A x, y \in 0 .. 15 : x + 16 * y \in 0 .. 255 /\ (x + 16 * y) % 16 = x /\ (x + 16 * y) \div 16 = y
    OBVIOUS
  <2> QED
    BY ONLY <2>1, <2>2, Zenon DEF Byte
<1>4. PICK h2 \in Byte : h2 = r.cmd + 32 * r.high /\ h2 % 32 = r.cmd
  <2>1. r.cmd \in 0 .. 31 /\ r.high \in 0 .. 7
    BY DEF pkt_t
  <2>2. \A x \in 0 .. 31, y \in 0 .. 7 : x + 32 * y \in 0 .. 255 /\ (x + 32 * y) % 32 = x
    OBVIOUS
  <2> QED
    BY ONLY <2>1, <2>2, Zenon DEF Byte
<1>5. l \in Byte
  <2>1. PICK m \in 3 .. 255 : m = MAX_DATA_SIZE
    BY <1>1
  <2>2. l <= m
    BY <1>1, <2>1
  <2> QED
    BY ONLY <2>2, l \in Nat, m \in 3 .. 255 DEF Byte
<1>6. PICK head : head = <<h1, h2, l>> /\ head \in Stream /\ head \in Seq(Byte) /\ Len(head) = 3
  <2>1. <<h1, h2, l>> \in Seq(Byte) /\ Len(<<h1, h2, l>>) = 3
    BY ONLY <1>5, h1 \in Byte, h2 \in Byte
  <2> QED
    BY ONLY <2>1 DEF Stream
<1>7. PICK c \in Byte : c = crc(head, CRC_OFFSET)
  <2>1. CRC_OFFSET \in Byte
    BY DEF CRC_OFFSET, Byte
  <2> QED
    BY <1>6, <2>1, CrcIsByte
<1>8. PICK e \in Byte : e = crc(d, c)
  BY CrcIsByte
<1> DEFINE tail == IF d = <<>> THEN <<>> ELSE d \o <<e>>
<1>9. Bytes(r) = head \o <<c>> \o tail
  BY ONLY <1>1, <1>2, <1>3, <1>4, <1>6, <1>7, <1>8, Zenon DEF Bytes
<1>10. PICK a : a = head \o <<c>> /\ a = <<h1, h2, l, c>> /\ a \in Stream /\ a \in Seq(Byte) /\ Len(a) = 4
  <2>1. <<h1, h2, l, c>> \in Seq(Byte) /\ Len(<<h1, h2, l, c>>) = 4
    BY ONLY <1>5, h1 \in Byte, h2 \in Byte, c \in Byte
  <2>2. <<h1, h2, l>> \o <<c>> = <<h1, h2, l, c>>
    <3>1. <<c>> \in Seq(Byte) /\ Len(<<c>>) = 1 /\ <<c>>[1] = c
      BY ONLY c \in Byte
    <3>2. /\ head \o <<c>> \in Seq(Byte) /\ Len(head \o <<c>>) = 3 + 1
          /\ \A i \in 1 .. 3 + 1 : (head \o <<c>>)[i] = IF i <= 3 THEN head[i] ELSE <<c>>[i - 3]
      BY ONLY <1>6, <3>1, ConcatProperties
    <3>3. \A i \in 1 .. 4 : (head \o <<c>>)[i] = <<h1, h2, l, c>>[i]
      <4>1. /\ (head \o <<c>>)[1] = h1 /\ (head \o <<c>>)[2] = h2
            /\ (head \o <<c>>)[3] = l /\ (head \o <<c>>)[4] = c
        BY ONLY <1>6, <3>1, <3>2
      <4>2. \A i \in 1 .. 4 : i = 1 \/ i = 2 \/ i = 3 \/ i = 4
        OBVIOUS
      <4>3. /\ <<h1, h2, l, c>>[1] = h1 /\ <<h1, h2, l, c>>[2] = h2
            /\ <<h1, h2, l, c>>[3] = l /\ <<h1, h2, l, c>>[4] = c
        OBVIOUS
      <4> QED
        BY ONLY <4>1, <4>2, <4>3, Zenon
    <3>4. 3 + 1 = 4
      OBVIOUS
    <3>5. head \o <<c>> = <<h1, h2, l, c>>
      BY ONLY <2>1, <3>2, <3>3, <3>4, SeqEqual
    <3> QED
      BY ONLY <1>6, <3>5
  <2> QED
    BY ONLY <1>6, <2>1, <2>2 DEF Stream
<1>11. /\ d \o <<e>> \in Seq(Byte) /\ Len(d \o <<e>>) = l + 1
       /\ \A i \in 1 .. l : (d \o <<e>>)[i] = d[i]
       /\ (d \o <<e>>)[l + 1] = e
  <2>1. <<e>> \in Seq(Byte) /\ Len(<<e>>) = 1 /\ <<e>>[1] = e
    OBVIOUS
  <2>2. /\ d \o <<e>> \in Seq(Byte) /\ Len(d \o <<e>>) = l + 1
        /\ \A i \in 1 .. l + 1 : (d \o <<e>>)[i] = IF i <= l THEN d[i] ELSE <<e>>[i - l]
    BY ONLY <1>2, <2>1, ConcatProperties
  <2>3. l + 1 \in 1 .. l + 1 /\ ~(l + 1 <= l) /\ l + 1 - l = 1 /\ \A i \in 1 .. l : i \in 1 .. l + 1 /\ i <= l
    OBVIOUS
  <2> QED
    BY ONLY <2>1, <2>2, <2>3
<1>12. (d = <<>> <=> l = 0) /\ tail \in Seq(Byte) /\ Len(tail) = (IF l = 0 THEN 0 ELSE l + 1)
  BY <1>2, <1>11, EmptySeq
<1> HIDE DEF tail
<1>13. PICK b : b = a \o tail /\ b = Bytes(r)
  BY <1>9, <1>10
<1>14. PICK n \in Nat : n = full_len(l) /\ n = (IF l = 0 THEN 4 ELSE l + 5)
  BY DEF full_len
<1>15. /\ b \in Stream /\ b \in Seq(Byte) /\ Len(b) = n
       /\ \A i \in 1 .. 4 : b[i] = a[i]
       /\ \A i \in 1 .. Len(tail) : b[4 + i] = tail[i]
  <2>1. tail \in Stream /\ Len(b) = 4 + Len(tail)
    BY <1>10, <1>12, <1>13, Glued DEF Stream
  <2>2. 4 + Len(tail) = n
    BY <1>12, <1>14
  <2> QED
    BY <1>10, <1>13, <2>1, <2>2, Glued DEF Stream
<1>16. b[1] = h1 /\ b[2] = h2 /\ b[3] = l /\ b[4] = c
  BY <1>10, <1>15
<1>17. IsPacket(b) /\ Complete(b)
  <2>1. n > 2 /\ n <= PacketSize
    BY <1>1, <1>14 DEF PacketSize
  <2>2. full_len(b[3]) = n
    BY <1>14, <1>16
  <2> QED
    BY <1>15, <2>1, <2>2 DEF IsPacket, Complete
<1>18. Behind(b) = <<>>
  <2>1. Size(b) = n
    BY <1>14, <1>16 DEF Size
  <2> QED
    BY <1>15, <2>1 DEF Behind
<1>19. SubSeq(b, 1, 3) = head
  <2>1. \A i \in 1 .. 3 : b[i] \in Byte /\ b[i] = head[i]
    BY <1>5, <1>6, <1>16
  <2>2. SubSeq(b, 1, 3) \in Seq(Byte) /\ Len(SubSeq(b, 1, 3)) = 3 /\ \A i \in 1 .. 3 : SubSeq(b, 1, 3)[i] = b[i]
    <3>1. /\ SubSeq(b, 1, 3) \in Seq(Byte) /\ Len(SubSeq(b, 1, 3)) = (IF 1 <= 3 THEN 3 - 1 + 1 ELSE 0)
          /\ \A i \in 1 .. 3 - 1 + 1 : SubSeq(b, 1, 3)[i] = b[1 + i - 1]
      BY ONLY <2>1, SubSeqProperties
    <3>2. (IF 1 <= 3 THEN 3 - 1 + 1 ELSE 0) = 3 /\ 3 - 1 + 1 = 3 /\ \A i \in 1 .. 3 : 1 + i - 1 = i
      OBVIOUS
    <3> QED
      BY ONLY <3>1, <3>2
  <2> QED
    BY ONLY <1>6, <2>1, <2>2, SeqEqual
<1>20. ASSUME l # 0 PROVE SubSeq(b, 5, n - 1) = d /\ b[n] = e
  <2>1. tail = d \o <<e>> /\ Len(tail) = l + 1 /\ n = l + 5
    BY <1>12, <1>14, <1>20 DEF tail
  <2>2. \A i \in 1 .. l : b[4 + i] = d[i] /\ d[i] \in Byte
    <3>1. ASSUME NEW i \in 1 .. l PROVE b[4 + i] = d[i] /\ d[i] \in Byte
      <4>1. i \in 1 .. l + 1 /\ i \in 1 .. Len(d)
        BY <1>2
      <4> QED
        BY <1>2, <1>11, <1>15, <2>1, <4>1, ElementOfSeq
    <3> QED
      BY <3>1
  <2>3. b[n] = e
    <3>1. l + 1 \in 1 .. Len(tail) /\ n = 4 + (l + 1)
      BY <2>1
    <3>2. b[4 + (l + 1)] = tail[l + 1]
      BY <1>15, <3>1
    <3> QED
      BY <1>11, <2>1, <3>1, <3>2
  <2>4. \A i \in 5 .. n - 1 : b[i] \in Byte
    <3>1. ASSUME NEW i \in 5 .. n - 1 PROVE b[i] \in Byte
      <4>1. i - 4 \in 1 .. l /\ 4 + (i - 4) = i
        BY <2>1
      <4> QED
        BY <2>2, <4>1
    <3> QED
      BY <3>1
  <2>5. /\ SubSeq(b, 5, n - 1) \in Seq(Byte) /\ Len(SubSeq(b, 5, n - 1)) = l
        /\ \A i \in 1 .. l : SubSeq(b, 5, n - 1)[i] = b[4 + i]
    <3>1. /\ SubSeq(b, 5, n - 1) \in Seq(Byte)
          /\ Len(SubSeq(b, 5, n - 1)) = (IF 5 <= n - 1 THEN n - 1 - 5 + 1 ELSE 0)
          /\ \A i \in 1 .. n - 1 - 5 + 1 : SubSeq(b, 5, n - 1)[i] = b[5 + i - 1]
      <4>1. 5 \in Int /\ n - 1 \in Int
        OBVIOUS
      <4> QED
        BY ONLY <2>4, <4>1, SubSeqProperties
    <3>2. (IF 5 <= n - 1 THEN n - 1 - 5 + 1 ELSE 0) = l /\ n - 1 - 5 + 1 = l /\ \A i \in 1 .. l : 5 + i - 1 = 4 + i
      BY <1>20, <2>1
    <3> QED
      BY ONLY <3>1, <3>2
  <2>6. SubSeq(b, 5, n - 1) = d
    BY ONLY <1>2, <2>2, <2>5, SeqEqual
  <2> QED
    BY <2>3, <2>6
<1>21. FirstPacket(b) = Understood(r)
  <2>1. full_len(b[3]) = n /\ (n = 4 <=> l = 0)
    <3>1. l \in Nat /\ n = (IF l = 0 THEN 4 ELSE l + 5)
      BY <1>14
    <3>2. full_len(b[3]) = n
      BY ONLY <1>14, <1>16, Zenon
    <3> QED
      BY ONLY <3>1, <3>2, n \in Nat
  <2>2. (IF n = 4 THEN <<>> ELSE SubSeq(b, 5, n - 1)) = d
    BY <1>12, <1>20, <2>1
  <2>3. b[4] = crc(SubSeq(b, 1, 3), CRC_OFFSET)
    BY <1>7, <1>16, <1>19
  <2>4. n = 4 \/ b[n] = crc(SubSeq(b, 5, n - 1), crc(SubSeq(b, 1, 3), CRC_OFFSET))
    BY <1>7, <1>8, <1>19, <1>20, <2>1
  <2>5. b[1] % 16 = r.dst /\ b[1] \div 16 = r.src /\ b[2] % 32 = r.cmd
    BY <1>3, <1>4, <1>16
  <2>6. (b[4] = crc(SubSeq(b, 1, 3), CRC_OFFSET)
         /\ (n = 4 \/ b[n] = crc(SubSeq(b, 5, n - 1), crc(SubSeq(b, 1, 3), CRC_OFFSET)))) = TRUE
    BY <2>3, <2>4
  <2> QED
    BY ONLY <1>2, <2>1, <2>2, <2>5, <2>6, Zenon DEF FirstPacket, Understood
<1> QED
  BY <1>13, <1>17, <1>18, <1>21

LEMMA UnderstoodIs == ASSUME NEW r \in pkt_t PROVE Understood(r) \in Pkt
<1>1. r.dst \in Nat /\ r.src \in Nat /\ r.cmd \in Nat /\ r.data \in Stream
  <2>1. r.dst \in 0 .. 15 /\ r.src \in 0 .. 15 /\ r.cmd \in 0 .. 31 /\ r.data \in Seq(0 .. 255)
    BY DEF pkt_t
  <2>2. 0 .. 15 \subseteq Nat /\ 0 .. 31 \subseteq Nat
    OBVIOUS
  <2> QED
    BY ONLY <2>1, <2>2, Zenon DEF Stream, Byte
<1> QED
  BY <1>1 DEF Understood, Pkt
-----------------------------------------------------------------------------
ControlTypes == /\ line \in Stream /\ buf \in Stream /\ read \in Stream
                /\ asked \in Seq(pkt_t)
                /\ broken \in BOOLEAN /\ early \in BOOLEAN /\ damaged \in BOOLEAN
(* What was done is what parse() does to all that was read in one piece.   *)
Kept == ~broken => buf = Parse(read).rest /\ taken = Ours(Parse(read).packets)
(* What was sent answers what was taken. *)
Told == ~broken => Match(sent, taken)
(* Nothing is on the line before the port is open, and then nothing from a *)
(* device that waits until m_buf is there.                                 *)
Silent == pc \in FlirLives \/ (pc = "opening" /\ ~early) => line = <<>>
(* Bytes that come as they are make whole packets: what is left and what   *)
(* still comes, and the packets are what was asked.                        *)
InStep == ~early /\ ~damaged => ~broken /\ Framed(buf \o line)
Whole == ~damaged => Parse(read \o line).packets = Requested /\ Parse(read \o line).rest = <<>>

CInv == ControlTypes /\ Kept /\ Told /\ Silent /\ InStep /\ Whole

LEMMA Empty == /\ <<>> \in Stream /\ <<>> \o <<>> = <<>> /\ <<>> \in Seq(Pkt)
               /\ Parse(<<>>).rest = <<>> /\ Parse(<<>>).packets = <<>>
<1>1. <<>> \in Stream /\ Len(<<>>) = 0 /\ <<>> \in Seq(Pkt)
  BY DEF Stream
<1>2. <<>> \o <<>> = <<>>
  BY <1>1, ConcatEmptySeq DEF Stream
<1>3. ~Complete(<<>>)
  BY <1>1 DEF Complete
<1> QED
  BY <1>1, <1>2, <1>3, ParseNone

LEMMA InitCInv == ASSUME Init PROVE CInv
<1>1. /\ line = <<>> /\ buf = <<>> /\ read = <<>> /\ sent = <<>> /\ taken = <<>> /\ asked = <<>>
      /\ broken = FALSE /\ early = FALSE /\ damaged = FALSE
  BY DEF Init
<1>2. ControlTypes
  <2>1. <<>> \in Seq(pkt_t)
    OBVIOUS
  <2> QED
    BY <1>1, <2>1, Empty DEF ControlTypes
<1>3. Kept
  BY <1>1, Empty, OursNone DEF Kept
<1>4. Told /\ Silent
  <2>1. <<>> \in Seq({}) /\ <<>> \in Seq(Pkt) /\ Len(<<>>) = 0 /\ 1 .. 0 = {}
    OBVIOUS
  <2> QED
    BY <1>1, <2>1 DEF Told, Silent, Match
<1>5. InStep
  BY <1>1, Empty, FramedNone DEF InStep
<1>6. Whole
  <2>1. Requested = <<>>
    BY <1>1 DEF Requested
  <2> QED
    BY <1>1, <2>1, Empty DEF Whole
<1> QED
  BY <1>2, <1>3, <1>4, <1>5, <1>6 DEF CInv

(* The search for the camera, and what else does not touch the bytes and   *)
(* the packets, leaves the control port alone.                             *)
LEMMA OthersKeep ==
  ASSUME CInv, UNCHANGED <<line, buf, sent, read, taken, broken, early, asked, damaged>>,
         \/ pc' = pc
         \/ pc \in FlirLives /\ pc' \in FlirLives \union {"opening"}
         \/ pc' \in {"opened", "control", "dead"}
  PROVE  CInv'
<1>1. ControlTypes' /\ Kept' /\ Told' /\ InStep' /\ Whole'
  BY DEF CInv, ControlTypes, Kept, Told, InStep, Whole, Requested
<1>2. Silent'
  BY DEF CInv, Silent, FlirLives
<1> QED
  BY <1>1, <1>2 DEF CInv

(* One request more. *)
LEMMA RequestedNext ==
  ASSUME asked \in Seq(pkt_t), NEW r \in pkt_t, asked' = Append(asked, r)
  PROVE  /\ Requested \in Seq(Pkt) /\ Requested' \in Seq(Pkt)
         /\ Requested' = Requested \o <<Understood(r)>>
<1>1. Len(asked) \in Nat
  BY LenProperties
<1>2. PICK n \in Nat : n = Len(asked)
  BY <1>1
<1>3. /\ asked' \in Seq(pkt_t) /\ Len(asked') = n + 1 /\ asked'[n + 1] = r
      /\ \A i \in 1 .. n : asked'[i] = asked[i]
  BY ONLY <1>2, asked \in Seq(pkt_t), r \in pkt_t, asked' = Append(asked, r), AppendProperties
<1>4. \A i \in 1 .. n : Understood(asked[i]) \in Pkt
  <2>1. ASSUME NEW i \in 1 .. n PROVE asked[i] \in pkt_t
    BY ONLY <1>2, asked \in Seq(pkt_t), i \in 1 .. n, ElementOfSeq
  <2> QED
    BY <2>1, UnderstoodIs
<1>5. Understood(r) \in Pkt
  BY UnderstoodIs
<1>6. \A i \in 1 .. n + 1 : i \in 1 .. n \/ i = n + 1
  OBVIOUS
<1>7. Requested = [i \in 1 .. n |-> Understood(asked[i])]
  BY <1>2 DEF Requested
<1>8. Requested' = [i \in 1 .. n + 1 |-> Understood(asked'[i])]
  BY <1>3 DEF Requested, Understood
<1>9. Requested \in Seq(Pkt) /\ Len(Requested) = n /\ \A i \in 1 .. n : Requested[i] = Understood(asked[i])
  <2>1. Requested \in [1 .. n -> Pkt]
    BY ONLY <1>4, <1>7
  <2> QED
    BY <1>7, <2>1
<1>10. /\ Requested' \in Seq(Pkt) /\ Len(Requested') = n + 1
       /\ \A i \in 1 .. n + 1 : Requested'[i] = Understood(asked'[i])
  <2>2. n + 1 \in Nat
    OBVIOUS
  <2>1. Requested' \in [1 .. n + 1 -> Pkt]
    BY ONLY <1>3, <1>4, <1>5, <1>6, <1>8
  <2>3. PICK q : q = Requested'
    OBVIOUS
  <2>4. q \in Seq(Pkt) /\ Len(q) = n + 1
    BY ONLY <2>1, <2>2, <2>3
  <2> QED
    BY ONLY <1>8, <2>3, <2>4
<1>11. /\ Requested \o <<Understood(r)>> \in Seq(Pkt) /\ Len(Requested \o <<Understood(r)>>) = n + 1
       /\ \A i \in 1 .. n + 1 : (Requested \o <<Understood(r)>>)[i] =
                                IF i <= n THEN Requested[i] ELSE <<Understood(r)>>[i - n]
  <2>1. PICK u \in Pkt : u = Understood(r)
    BY <1>5
  <2>2. <<u>> \in Seq(Pkt) /\ Len(<<u>>) = 1
    OBVIOUS
  <2> QED
    BY ONLY <1>9, <2>1, <2>2, ConcatProperties
<1>12. \A i \in 1 .. n + 1 : Requested'[i] = (Requested \o <<Understood(r)>>)[i]
  <2>1. ASSUME NEW i \in 1 .. n
        PROVE  Requested'[i] = (Requested \o <<Understood(r)>>)[i]
    <3>1. i \in 1 .. n + 1 /\ i <= n
      OBVIOUS
    <3>2. Requested'[i] = Understood(asked[i])
      BY ONLY <1>3, <1>10, <3>1, i \in 1 .. n, Zenon
    <3> QED
      BY <1>9, <1>11, <3>1, <3>2
  <2>2. Requested'[n + 1] = (Requested \o <<Understood(r)>>)[n + 1]
    <3>1. n + 1 \in 1 .. n + 1 /\ ~(n + 1 <= n) /\ n + 1 - n = 1
      OBVIOUS
    <3>2. Requested'[n + 1] = Understood(r)
      BY ONLY <1>3, <1>10, <3>1, Zenon
    <3>3. <<Understood(r)>>[1] = Understood(r)
      OBVIOUS
    <3> QED
      BY ONLY <1>11, <3>1, <3>2, <3>3
  <2> QED
    BY ONLY <1>6, <2>1, <2>2
<1>13. Requested' = Requested \o <<Understood(r)>>
  BY ONLY <1>10, <1>11, <1>12, SeqEqual
<1> QED
  BY <1>9, <1>10, <1>13

LEMMA AskKeeps == ASSUME CInv, Ask PROVE CInv'
<1>1. /\ pc \in Listens /\ early' = (early \/ pc = "opening")
      /\ UNCHANGED <<pc, buf, sent, read, taken, broken, damaged>>
  BY DEF Ask
<1>2. PICK r \in Requests : line' = line \o Bytes(r) /\ asked' = Append(asked, r)
  BY DEF Ask
<1>3. r \in pkt_t /\ Len(r.data) <= MAX_DATA_SIZE
  BY PortsAssumption
<1>4. PICK b : b = Bytes(r) /\ IsPacket(b) /\ Complete(b) /\ Behind(b) = <<>> /\ FirstPacket(b) = Understood(r)
  BY <1>3, BytesAre
<1>5. b \in Stream
  BY <1>4 DEF IsPacket
<1>6. /\ line \in Stream /\ buf \in Stream /\ read \in Stream /\ line' \in Stream /\ asked \in Seq(pkt_t)
      /\ line' = line \o b
  BY <1>2, <1>4, <1>5, Glued DEF CInv, ControlTypes
<1>7. asked' \in Seq(pkt_t)
  BY ONLY <1>2, <1>3, <1>6, AppendProperties
<1>8. ControlTypes' /\ Kept' /\ Told'
  BY <1>1, <1>6, <1>7 DEF CInv, ControlTypes, Kept, Told
<1>9. Silent'
  BY <1>1 DEF Silent, Listens, FlirLives
<1>10. ASSUME ~early', ~damaged' PROVE ~broken' /\ Framed(buf' \o line')
  <2>1. ~broken /\ Framed(buf \o line)
    BY <1>1, <1>10 DEF CInv, InStep
  <2>2. buf \o line \in Stream
    BY <1>6, Glued
  <2>3. Framed((buf \o line) \o b)
    BY <1>4, <2>1, <2>2, FramedGlued
  <2>4. (buf \o line) \o b = buf \o (line \o b)
    BY ONLY <1>5, <1>6, ConcatAssociative DEF Stream
  <2> QED
    BY <1>1, <1>6, <2>1, <2>3, <2>4
<1>11. ASSUME ~damaged'
       PROVE  Parse(read \o line').packets = Requested' /\ Parse(read \o line').rest = <<>>
  <2>1. Parse(read \o line).packets = Requested /\ Parse(read \o line).rest = <<>>
    BY <1>1, <1>11 DEF CInv, Whole
  <2>2. (read \o line) \o b = read \o line' /\ read \o line \in Stream
    <3>1. (read \o line) \o b = read \o (line \o b)
      BY ONLY <1>5, <1>6, ConcatAssociative DEF Stream
    <3> QED
      BY <1>6, <3>1, Glued
  <2>3. <<>> \o b = b
    BY <1>5, ConcatEmptySeq DEF Stream
  <2>4. Parse(read \o line').packets = Requested \o Parse(b).packets /\ Parse(read \o line').rest = Parse(b).rest
    <3>1. PICK a \in Stream : a = read \o line
      BY <2>2
    <3>2. /\ Parse(a \o b).rest = Parse(Parse(a).rest \o b).rest
          /\ Parse(a \o b).packets = Parse(a).packets \o Parse(Parse(a).rest \o b).packets
      BY ONLY <1>5, ParseGlued, a \in Stream
    <3> QED
      BY ONLY <2>1, <2>2, <2>3, <3>1, <3>2
  <2>5. Parse(b).packets = <<Understood(r)>> /\ Parse(b).rest = <<>>
    <3>1. Parse(b).packets = <<FirstPacket(b)>> \o Parse(<<>>).packets /\ Parse(b).rest = Parse(<<>>).rest
      BY <1>4, <1>5, ParseNext
    <3>2. <<Understood(r)>> \o <<>> = <<Understood(r)>>
      OBVIOUS
    <3> QED
      BY <1>4, <3>1, <3>2, Empty
  <2> QED
    BY <1>2, <1>3, <1>6, <2>4, <2>5, RequestedNext
<1> QED
  BY <1>1, <1>8, <1>9, <1>10, <1>11 DEF CInv, InStep, Whole

LEMMA DamageKeeps == ASSUME CInv, Damage PROVE CInv'
<1>1. damaged' = TRUE /\ UNCHANGED <<pc, buf, sent, read, taken, broken, early, asked>>
  BY DEF Damage
<1>2. PICK i \in DOMAIN line : line' = RemoveAt(line, i) \/ line' = [line EXCEPT ![i] = (@ + 4) % 256]
  BY DEF Damage
<1>3. line \in Seq(Byte) /\ Len(line) \in Nat /\ DOMAIN line = 1 .. Len(line)
  BY LenProperties DEF CInv, ControlTypes, Stream
<1>4. line' \in Stream
  <2>1. CASE line' = RemoveAt(line, i)
    <3>1. SubSeq(line, 1, i - 1) \in Seq(Byte)
      <4>1. 1 \in 1 .. Len(line) + 1 /\ i - 1 \in 1 - 1 .. Len(line)
        BY <1>3
      <4> QED
        BY ONLY <1>3, <4>1, SubSeqProperties
    <3>2. SubSeq(line, i + 1, Len(line)) \in Seq(Byte)
      <4>1. i + 1 \in 1 .. Len(line) + 1 /\ Len(line) \in i + 1 - 1 .. Len(line)
        BY <1>3
      <4> QED
        BY ONLY <1>3, <4>1, SubSeqProperties
    <3>3. SubSeq(line, 1, i - 1) \o SubSeq(line, i + 1, Len(line)) \in Seq(Byte)
      BY ONLY <3>1, <3>2, ConcatProperties
    <3> QED
      BY ONLY <2>1, <3>3 DEF RemoveAt, Stream
  <2>2. CASE line' = [line EXCEPT ![i] = (@ + 4) % 256]
    <3>1. PICK k \in Nat : k = line[i]
      <4>1. line[i] \in Byte
        BY ONLY <1>3, ElementOfSeq, i \in DOMAIN line
      <4> QED
        BY <4>1 DEF Byte
    <3>2. (k + 4) % 256 \in Byte
      BY DEF Byte
    <3>3. [line EXCEPT ![i] = (k + 4) % 256] \in Seq(Byte)
      BY ONLY <1>3, <3>2, ExceptSeq, i \in DOMAIN line
    <3> QED
      BY ONLY <2>2, <3>1, <3>3, Zenon DEF Stream
  <2> QED
    BY <1>2, <2>1, <2>2
<1>5. ControlTypes' /\ Kept' /\ Told'
  BY <1>1, <1>4 DEF CInv, ControlTypes, Kept, Told
<1>6. Silent'
  <2>1. line # <<>>
    BY <1>2
  <2> QED
    BY <1>1, <2>1 DEF CInv, Silent
<1>7. InStep' /\ Whole'
  BY <1>1 DEF InStep, Whole
<1> QED
  BY <1>5, <1>6, <1>7 DEF CInv

LEMMA ReceiveKeeps == ASSUME CInv, Receive PROVE CInv'
<1>1. pc \in Listens /\ line # <<>> /\ ~broken /\ UNCHANGED <<pc, early, asked, damaged>>
  BY DEF Receive
<1>2. PICK n \in 1 .. Len(line), junk \in Junk :
        LET p == Parse(buf \o SubSeq(line, 1, n))
            a == Answers(s, p.packets, junk)
        IN  /\ line' = SubSeq(line, n + 1, Len(line))
            /\ read' = read \o SubSeq(line, 1, n)
            /\ buf' = p.rest
            /\ s' = a.s /\ sent' = a.sent /\ taken' = a.taken
            /\ broken' = (p.overrun \/ pc = "opening")
  BY Zenon DEF Receive
<1>3. PICK x : x = SubSeq(line, 1, n)
  OBVIOUS
<1>4. PICK y : y = SubSeq(line, n + 1, Len(line))
  OBVIOUS
<1>5. line \in Seq(Byte) /\ Len(line) \in Nat /\ buf \in Stream /\ read \in Stream
  BY LenProperties DEF CInv, ControlTypes, Stream
<1>6. x \in Stream /\ y \in Stream /\ x \o y = line
  <2>1. /\ 1 \in 1 .. Len(line) + 1 /\ n \in 1 - 1 .. Len(line)
        /\ n + 1 \in 1 .. Len(line) + 1 /\ Len(line) \in n + 1 - 1 .. Len(line) /\ Len(line) \in n .. Len(line)
    BY <1>5
  <2>2. SubSeq(line, 1, n) \in Seq(Byte) /\ SubSeq(line, n + 1, Len(line)) \in Seq(Byte)
    BY ONLY <1>5, <2>1, SubSeqProperties
  <2>3. SubSeq(line, 1, n) \o SubSeq(line, n + 1, Len(line)) = SubSeq(line, 1, Len(line))
    BY ONLY <1>5, <2>1, ConcatAdjacentSubSeq
  <2>4. SubSeq(line, 1, Len(line)) = line
    BY ONLY <1>5, SubSeqFull
  <2> QED
    BY ONLY <1>3, <1>4, <2>2, <2>3, <2>4 DEF Stream
<1>7. PICK p : p = Parse(buf \o x) /\ p \in Result /\ buf \o x \in Stream
  BY <1>5, <1>6, Glued, ParseType
<1>8. /\ line' = y /\ read' = read \o x /\ buf' = p.rest
      /\ taken' = Answers(s, p.packets, junk).taken /\ sent' = Answers(s, p.packets, junk).sent
      /\ broken' = (p.overrun \/ pc = "opening")
  BY ONLY <1>2, <1>3, <1>4, <1>7, Zenon
<1>9. ControlTypes'
  <2>1. read \o x \in Stream
    BY <1>5, <1>6, Glued
  <2>2. broken' \in BOOLEAN /\ buf' \in Stream
    BY <1>7, <1>8 DEF Result
  <2> QED
    BY <1>1, <1>6, <1>8, <2>1, <2>2 DEF CInv, ControlTypes
<1>10. Silent'
  BY <1>1 DEF CInv, Silent, Listens, FlirLives
<1>11. Whole'
  <2>1. (read \o x) \o y = read \o (x \o y)
    <3>1. read \in Seq(Byte) /\ x \in Seq(Byte) /\ y \in Seq(Byte)
      BY <1>5, <1>6 DEF Stream
    <3> QED
      BY ONLY <3>1, ConcatAssociative
  <2>2. read' \o line' = read \o line /\ Requested' = Requested
    BY <1>1, <1>6, <1>8, <2>1 DEF Requested
  <2> QED
    BY <1>1, <2>2 DEF CInv, Whole
<1>12. CASE pc = "opening"
  <2>1. broken' /\ early
    BY <1>1, <1>8, <1>12 DEF CInv, Silent
  <2> QED
    BY <1>1, <1>9, <1>10, <1>11, <2>1 DEF CInv, Kept, Told, InStep
<1>13. CASE pc # "opening"
  <2>1. buf = Parse(read).rest /\ taken = Ours(Parse(read).packets) /\ Match(sent, taken)
    BY <1>1 DEF CInv, Kept, Told
  <2>2. p.packets \in Seq(Pkt) /\ Parse(read).packets \in Seq(Pkt)
    BY <1>5, <1>7, ParseType DEF Result
  <2>3. taken' = taken \o Ours(p.packets) /\ Match(sent', taken')
    BY <1>8, <2>1, <2>2, Answered
  <2>4. Parse(read \o x).rest = Parse(buf \o x).rest /\ Parse(read \o x).packets = Parse(read).packets \o Parse(buf \o x).packets
    BY <1>5, <1>6, <2>1, ParseGlued
  <2>5. Kept'
    <3>1. Ours(Parse(read).packets \o p.packets) = Ours(Parse(read).packets) \o Ours(p.packets)
      BY <2>2, OursGlued
    <3>2. taken' = Ours(Parse(read \o x).packets) /\ p.rest = Parse(read \o x).rest
      BY ONLY <1>7, <2>1, <2>3, <2>4, <3>1, Zenon
    <3> QED
      BY <1>8, <3>2 DEF Kept
  <2>6. Told'
    BY <2>3 DEF Told
  <2>7. ASSUME ~early, ~damaged PROVE ~broken' /\ Framed(buf' \o line')
    <3>1. Framed(buf \o line)
      BY <2>7 DEF CInv, InStep
    <3>2. buf \o line = (buf \o x) \o y
      <4>1. (buf \o x) \o y = buf \o (x \o y)
        <5>1. buf \in Seq(Byte) /\ x \in Seq(Byte) /\ y \in Seq(Byte)
          BY <1>5, <1>6 DEF Stream
        <5> QED
          BY ONLY <5>1, ConcatAssociative
      <4> QED
        BY ONLY <1>6, <4>1
    <3>3. ~p.overrun /\ Framed(p.rest \o y)
      BY <1>6, <1>7, <3>1, <3>2, ParseFramed
    <3> QED
      BY <1>8, <1>13, <3>3
  <2> QED
    BY <1>1, <1>9, <1>10, <1>11, <2>5, <2>6, <2>7 DEF CInv, InStep
<1> QED
  BY <1>12, <1>13

(* The port is the one reader of the line, in step with a device that waits. *)
THEOREM ControlInvariant == Spec => []CInv
<1>1. ASSUME CInv, [Next]_vars
      PROVE  CInv'
  <2>1. CASE Probe \/ Wait \/ Found \/ OpenControl \/ CameraStarts \/ CameraAnswers \/ ReadChunk \/ ReadFails
    <3>1. UNCHANGED <<line, buf, sent, read, taken, broken, early, asked, damaged>>
      BY <2>1 DEF Probe, Wait, Found, OpenControl, CameraStarts, CameraAnswers, ReadChunk, ReadFails, control
    <3>2. pc' = pc \/ (pc \in FlirLives /\ pc' \in FlirLives \union {"opening"})
      BY <2>1 DEF Probe, Wait, Found, OpenControl, CameraStarts, CameraAnswers, ReadChunk, ReadFails,
                  NextRate, Return, SearchAgain, FlirLives
    <3> QED
      BY <1>1, <3>1, <3>2, OthersKeep
  <2>2. CASE Construct \/ send_status \/ PortFails \/ ReaderStops \/ UNCHANGED vars
    <3>1. UNCHANGED <<line, buf, sent, read, taken, broken, early, asked, damaged>>
      BY <2>2 DEF Construct, send_status, PortFails, ReaderStops, vars, control
    <3>2. pc' = pc \/ pc' \in {"opened", "control", "dead"}
      BY <2>2 DEF Construct, send_status, PortFails, ReaderStops, vars
    <3> QED
      BY <1>1, <3>1, <3>2, OthersKeep
  <2> QED
    BY <1>1, <2>1, <2>2, AskKeeps, DamageKeeps, ReceiveKeeps DEF Next, Main, Io
<1> QED
  BY <1>1, InitCInv, PTL DEF Spec

(* A front of a sequence is a prefix of it. *)
LEMMA FrontIsPrefix ==
  ASSUME NEW a \in Seq(Pkt), NEW c \in Seq(Pkt)
  PROVE  IsPrefix(a, a \o c)
<1>1. PICK n \in Nat : n = Len(a)
  BY LenProperties
<1>2. Len(a \o c) = n + Len(c) /\ Len(c) \in Nat
  BY <1>1, ConcatProperties, LenProperties
<1>3. CASE n = 0
  <2>1. a = <<>>
    BY <1>1, <1>3, EmptySeq
  <2> QED
    BY <1>1, <1>2, <1>3 DEF IsPrefix
<1>4. CASE n # 0
  <2>1. 1 \in 1 .. Len(a) /\ n \in 1 .. Len(a)
    BY <1>1, <1>4
  <2>2. SubSeq(a \o c, 1, n) = SubSeq(a, 1, n)
    BY ONLY <2>1, a \in Seq(Pkt), c \in Seq(Pkt), SubSeqOfConcat1
  <2>3. n <= Len(a \o c)
    BY <1>2
  <2> QED
    BY <1>1, <2>2, <2>3 DEF IsPrefix
<1> QED
  BY <1>3, <1>4

(* However the bytes of the device are cut, lost or changed, every packet  *)
(* for the board in what was read is answered once, in its turn, with its  *)
(* command and to the device that asked, until a packet is copied over its *)
(* end or a device spoke before there was an m_buf; and as long as no byte *)
(* is lost or changed the packets answered are the requests themselves,    *)
(* from the first on, and all of them when nothing is left to read.        *)
THEOREM AnsweredOnceInOrder == Spec => []AnswersInOrder
<1>1. CInv => AnswersInOrder
  <2> SUFFICES ASSUME CInv, ~broken
               PROVE  /\ taken = Ours(Parse(read).packets)
                      /\ Len(sent) = Len(taken)
                      /\ \A i \in DOMAIN taken : sent[i].dst = taken[i].src /\ sent[i].cmd = AnswerTo(taken[i].cmd)
                      /\ ~damaged => /\ IsPrefix(taken, Ours(Requested))
                                     /\ line = <<>> => taken = Ours(Requested)
    BY DEF AnswersInOrder
  <2>1. taken = Ours(Parse(read).packets) /\ read \in Stream /\ line \in Stream
    BY DEF CInv, Kept, ControlTypes
  <2>2. Match(sent, taken)
    BY DEF CInv, Told
  <2>3. DOMAIN taken = 1 .. Len(taken)
    BY <2>2, LenProperties DEF Match
  <2>4. ASSUME ~damaged
        PROVE  IsPrefix(taken, Ours(Requested)) /\ (line = <<>> => taken = Ours(Requested))
    <3>1. Parse(read \o line).packets = Requested
      BY <2>4 DEF CInv, Whole
    <3>2. PICK q : q = Parse(read).packets /\ q \in Seq(Pkt)
      BY <2>1, ParseType DEF Result
    <3>3. PICK u : u = Parse(Parse(read).rest \o line).packets /\ u \in Seq(Pkt)
      BY <2>1, ParseType, ParseGlued DEF Result
    <3>4. Requested = q \o u
      BY <2>1, <3>1, <3>2, <3>3, ParseGlued
    <3>5. Ours(Requested) = taken \o Ours(u) /\ taken \in Seq(Pkt) /\ Ours(u) \in Seq(Pkt)
      BY <2>1, <3>2, <3>3, <3>4, OursGlued, OursType
    <3>6. IsPrefix(taken, Ours(Requested))
      BY <3>5, FrontIsPrefix
    <3>7. ASSUME line = <<>> PROVE taken = Ours(Requested)
      <4>1. read \o <<>> = read
        BY <2>1, ConcatEmptySeq DEF Stream
      <4> QED
        BY <2>1, <3>1, <3>7, <4>1
    <3> QED
      BY <3>6, <3>7
  <2> QED
    BY <2>1, <2>2, <2>3, <2>4 DEF Match, Fits
<1> QED
  BY <1>1, ControlInvariant, PTL

(* A device that waits until Control is constructed, and whose bytes come  *)
(* as they were sent, never makes the board write over the end of pkt_t.   *)
THEOREM NothingOverrun == Spec => []NoOverrun
<1>1. CInv => NoOverrun
  BY DEF CInv, ControlTypes, InStep, NoOverrun
<1> QED
  BY <1>1, ControlInvariant, PTL
=============================================================================
