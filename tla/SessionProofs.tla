--------------------------- MODULE SessionProofs ---------------------------
(***************************************************************************)
(* Proofs about Session and Eeprom for areas of every size, every set of   *)
(* configurations, every size of the ring, and any number of editors,      *)
(* clicks and faults.                                                      *)
(***************************************************************************)
EXTENDS Session, SequenceTheorems, FiniteSetTheorems, TLAPS

Kinds == Requests \union {"hello"}
Calls == ({"play", "stop", "open", "id", "edit"} \X {"none"})
           \union ({"ask"} \X Kinds) \union ({"put"} \X (Areas \union {"reg"}))

Handlers == [win : Windows, blocked : SUBSET Windows, todo : Seq(Calls),
             kind : Kinds \union {"none"}, got : Seq(Nat), seen : SUBSET Seq(Nat),
             clean : BOOLEAN]

(* An open port is asked at once. *)
Asks(todo) == \A n \in DOMAIN todo : todo[n] = <<"open", "none">> =>
                n < Len(todo) /\ todo[n + 1] = <<"ask", "hello">>
(* A handler that does not wait has something to do. *)
Busy(f) == f.kind = "none" => f.todo # <<>>
(* An answer to Hello is an id. *)
Fits(k, v) == k = "hello" => v # <<>> /\ v[1] \in 0 .. 255
Runs(f) == /\ Busy(f) /\ Asks(f.todo) /\ f.win \in f.blocked
           /\ f.got # <<>> => Fits(f.kind, f.got)

Messages == [cmd : Nat, kind : Areas \union {"none", "reg"}, val : Seq(0 .. 255), cam : 0 .. 3]
(* What is not a command has no command; SetID and a register have a value.*)
Sound(m) == /\ m.kind # "none" => m.cmd = 0
            /\ (m.kind = "reg" \/ m.cmd = Board.SetID) => m.val # <<>>

Replies == [kind : Kinds, val : Seq(Nat), cam : 0 .. 3]
Threads == [kind : Kinds, val : Seq(Nat)]
Cells == 0 .. hw_status_offset

UiTypes == /\ ui \in Seq(Handlers)
           /\ \A i \in DOMAIN ui : Runs(ui[i])
           /\ \A i, j \in DOMAIN ui : i < j => ui[j].win \notin ui[i].blocked
HqTypes == /\ hq \in Seq(Messages) /\ Len(hq) <= HostRing
           /\ \A i \in DOMAIN hq : Sound(hq[i])
BqTypes == bq \in Seq(Replies) /\ \A i \in DOMAIN bq : Fits(bq[i].kind, bq[i].val)
ThreadTypes == answers \in Seq(Threads) /\ \A i \in DOMAIN answers : Fits(answers[i].kind, answers[i].val)
StoreTypes == /\ bid \in 0 .. 255 /\ reg \in Nat
              /\ eeprom \in [Cells -> Nat]
              /\ stored \in [Areas -> Seq(Nat)] /\ spoilt \subseteq Areas \union {"mode"}
Types == /\ UiTypes /\ HqTypes /\ BqTypes /\ ThreadTypes /\ StoreTypes
         /\ shown \in BOOLEAN /\ connected \in BOOLEAN /\ editors \subseteq Editors
         /\ port \in BOOLEAN /\ stop \in BOOLEAN
         /\ missed \in BOOLEAN /\ refused \in BOOLEAN /\ excused \in BOOLEAN
         /\ hid \in -1 .. 255 /\ cb \in Nat /\ cbReg \in Nat

(* The last Start or Stop on the way, or else the board, agrees with the   *)
(* window.                                                                 *)
LastSwitch(q, i) == Switches(q[i]) /\ \A j \in DOMAIN q : i < j => ~Switches(q[j])
Agreed == /\ \A i \in DOMAIN hq : LastSwitch(hq, i) => (hq[i].cmd = Host.Start <=> shown)
          /\ ~HasSwitch(hq) => (stop <=> ~shown)
Agrees == ~missed => Agreed

(* The handshake of the constructor, which blocks every window; until it   *)
(* is over nothing but Hello is sent.                                      *)
Greeting == /\ Len(ui) = 1 /\ ui[1].blocked = Windows
            /\ \/ ui[1].kind = "none" /\ ui[1].todo \in {Construct, Tail(Construct)}
               \/ ui[1].kind = "hello"

(* Unless it is excused: the two know one id, which is on every message    *)
(* and in every answer to Hello.                                           *)
MessageIds == \A i \in DOMAIN hq : hq[i].cmd # Board.SetID /\ (hq[i].cmd = Host.Hello \/ hq[i].cam = bid)
ThreadIds == \A i \in DOMAIN answers : answers[i].kind = "hello" => answers[i].val = <<bid>>
ReplyIds == \A i \in DOMAIN bq : bq[i].kind = "hello" => bq[i].val = <<bid>>
HelloIds == \A i \in DOMAIN ui : ui[i].kind = "hello" /\ ui[i].got # <<>> => ui[i].got = <<bid>>
SameId == /\ ~refused /\ bid \in 0 .. 3
          /\ hid = bid \/ Greeting
          /\ MessageIds /\ ThreadIds /\ ReplyIds /\ HelloIds
OneId == ~excused => SameId

(* A handler that waits has seen what the board would answer now, and, if  *)
(* nothing was under way when it asked, everything that is.                *)
Witnesses(f) ==
  f.kind # "none" =>
    /\ Answer(f.kind, eeprom, reg, bid) \in f.seen
    /\ f.clean => /\ \A n \in DOMAIN answers : answers[n].kind = f.kind => answers[n].val \in f.seen
                  /\ \A n \in DOMAIN bq : bq[n].kind = f.kind => bq[n].val \in f.seen
                  /\ f.got # <<>> => f.got \in f.seen
Waited(f) == f.kind = "none" => f.got = <<>>
Informed == \A i \in DOMAIN ui : Witnesses(ui[i]) /\ Waited(ui[i])

(* The cells of an area that no neighbour has reached into are its size    *)
(* and its bytes.                                                          *)
Kept(k) == /\ eeprom[Offset[k]] = Len(stored[k])
           /\ \A n \in 1 .. Len(stored[k]) : eeprom[Offset[k] + n] = stored[k][n]
Stores == /\ \A k \in Areas : Len(stored[k]) <= MaxSize[k]
          /\ \A k \in Areas \ spoilt : Kept(k)
          /\ "mode" \notin spoilt => eeprom[streaming_mode_offset] = 0
          /\ eeprom[hw_status_offset] = 0

(* The inductive invariant. *)
IInv == Types /\ CallbackAlive /\ Agrees /\ OneId /\ Informed /\ Stores
-----------------------------------------------------------------------------
(* Sequences: what is left of a sequence has no new elements.              *)
Within(s, t) == \A i \in DOMAIN s : \E j \in DOMAIN t : s[i] = t[j]

LEMMA TailWithin ==
  ASSUME NEW S, NEW s \in Seq(S), s # <<>>
  PROVE  /\ Tail(s) \in Seq(S) /\ Len(Tail(s)) = Len(s) - 1
         /\ \A i \in DOMAIN Tail(s) : i + 1 \in DOMAIN s /\ Tail(s)[i] = s[i + 1]
         /\ Within(Tail(s), s)
  BY DEF Within

LEMMA FirstIn ==
  ASSUME NEW S, NEW s \in Seq(S), s # <<>>
  PROVE  s[1] \in S /\ Len(s) \in Nat \ {0} /\ 1 \in DOMAIN s
  OBVIOUS

LEMMA PrefixWithin ==
  ASSUME NEW S, NEW s \in Seq(S), NEW n \in 0 .. Len(s)
  PROVE  /\ SubSeq(s, 1, n) \in Seq(S) /\ Len(SubSeq(s, 1, n)) = n
         /\ \A i \in 1 .. n : SubSeq(s, 1, n)[i] = s[i]
         /\ Within(SubSeq(s, 1, n), s)
<1>1. SubSeq(s, 1, n) \in Seq(S) /\ Len(SubSeq(s, 1, n)) = n /\ \A i \in 1 .. n : SubSeq(s, 1, n)[i] = s[i]
  BY SubSeqProperties
<1> QED BY <1>1 DEF Within

LEMMA RemoveWithin ==
  ASSUME NEW S, NEW s \in Seq(S), NEW i \in DOMAIN s
  PROVE  RemoveAt(s, i) \in Seq(S) /\ Within(RemoveAt(s, i), s)
<1> DEFINE a == SubSeq(s, 1, i - 1)
           b == SubSeq(s, i + 1, Len(s))
<1>1. a \in Seq(S) /\ Len(a) = i - 1 /\ \A j \in 1 .. i - 1 : a[j] = s[j]
  BY SubSeqProperties
<1>2. b \in Seq(S) /\ Len(b) = Len(s) - i /\ \A j \in 1 .. Len(s) - i : b[j] = s[i + j]
  <2>1. i + 1 \in 1 .. Len(s) + 1 /\ Len(s) \in Nat /\ i \in Nat
    OBVIOUS
  <2>2. CASE i = Len(s)
    BY <2>1, <2>2, SubSeqEmpty
  <2>3. CASE i < Len(s)
    BY <2>1, <2>3, SubSeqProperties
  <2> QED BY <2>1, <2>2, <2>3
<1>3. /\ a \o b \in Seq(S) /\ Len(a \o b) = Len(a) + Len(b)
      /\ \A j \in 1 .. Len(a) + Len(b) : (a \o b)[j] = IF j <= Len(a) THEN a[j] ELSE b[j - Len(a)]
  BY <1>1, <1>2, ConcatProperties
<1>4. RemoveAt(s, i) = a \o b
  BY DEF RemoveAt
<1> HIDE DEF a, b
<1>5. \A j \in DOMAIN (a \o b) : \E l \in DOMAIN s : (a \o b)[j] = s[l]
  <2> TAKE j \in DOMAIN (a \o b)
  <2>1. i \in Nat /\ Len(s) \in Nat /\ i \in 1 .. Len(s) /\ j \in 1 .. (Len(s) - 1)
    BY <1>1, <1>2, <1>3
  <2>2. CASE j <= i - 1
    BY <1>1, <1>2, <1>3, <2>1, <2>2, SMTT(30)
  <2>3. CASE j > i - 1
    <3>1. (a \o b)[j] = b[j - (i - 1)] /\ j - (i - 1) \in 1 .. Len(s) - i
      <4>1. Len(a) = i - 1 /\ Len(b) = Len(s) - i
        BY <1>1, <1>2
      <4>2. j \in 1 .. Len(a) + Len(b) /\ ~(j <= Len(a))
        BY ONLY <4>1, <2>1, <2>3
      <4>3. (a \o b)[j] = b[j - Len(a)]
        BY ONLY <4>2, <1>3
      <4> QED BY ONLY <4>1, <4>3, <2>1, <2>3
    <3>2. (a \o b)[j] = s[i + (j - (i - 1))] /\ i + (j - (i - 1)) \in 1 .. Len(s)
      BY <1>2, <2>1, <3>1, SMTT(30)
    <3> QED BY <3>2
  <2> QED BY <2>1, <2>2, <2>3
<1> QED BY <1>3, <1>4, <1>5 DEF Within

-----------------------------------------------------------------------------
(* The handlers. *)
Programs == {todo \in Seq(Calls) : Asks(todo)}

LEMMA Concat ==
  ASSUME NEW s \in Programs, NEW t \in Programs
  PROVE  s \o t \in Programs /\ (s # <<>> => s \o t # <<>>)
<1>1. s \in Seq(Calls) /\ t \in Seq(Calls) /\ Asks(s) /\ Asks(t)
  BY DEF Programs
<1>2. /\ s \o t \in Seq(Calls) /\ Len(s \o t) = Len(s) + Len(t)
      /\ \A i \in 1 .. Len(s) + Len(t) : (s \o t)[i] = IF i <= Len(s) THEN s[i] ELSE t[i - Len(s)]
  BY <1>1, ConcatProperties
<1>3. Asks(s \o t)
  <2> SUFFICES ASSUME NEW n \in DOMAIN (s \o t), (s \o t)[n] = <<"open", "none">>
               PROVE  n < Len(s \o t) /\ (s \o t)[n + 1] = <<"ask", "hello">>
    BY DEF Asks
  <2> DEFINE u == s \o t
             o == <<"open", "none">>
             h == <<"ask", "hello">>
  <2>0. /\ Len(s) \in Nat /\ Len(t) \in Nat /\ n \in 1 .. Len(u) /\ u[n] = o
        /\ DOMAIN s = 1 .. Len(s) /\ DOMAIN t = 1 .. Len(t)
    BY <1>1, <1>2
  <2>1. /\ \A i \in DOMAIN s : s[i] = o => i < Len(s) /\ s[i + 1] = h
        /\ \A i \in DOMAIN t : t[i] = o => i < Len(t) /\ t[i + 1] = h
    BY <1>1 DEF Asks
  <2>2. Len(u) = Len(s) + Len(t) /\ \A i \in 1 .. Len(s) + Len(t) : u[i] = IF i <= Len(s) THEN s[i] ELSE t[i - Len(s)]
    BY <1>2
  <2> HIDE DEF u, o, h
  <2>3. CASE n <= Len(s)
    <3>1. s[n] = o /\ n \in DOMAIN s
      BY ONLY <2>0, <2>2, <2>3
    <3>2. n < Len(s) /\ s[n + 1] = h
      BY ONLY <3>1, <2>1
    <3>3. n + 1 \in 1 .. Len(s) + Len(t) /\ n + 1 <= Len(s)
      BY ONLY <2>0, <3>2, <2>2
    <3>4. u[n + 1] = s[n + 1]
      BY ONLY <3>3, <2>2
    <3>5. n < Len(u) /\ u[n + 1] = h
      BY ONLY <3>2, <3>4, <2>0, <2>2
    <3> QED BY ONLY <3>5 DEF u, h
  <2>4. CASE n > Len(s)
    <3> DEFINE k == n - Len(s)
    <3>1. t[k] = o /\ k \in DOMAIN t /\ k \in Nat
      BY ONLY <2>0, <2>2, <2>4
    <3>2. k < Len(t) /\ t[k + 1] = h
      BY ONLY <3>1, <2>1
    <3>3. n + 1 \in 1 .. Len(s) + Len(t) /\ ~(n + 1 <= Len(s)) /\ (n + 1) - Len(s) = k + 1 /\ n < Len(u)
      BY ONLY <2>0, <2>2, <2>4, <3>2
    <3>4. u[n + 1] = t[(n + 1) - Len(s)]
      BY ONLY <3>3, <2>2
    <3>5. n < Len(u) /\ u[n + 1] = h
      BY ONLY <3>2, <3>3, <3>4
    <3> QED BY ONLY <3>5 DEF u, h
  <2> QED BY ONLY <2>0, <2>3, <2>4
<1>4. s # <<>> => s \o t # <<>>
  BY <1>1, <1>2
<1> QED BY <1>2, <1>3, <1>4 DEF Programs

LEMMA Literals ==
  /\ PlayVideo \in Programs /\ StopVideo \in Programs /\ tryConnect \in Programs
  /\ setShowThresholds \in Programs /\ DownloadROI \in Programs /\ UploadROI \in Programs
  /\ CameraID \in Programs /\ About \in Programs /\ editCfg \in Programs /\ downloadCfg \in Programs
  /\ uploadCfg \in Programs /\ ApplyDetectorSettings \in Programs /\ getRegister \in Programs
  /\ <<>> \in Programs /\ <<<<"ask", "md">>>> \in Programs /\ <<<<"put", "md">>>> \in Programs
<1>1. /\ <<"play", "none">> \in Calls /\ <<"stop", "none">> \in Calls /\ <<"open", "none">> \in Calls
      /\ <<"id", "none">> \in Calls /\ <<"edit", "none">> \in Calls
      /\ <<"ask", "hello">> \in Calls /\ <<"ask", "md">> \in Calls /\ <<"ask", "roi">> \in Calls
      /\ <<"ask", "version">> \in Calls /\ <<"ask", "enc">> \in Calls /\ <<"ask", "reg">> \in Calls
      /\ <<"put", "md">> \in Calls /\ <<"put", "roi">> \in Calls /\ <<"put", "enc">> \in Calls /\ <<"put", "reg">> \in Calls
  BY DEF Calls, Kinds, Requests, Areas
<1>2. ASSUME NEW x \in Calls, x # <<"open", "none">>
      PROVE  <<x>> \in Programs
  BY <1>2 DEF Programs, Asks
<1>3. ASSUME NEW x \in Calls, NEW y \in Calls, x # <<"open", "none">>, y # <<"open", "none">>
      PROVE  <<x, y>> \in Programs
  BY <1>3 DEF Programs, Asks
<1>4. ASSUME NEW x \in Calls, NEW y \in Calls, NEW z \in Calls,
             x # <<"open", "none">>, y # <<"open", "none">>, z # <<"open", "none">>
      PROVE  <<x, y, z>> \in Programs
  BY <1>4 DEF Programs, Asks
<1>5. <<<<"open", "none">>, <<"ask", "hello">>>> \in Programs
  <2> DEFINE o == <<"open", "none">>
             h == <<"ask", "hello">>
  <2>1. o \in Calls /\ h \in Calls /\ o # h
    BY <1>1
  <2> HIDE DEF o, h
  <2>2. <<o, h>> \in Seq(Calls) /\ \A n \in DOMAIN <<o, h>> : <<o, h>>[n] = o => n < Len(<<o, h>>) /\ <<o, h>>[n + 1] = h
    BY <2>1
  <2> QED BY <2>2 DEF Programs, Asks, o, h
<1>6. <<>> \in Programs
  BY DEF Programs, Asks
<1> QED BY <1>1, <1>2, <1>3, <1>4, <1>5, <1>6
        DEF PlayVideo, StopVideo, tryConnect, setShowThresholds, DownloadROI, UploadROI, CameraID, About, editCfg,
            downloadCfg, uploadCfg, ApplyDetectorSettings, getRegister

LEMMA Buttons ==
  ASSUME NEW h, h \in MainHandlers \union EditDetectorSettings \union {Connect, Construct, About, downloadCfg, uploadCfg, getRegister, setRegister}
  PROVE  h \in Programs /\ h # <<>>
<1>1. \A h1, h2 \in Programs : h1 # <<>> => h1 \o h2 \in Programs /\ h1 \o h2 # <<>>
  BY Concat
<1>2. Construct \in Programs /\ Construct # <<>> /\ Connect \in Programs /\ Connect # <<>>
  <2>1. tryConnect # <<>> /\ StopVideo # <<>>
    BY DEF tryConnect, StopVideo
  <2> HIDE DEF tryConnect, StopVideo
  <2>2. tryConnect \o setShowThresholds \in Programs /\ tryConnect \o setShowThresholds # <<>>
    BY <1>1, <2>1, Literals
  <2> QED BY <1>1, <2>1, <2>2, Literals DEF Construct, Connect
<1>3. ASSUME h \in EditDetectorSettings
      PROVE  h \in Programs /\ h # <<>>
  <2> DEFINE st == <<<<"stop", "none">>>>
  <2>1. PICK load \in {<<>>, <<<<"ask", "md">>>>}, store \in {<<>>, <<<<"put", "md">>>>} :
          h = st \o load \o store \o PlayVideo
    BY <1>3 DEF EditDetectorSettings
  <2>2. st \in Programs /\ st # <<>> /\ load \in Programs /\ store \in Programs /\ PlayVideo \in Programs
    BY <2>1, Literals DEF StopVideo
  <2> HIDE DEF st
  <2>3. st \o load \in Programs /\ st \o load # <<>>
    BY <2>2, <1>1
  <2>4. (st \o load) \o store \in Programs /\ (st \o load) \o store # <<>>
    BY <2>2, <2>3, <1>1
  <2> QED BY <2>1, <2>2, <2>4, <1>1
<1>4. ASSUME h \notin EditDetectorSettings, h # Construct, h # Connect
      PROVE  h \in Programs /\ h # <<>>
  <2>1. /\ PlayVideo # <<>> /\ StopVideo # <<>> /\ setShowThresholds # <<>> /\ DownloadROI # <<>> /\ UploadROI # <<>>
        /\ CameraID # <<>> /\ About # <<>> /\ editCfg # <<>> /\ downloadCfg # <<>> /\ uploadCfg # <<>>
        /\ ApplyDetectorSettings # <<>> /\ getRegister # <<>>
    BY DEF PlayVideo, StopVideo, setShowThresholds, DownloadROI, UploadROI, CameraID, About,
           editCfg, downloadCfg, uploadCfg, ApplyDetectorSettings, getRegister
  <2> QED BY ZenonT(30), <1>4, <2>1, Literals DEF MainHandlers, setRegister
<1> QED BY <1>2, <1>3, <1>4

LEMMA NewHandler ==
  ASSUME NEW w \in Windows, NEW b \in SUBSET Windows, w \in b, NEW h \in Programs, h # <<>>
  PROVE  /\ Handler(w, b, h) \in Handlers /\ Runs(Handler(w, b, h))
         /\ Handler(w, b, h).win = w /\ Handler(w, b, h).blocked = b /\ Handler(w, b, h).todo = h
         /\ Handler(w, b, h).kind = "none" /\ Handler(w, b, h).got = <<>>
<1>1. h \in Seq(Calls) /\ Asks(h)
  BY DEF Programs
<1> DEFINE f == Handler(w, b, h)
<1>2. /\ f.win = w /\ f.blocked = b /\ f.todo = h /\ f.kind = "none" /\ f.got = <<>> /\ f \in Handlers
  <2>1. <<>> \in Seq(Nat) /\ {} \in SUBSET Seq(Nat)
    OBVIOUS
  <2> QED BY <1>1, <2>1 DEF Handler, Handlers
<1> HIDE DEF f
<1>3. Runs(f)
  BY <1>1, <1>2 DEF Runs, Busy
<1> QED BY <1>2, <1>3 DEF f

LEMMA ClicksRun ==
  ASSUME NEW f \in Clicks, editors \subseteq Editors
  PROVE  f \in Handlers /\ Runs(f) /\ f.kind = "none" /\ f.got = <<>>
<1>1. \E w \in Windows, b \in SUBSET Windows, h \in Programs : w \in b /\ h # <<>> /\ f = Handler(w, b, h)
  <2> DEFINE All == MainHandlers \union EditDetectorSettings \union {Connect, Construct, About, downloadCfg, uploadCfg, getRegister, setRegister}
  <2>1. \E w \in Windows, b \in SUBSET Windows, h \in All : w \in b /\ f = Handler(w, b, h)
    <3>1. CASE \E e \in editors, h \in {downloadCfg, uploadCfg} : f = Handler(e, {e}, h)
      BY <3>1 DEF Windows
    <3>2. CASE ~\E e \in editors, h \in {downloadCfg, uploadCfg} : f = Handler(e, {e}, h)
      <4>1. \/ f \in {Handler("main", {"main"}, h) : h \in IF connected THEN MainHandlers ELSE {Connect}}
            \/ f = Handler("main", {"main"}, About)
            \/ f \in IF connected THEN {Handler("main", Windows, h) : h \in EditDetectorSettings} ELSE {}
            \/ f \in IF connected THEN {Handler("registers", Windows, h) : h \in {getRegister, setRegister}} ELSE {}
        BY <3>2 DEF Clicks
      <4>2. CASE \E h \in All : f = Handler("main", {"main"}, h) \/ f = Handler("main", Windows, h)
                                  \/ f = Handler("registers", Windows, h)
        BY <4>2 DEF Windows
      <4>3. ASSUME f \in {Handler("main", {"main"}, h) : h \in IF connected THEN MainHandlers ELSE {Connect}}
            PROVE  \E h \in All : f = Handler("main", {"main"}, h)
        BY <4>3
      <4>4. ASSUME f \in IF connected THEN {Handler("main", Windows, h) : h \in EditDetectorSettings} ELSE {}
            PROVE  \E h \in All : f = Handler("main", Windows, h)
        BY <4>4
      <4>5. ASSUME f \in IF connected THEN {Handler("registers", Windows, h) : h \in {getRegister, setRegister}} ELSE {}
            PROVE  \E h \in All : f = Handler("registers", Windows, h)
        BY <4>5
      <4> QED BY <4>1, <4>2, <4>3, <4>4, <4>5
    <3> QED BY <3>1, <3>2
  <2> QED BY <2>1, Buttons
<1> QED BY <1>1, NewHandler

-----------------------------------------------------------------------------
(* The stack of handlers. *)
LEMMA FieldTypes ==
  ASSUME NEW f \in Handlers
  PROVE  /\ f.win \in Windows /\ f.blocked \in SUBSET Windows /\ f.todo \in Seq(Calls)
         /\ f.kind \in Kinds \union {"none"} /\ f.got \in Seq(Nat) /\ f.seen \in SUBSET Seq(Nat)
         /\ f.clean \in BOOLEAN
  BY DEF Handlers

LEMMA RecordSet ==
  ASSUME NEW W, NEW B, NEW T, NEW K, NEW G, NEW S,
         NEW H, H = [win : W, blocked : B, todo : T, kind : K, got : G, seen : S, clean : BOOLEAN], NEW f \in H
  PROVE  /\ \A t \in T : LET g == [f EXCEPT !.todo = t] IN
              g \in H /\ g.win = f.win /\ g.blocked = f.blocked /\ g.todo = t /\ g.kind = f.kind
              /\ g.got = f.got /\ g.seen = f.seen /\ g.clean = f.clean
         /\ \A v \in G : LET g == [f EXCEPT !.got = v] IN
              g \in H /\ g.win = f.win /\ g.blocked = f.blocked /\ g.todo = f.todo /\ g.kind = f.kind
              /\ g.got = v /\ g.seen = f.seen /\ g.clean = f.clean
         /\ \A s \in S : LET g == [f EXCEPT !.seen = s] IN
              g \in H /\ g.win = f.win /\ g.blocked = f.blocked /\ g.todo = f.todo /\ g.kind = f.kind
              /\ g.got = f.got /\ g.seen = s /\ g.clean = f.clean
         /\ \A t \in T, k \in K, v \in G, s \in S, c \in BOOLEAN :
              LET g == [f EXCEPT !.todo = t, !.kind = k, !.got = v, !.seen = s, !.clean = c] IN
              g \in H /\ g.win = f.win /\ g.blocked = f.blocked /\ g.todo = t /\ g.kind = k
              /\ g.got = v /\ g.seen = s /\ g.clean = c
         /\ \A k \in K, v \in G, s \in S, c \in BOOLEAN :
              LET g == [f EXCEPT !.kind = k, !.got = v, !.seen = s, !.clean = c] IN
              g \in H /\ g.win = f.win /\ g.blocked = f.blocked /\ g.todo = f.todo /\ g.kind = k
              /\ g.got = v /\ g.seen = s /\ g.clean = c
<1>1. \A t \in T : LET g == [f EXCEPT !.todo = t] IN
              g \in H /\ g.win = f.win /\ g.blocked = f.blocked /\ g.todo = t /\ g.kind = f.kind
              /\ g.got = f.got /\ g.seen = f.seen /\ g.clean = f.clean
  OBVIOUS
<1>2. \A v \in G : LET g == [f EXCEPT !.got = v] IN
              g \in H /\ g.win = f.win /\ g.blocked = f.blocked /\ g.todo = f.todo /\ g.kind = f.kind
              /\ g.got = v /\ g.seen = f.seen /\ g.clean = f.clean
  OBVIOUS
<1>3. \A s \in S : LET g == [f EXCEPT !.seen = s] IN
              g \in H /\ g.win = f.win /\ g.blocked = f.blocked /\ g.todo = f.todo /\ g.kind = f.kind
              /\ g.got = f.got /\ g.seen = s /\ g.clean = f.clean
  OBVIOUS
<1>4. \A t \in T, k \in K, v \in G, s \in S, c \in BOOLEAN :
        LET g == [f EXCEPT !.todo = t, !.kind = k, !.got = v, !.seen = s, !.clean = c] IN
        g \in H /\ g.win = f.win /\ g.blocked = f.blocked /\ g.todo = t /\ g.kind = k
        /\ g.got = v /\ g.seen = s /\ g.clean = c
  <2> TAKE t \in T, k \in K, v \in G, s \in S, c \in BOOLEAN
  <2> DEFINE g == [f EXCEPT !.todo = t, !.kind = k, !.got = v, !.seen = s, !.clean = c]
  <2>1. g \in H
    OBVIOUS
  <2>2. g.win = f.win /\ g.blocked = f.blocked /\ g.todo = t /\ g.kind = k /\ g.got = v
    OBVIOUS
  <2>3. g.seen = s /\ g.clean = c
    OBVIOUS
  <2> QED BY <2>1, <2>2, <2>3, Zenon
<1>5. \A k \in K, v \in G, s \in S, c \in BOOLEAN :
        LET g == [f EXCEPT !.kind = k, !.got = v, !.seen = s, !.clean = c] IN
        g \in H /\ g.win = f.win /\ g.blocked = f.blocked /\ g.todo = f.todo /\ g.kind = k
        /\ g.got = v /\ g.seen = s /\ g.clean = c
  <2> TAKE k \in K, v \in G, s \in S, c \in BOOLEAN
  <2> DEFINE g == [f EXCEPT !.kind = k, !.got = v, !.seen = s, !.clean = c]
  <2>1. g \in H
    OBVIOUS
  <2>2. g.win = f.win /\ g.blocked = f.blocked /\ g.todo = f.todo /\ g.kind = k /\ g.got = v
    OBVIOUS
  <2>3. g.seen = s /\ g.clean = c
    OBVIOUS
  <2> QED BY <2>1, <2>2, <2>3, Zenon
<1> QED BY ONLY <1>1, <1>2, <1>3, <1>4, <1>5, Zenon

LEMMA HandlersAre ==
  /\ Handlers = [win : Windows, blocked : SUBSET Windows, todo : Seq(Calls),
                 kind : Kinds \union {"none"}, got : Seq(Nat), seen : SUBSET Seq(Nat), clean : BOOLEAN]
  /\ <<>> \in Seq(Nat) /\ {} \in SUBSET Seq(Nat) /\ TRUE \in BOOLEAN /\ "none" \in Kinds \union {"none"}
  /\ \A k \in Kinds : k \in Kinds \union {"none"}
<1>1. <<>> \in Seq(Nat) /\ {} \in SUBSET Seq(Nat) /\ TRUE \in BOOLEAN /\ "none" \in Kinds \union {"none"}
  OBVIOUS
<1> QED BY <1>1, Zenon DEF Handlers

LEMMA TodoSet ==
  ASSUME NEW f \in Handlers
  PROVE  \A t \in Seq(Calls) : LET g == [f EXCEPT !.todo = t] IN
              g \in Handlers /\ g.win = f.win /\ g.blocked = f.blocked /\ g.todo = t /\ g.kind = f.kind
              /\ g.got = f.got /\ g.seen = f.seen /\ g.clean = f.clean
BY ONLY HandlersAre, f \in Handlers, RecordSet, ZenonT(60)

LEMMA GotSet ==
  ASSUME NEW f \in Handlers
  PROVE  \A v \in Seq(Nat) : LET g == [f EXCEPT !.got = v] IN
              g \in Handlers /\ g.win = f.win /\ g.blocked = f.blocked /\ g.todo = f.todo /\ g.kind = f.kind
              /\ g.got = v /\ g.seen = f.seen /\ g.clean = f.clean
BY ONLY HandlersAre, f \in Handlers, RecordSet, ZenonT(60)

LEMMA SeenSet ==
  ASSUME NEW f \in Handlers
  PROVE  \A s \in SUBSET Seq(Nat) : LET g == [f EXCEPT !.seen = s] IN
              g \in Handlers /\ g.win = f.win /\ g.blocked = f.blocked /\ g.todo = f.todo /\ g.kind = f.kind
              /\ g.got = f.got /\ g.seen = s /\ g.clean = f.clean
BY ONLY HandlersAre, f \in Handlers, RecordSet, ZenonT(60)

LEMMA RecordAsked ==
  ASSUME NEW W, NEW B, NEW T, NEW K, NEW G, NEW S, NEW C,
         NEW H, H = [win : W, blocked : B, todo : T, kind : K, got : G, seen : S, clean : C],
         NEW f \in H, NEW t \in T, NEW k \in K, NEW v \in G, NEW s \in S, NEW c \in C,
         NEW g, g = [f EXCEPT !.todo = t, !.kind = k, !.got = v, !.seen = s, !.clean = c]
  PROVE  /\ g \in H /\ g.win = f.win /\ g.blocked = f.blocked /\ g.todo = t /\ g.kind = k
         /\ g.got = v /\ g.seen = s /\ g.clean = c
<1>1. g \in H
  OBVIOUS
<1>2. g.win = f.win /\ g.blocked = f.blocked /\ g.todo = t /\ g.kind = k /\ g.got = v
  OBVIOUS
<1>3. g.seen = s /\ g.clean = c
  OBVIOUS
<1> QED BY <1>1, <1>2, <1>3

LEMMA ForgetSet ==
  ASSUME NEW f \in Handlers
  PROVE  LET g == [f EXCEPT !.kind = "none", !.got = <<>>, !.seen = {}, !.clean = TRUE] IN
              g \in Handlers /\ g.win = f.win /\ g.blocked = f.blocked /\ g.todo = f.todo /\ g.kind = "none"
              /\ g.got = <<>>
BY ONLY HandlersAre, f \in Handlers, RecordSet, ZenonT(60)

LEMMA TopIs ==
  ASSUME UiTypes, ui # <<>>
  PROVE  Len(ui) \in DOMAIN ui /\ Len(ui) \in Nat /\ Top = ui[Len(ui)] /\ Top \in Handlers /\ Runs(Top)
  BY DEF UiTypes, Top

LEMMA ContinueIs ==
  ASSUME ui \in Seq(Handlers), ui # <<>>, NEW f \in Handlers, Continue(f)
  PROVE  /\ ui' \in Seq(Handlers) /\ Len(ui') \in {Len(ui) - 1, Len(ui)}
         /\ \A i \in DOMAIN ui' : i < Len(ui) => ui'[i] = ui[i]
         /\ Len(ui') = Len(ui) => ui'[Len(ui)] = f /\ Busy(f)
         /\ f.kind # "none" => Len(ui') = Len(ui)
<1> DEFINE front == Front(ui)
<1>1. /\ Len(ui) \in Nat \ {0} /\ front \in Seq(Handlers) /\ Len(front) = Len(ui) - 1
      /\ \A i \in 1 .. Len(ui) - 1 : front[i] = ui[i]
  <2>1. Len(ui) - 1 \in 0 .. Len(ui) /\ Len(ui) \in Nat \ {0}
    OBVIOUS
  <2> QED BY <2>1, PrefixWithin DEF Front
<1> HIDE DEF front
<1>2. CASE f.todo = <<>> /\ f.kind = "none"
  <2>1. ui' = front
    BY <1>2 DEF Continue, front
  <2> QED BY <1>1, <1>2, <2>1
<1>3. CASE ~(f.todo = <<>> /\ f.kind = "none")
  <2>1. ui' = Append(front, f)
    BY <1>3 DEF Continue, front
  <2> QED BY <1>1, <1>3, <2>1 DEF Busy
<1> QED BY <1>2, <1>3

LEMMA UiContinue ==
  ASSUME UiTypes, ui # <<>>, NEW f \in Handlers, Continue(f),
         f.win = Top.win, f.blocked = Top.blocked, Asks(f.todo), f.got # <<>> => Fits(f.kind, f.got)
  PROVE  UiTypes'
<1>1. ui \in Seq(Handlers) /\ Len(ui) \in DOMAIN ui /\ Len(ui) \in Nat \ {0} /\ Top = ui[Len(ui)]
  BY TopIs DEF UiTypes
<1>2. /\ ui' \in Seq(Handlers) /\ Len(ui') \in {Len(ui) - 1, Len(ui)}
      /\ \A i \in DOMAIN ui' : i < Len(ui) => ui'[i] = ui[i]
      /\ Len(ui') = Len(ui) => ui'[Len(ui)] = f /\ Busy(f)
  BY <1>1, ContinueIs
<1>3. \A i \in DOMAIN ui' : i \in DOMAIN ui /\ ui'[i].win = ui[i].win /\ ui'[i].blocked = ui[i].blocked
  BY <1>1, <1>2
<1>4. \A i \in DOMAIN ui' : Runs(ui'[i])
  <2> TAKE i \in DOMAIN ui'
  <2>1. CASE i < Len(ui)
    BY <1>1, <1>2, <2>1 DEF UiTypes
  <2>2. CASE i = Len(ui)
    <3>1. ui'[i] = f /\ Busy(f)
      BY <1>1, <1>2, <2>2
    <3>2. Runs(Top)
      BY TopIs
    <3> QED BY <3>1, <3>2 DEF Runs
  <2> QED BY <1>1, <1>2, <2>1, <2>2
<1>5. \A i, j \in DOMAIN ui' : i < j => ui'[j].win \notin ui'[i].blocked
  BY <1>3 DEF UiTypes
<1> QED BY <1>2, <1>4, <1>5 DEF UiTypes

(* A handler that makes a call. *)
LEMMA NextCall ==
  ASSUME UiTypes, NEW what, Doing(what)
  PROVE  /\ ui # <<>> /\ Top \in Handlers /\ Top.kind = "none" /\ Top.todo # <<>>
         /\ Head(Top.todo) \in Calls /\ Head(Top.todo)[1] = what
         /\ Tail(Top.todo) \in Seq(Calls) /\ Asks(Tail(Top.todo))
         /\ what = "open" => /\ Head(Top.todo) = <<"open", "none">> /\ Tail(Top.todo) # <<>>
                             /\ Tail(Tail(Top.todo)) \in Seq(Calls) /\ Asks(Tail(Tail(Top.todo)))
                             /\ Head(Tail(Top.todo)) = <<"ask", "hello">>
<1> DEFINE t == Top.todo
<1>1. ui # <<>> /\ Top \in Handlers /\ Top.kind = "none" /\ Runs(Top) /\ Head(t)[1] = what
  BY TopIs DEF Doing
<1>2. t \in Seq(Calls) /\ t # <<>> /\ Asks(t)
  BY <1>1, FieldTypes DEF Runs, Busy
<1> HIDE DEF t
<1>3. Head(t) \in Calls /\ Head(t) = t[1] /\ Tail(t) \in Seq(Calls)
  BY <1>2
<1>4. ASSUME NEW s \in Seq(Calls), s # <<>>, Asks(s)
      PROVE  Asks(Tail(s))
  <2>1. Len(s) \in Nat /\ Len(Tail(s)) = Len(s) - 1 /\ \A i \in DOMAIN Tail(s) : i + 1 \in DOMAIN s /\ Tail(s)[i] = s[i + 1]
    BY <1>4, TailWithin
  <2>2. \A n \in DOMAIN s : s[n] = <<"open", "none">> => n < Len(s) /\ s[n + 1] = <<"ask", "hello">>
    BY <1>4 DEF Asks
  <2> SUFFICES ASSUME NEW n \in DOMAIN Tail(s), Tail(s)[n] = <<"open", "none">>
               PROVE  n < Len(Tail(s)) /\ Tail(s)[n + 1] = <<"ask", "hello">>
    BY DEF Asks
  <2>3. n \in Nat /\ DOMAIN Tail(s) = 1 .. Len(s) - 1 /\ n + 1 < Len(s) /\ s[(n + 1) + 1] = <<"ask", "hello">>
    <3>1. DOMAIN Tail(s) = 1 .. Len(s) - 1 /\ n \in Nat
      BY <1>4, <2>1
    <3>2. n + 1 \in DOMAIN s /\ s[n + 1] = <<"open", "none">>
      BY ONLY <2>1, Tail(s)[n] = <<"open", "none">>, n \in DOMAIN Tail(s)
    <3> QED BY ONLY <3>1, <3>2, <2>2
  <2>4. n + 1 \in DOMAIN Tail(s)
    BY ONLY <2>1, <2>3
  <2> QED BY ONLY <2>1, <2>3, <2>4
<1>5. ASSUME what = "open"
      PROVE  /\ Head(t) = <<"open", "none">> /\ Tail(t) # <<>>
             /\ Tail(Tail(t)) \in Seq(Calls) /\ Asks(Tail(Tail(t))) /\ Head(Tail(t)) = <<"ask", "hello">>
  <2>1. Head(t) = <<"open", "none">>
    BY <1>1, <1>3, <1>5 DEF Calls, t
  <2>2. 1 < Len(t) /\ t[2] = <<"ask", "hello">>
    <3>1. 1 \in DOMAIN t /\ t[1] = <<"open", "none">>
      BY <1>2, <1>3, <2>1
    <3>2. \A n \in DOMAIN t : t[n] = <<"open", "none">> => n < Len(t) /\ t[n + 1] = <<"ask", "hello">>
      BY <1>2 DEF Asks
    <3>3. 1 < Len(t) /\ t[1 + 1] = <<"ask", "hello">>
      BY ONLY <3>1, <3>2
    <3> QED BY ONLY <3>3
  <2>3. Tail(t) # <<>> /\ Head(Tail(t)) = t[2]
    <3>1. /\ Len(Tail(t)) = Len(t) - 1 /\ Tail(t) \in Seq(Calls) /\ Len(t) \in Nat
          /\ \A i \in DOMAIN Tail(t) : Tail(t)[i] = t[i + 1]
      BY <1>2, TailWithin
    <3>2. 1 \in DOMAIN Tail(t) /\ Head(Tail(t)) = Tail(t)[1]
      BY <2>2, <3>1
    <3>3. Tail(t)[1] = t[1 + 1]
      BY ONLY <3>1, <3>2
    <3>4. Tail(t) # <<>>
      <4>1. \A u \in Seq(Calls) : u = <<>> => Len(u) = 0
        OBVIOUS
      <4>2. PICK u \in Seq(Calls) : u = Tail(t)
        BY <3>1
      <4>3. Len(u) = Len(t) - 1
        BY ONLY <3>1, <4>2, Zenon
      <4>4. Len(u) # 0 /\ u # <<>>
        BY ONLY <3>1, <4>3, <2>2, <4>1, u \in Seq(Calls)
      <4> QED BY ONLY <4>2, <4>4, Zenon
    <3> QED BY ONLY <3>2, <3>3, <3>4, 1 + 1 = 2
  <2>4. Tail(Tail(t)) \in Seq(Calls) /\ Asks(Tail(Tail(t)))
    <3>1. Asks(Tail(t))
      BY ONLY <1>2, <1>4
    <3>2. Asks(Tail(Tail(t)))
      BY ONLY <1>3, <1>4, <2>3, <3>1
    <3> QED BY <1>3, <2>3, <3>2, TailWithin
  <2> QED BY <2>1, <2>2, <2>3, <2>4
<1> QED BY <1>1, <1>2, <1>3, <1>4, <1>5 DEF t

LEMMA ProceedIs ==
  ASSUME UiTypes, NEW what, Doing(what), Proceed
  PROVE  /\ UiTypes' /\ Len(ui') \in {Len(ui) - 1, Len(ui)}
         /\ \A i \in DOMAIN ui' : i < Len(ui) => ui'[i] = ui[i]
         /\ Len(ui') = Len(ui) => /\ ui'[Len(ui)].kind = "none" /\ ui'[Len(ui)].got = Top.got
                                  /\ ui'[Len(ui)].todo = Tail(Top.todo) /\ ui'[Len(ui)].blocked = Top.blocked
<1> DEFINE f == [Top EXCEPT !.todo = Tail(@)]
<1>1. /\ ui # <<>> /\ Top \in Handlers /\ Top.kind = "none" /\ Tail(Top.todo) \in Seq(Calls) /\ Asks(Tail(Top.todo))
      /\ Runs(Top)
  BY NextCall, TopIs
<1>2. /\ f \in Handlers /\ f.win = Top.win /\ f.blocked = Top.blocked /\ f.todo = Tail(Top.todo)
      /\ f.kind = Top.kind /\ f.got = Top.got
  <2>1. LET g == [Top EXCEPT !.todo = Tail(Top.todo)] IN
          g \in Handlers /\ g.win = Top.win /\ g.blocked = Top.blocked /\ g.todo = Tail(Top.todo)
          /\ g.kind = Top.kind /\ g.got = Top.got
    <3>1. ASSUME NEW x \in Handlers, NEW t \in Seq(Calls)
          PROVE  LET g == [x EXCEPT !.todo = t] IN
            g \in Handlers /\ g.win = x.win /\ g.blocked = x.blocked /\ g.todo = t /\ g.kind = x.kind /\ g.got = x.got
      BY ONLY TodoSet, x \in Handlers, t \in Seq(Calls), ZenonT(30)
    <3> QED BY ONLY <1>1, <3>1
  <2> QED BY <2>1
<1>3. Continue(f)
  BY DEF Proceed
<1> HIDE DEF f
<1>4. UiTypes'
  BY <1>1, <1>2, <1>3, UiContinue DEF Runs
<1> QED BY <1>1, <1>2, <1>3, <1>4, ContinueIs DEF UiTypes

-----------------------------------------------------------------------------
(* The line to the board. *)
LEMMA MessageIs ==
  ASSUME hid \in Int, NEW c \in Nat, NEW k \in Areas \union {"none", "reg"}, NEW v \in Seq(0 .. 255)
  PROVE  /\ Message(c, k, v) \in Messages
         /\ Message(c, k, v).cmd = c /\ Message(c, k, v).kind = k /\ Message(c, k, v).val = v
         /\ Message(c, k, v).cam = hid % 4
<1>1. hid % 4 \in 0 .. 3
  OBVIOUS
<1> QED BY <1>1 DEF Message, Messages

LEMMA Transmitted ==
  ASSUME HqTypes, hid \in Int, NEW c \in Nat, NEW k \in Areas \union {"none", "reg"}, NEW v \in Seq(0 .. 255),
         k # "none" => c = 0, (k = "reg" \/ c = Board.SetID) => v # <<>>,
         Transmit(c, k, v)
  PROVE  /\ HqTypes' /\ Len(hq') = Len(hq) + 1 /\ Len(hq) \in Nat
         /\ \A i \in DOMAIN hq : hq'[i] = hq[i]
         /\ hq'[Len(hq) + 1] = Message(c, k, v)
<1> DEFINE m == Message(c, k, v)
<1>0. /\ Message(c, k, v) \in Messages
      /\ Message(c, k, v).cmd = c /\ Message(c, k, v).kind = k /\ Message(c, k, v).val = v
  BY ONLY hid \in Int, c \in Nat, k \in Areas \union {"none", "reg"}, v \in Seq(0 .. 255), MessageIs
<1>1. m \in Messages /\ m.cmd = c /\ m.kind = k /\ m.val = v
  BY <1>0
<1>2. hq' = Append(hq, m) /\ Len(hq) < HostRing /\ HostRing \in Nat
  BY SessionAssumption DEF Transmit
<1>3. Sound(m)
  BY <1>1 DEF Sound
<1> HIDE DEF m
<1>4. /\ hq' \in Seq(Messages) /\ Len(hq') = Len(hq) + 1 /\ Len(hq) \in Nat
      /\ \A i \in DOMAIN hq : hq'[i] = hq[i]
      /\ hq'[Len(hq) + 1] = m
  BY <1>1, <1>2 DEF HqTypes
<1>5. \A i \in DOMAIN hq' : Sound(hq'[i])
  <2> TAKE i \in DOMAIN hq'
  <2>1. CASE i = Len(hq) + 1
    BY <1>3, <1>4, <2>1
  <2>2. CASE i # Len(hq) + 1
    <3>1. i \in DOMAIN hq
      BY <1>4, <2>2 DEF HqTypes
    <3> QED BY <1>4, <3>1 DEF HqTypes
  <2> QED BY <2>1, <2>2
<1>6. HqTypes'
  BY <1>2, <1>4, <1>5 DEF HqTypes
<1> QED BY <1>4, <1>6 DEF m

(* The commands: the same number on both sides, except SetID. *)
LEMMA Commands ==
  /\ \A k \in Requests : Host[k] \in 4 .. 8 /\ Board[k] = Host[k]
  /\ Host.Hello = 1 /\ Host.Start = 2 /\ Host.Stop = 3 /\ Host.SetID = 9
  /\ Board.Hello = 1 /\ Board.Start = 2 /\ Board.Stop = 3 /\ Board.SetID = 10
  /\ \A k \in Requests, l \in Requests : Host[k] = Host[l] => k = l
  BY DEF Host, Board, Requests

-----------------------------------------------------------------------------
(* The store. *)
LEMMA Layout ==
  /\ \A k \in Areas : /\ Offset[k] \in Nat \ {0} /\ MaxSize[k] \in Nat \ {0, 1}
                      /\ Offset[k] + MaxSize[k] <= streaming_mode_offset
  /\ Offset["md"] = 1 /\ Offset["enc"] = Offset["md"] + MaxSize["md"]
  /\ Offset["roi"] = Offset["enc"] + MaxSize["enc"]
  /\ streaming_mode_offset = Offset["roi"] + MaxSize["roi"]
  /\ streaming_mode_offset \in Nat /\ hw_status_offset = streaming_mode_offset + 1
  /\ cam_id_config_offset = 0
  /\ Areas = {"md", "enc", "roi"}
<1>1. MdSize \in Nat \ {0, 1} /\ EncSize \in Nat \ {0, 1} /\ RoiSize \in Nat \ {0, 1}
  BY EepromAssumption
<1>2. /\ Offset["md"] = 1 /\ Offset["enc"] = 1 + MdSize /\ Offset["roi"] = 1 + MdSize + EncSize
      /\ MaxSize["md"] = MdSize /\ MaxSize["enc"] = EncSize /\ MaxSize["roi"] = RoiSize
      /\ streaming_mode_offset = 1 + MdSize + EncSize + RoiSize
      /\ hw_status_offset = streaming_mode_offset + 1 /\ cam_id_config_offset = 0
      /\ Areas = {"md", "enc", "roi"}
  BY DEF Offset, MaxSize, streaming_mode_offset, hw_status_offset, cam_id_config_offset, Areas
<1> QED BY <1>1, <1>2

LEMMA WriteIs ==
  ASSUME NEW e \in [Cells -> Nat], NEW at \in Nat, NEW c \in Seq(Nat)
  PROVE  /\ Write(e, at, c) \in [Cells -> Nat]
         /\ \A a \in Cells : a \in at .. at + Len(c) - 1 => Write(e, at, c)[a] = c[a - at + 1]
         /\ \A a \in Cells : a \notin at .. at + Len(c) - 1 => Write(e, at, c)[a] = e[a]
<1>1. Cells \subseteq Nat
  BY Layout DEF Cells
<1>2. DOMAIN e = Cells /\ DOMAIN c = 1 .. Len(c) /\ Len(c) \in Nat
  OBVIOUS
<1>3. \A a \in Cells : /\ (a - at) + 1 \in 1 .. Len(c) <=> a \in at .. (at + Len(c)) - 1
                       /\ (a - at) + 1 \in 1 .. Len(c) => c[(a - at) + 1] \in Nat
  BY <1>1, <1>2
<1> QED BY <1>2, <1>3 DEF Write

LEMMA AnswerIs ==
  ASSUME NEW k \in Kinds, NEW e \in [Cells -> Nat], NEW r \in Nat, NEW id \in 0 .. 255
  PROVE  Answer(k, e, r, id) \in Seq(Nat) /\ Fits(k, Answer(k, e, r, id))
         /\ (k = "hello" => Answer(k, e, r, id) = <<id>>)
<1>1. CASE k \in Areas
  <2>1. k # "hello" /\ Answer(k, e, r, id) = GetCfg(e, k)
    BY <1>1 DEF Areas, Answer
  <2>2. GetCfg(e, k) \in Seq(Nat)
    <3>1. /\ Offset[k] \in Nat \ {0} /\ MaxSize[k] \in Nat /\ Offset[k] + MaxSize[k] <= streaming_mode_offset
          /\ streaming_mode_offset \in Nat /\ hw_status_offset = streaming_mode_offset + 1
      BY <1>1, Layout
    <3>2. Offset[k] \in Cells
      BY ONLY <3>1 DEF Cells
    <3>3. e[Offset[k]] \in Nat
      BY ONLY <3>2, e \in [Cells -> Nat]
    <3>4. CASE e[Offset[k]] > MaxSize[k]
      BY <3>4 DEF GetCfg
    <3>5. CASE ~(e[Offset[k]] > MaxSize[k])
      <4> DEFINE n == e[Offset[k]]
      <4>1. \A i \in 1 .. n : Offset[k] + i \in Cells
        BY ONLY <3>1, <3>3, <3>5, SMTT(30) DEF Cells
      <4>2. [i \in 1 .. n |-> e[Offset[k] + i]] \in [1 .. n -> Nat]
        BY ONLY <4>1, e \in [Cells -> Nat]
      <4>3. GetCfg(e, k) = [i \in 1 .. n |-> e[Offset[k] + i]]
        BY <3>5 DEF GetCfg
      <4> QED BY <3>3, <4>2, <4>3
    <3> QED BY <3>4, <3>5
  <2> QED BY <2>1, <2>2 DEF Fits
<1>2. CASE k = "version"
  BY <1>2 DEF Areas, Answer, VersionInfo, Fits
<1>3. CASE k = "reg"
  BY <1>3 DEF Areas, Answer, Fits
<1>4. CASE k = "hello"
  BY <1>4 DEF Areas, Answer, Fits
<1> QED BY <1>1, <1>2, <1>3, <1>4 DEF Kinds, Requests, Areas

(* What the handlers that wait have seen grows. *)
LEMMA SeeIs ==
  ASSUME ui \in Seq(Handlers), NEW e \in [Cells -> Nat], NEW r \in Nat, NEW id \in 0 .. 255, See(e, r, id)
  PROVE  /\ ui' \in Seq(Handlers) /\ Len(ui') = Len(ui) /\ DOMAIN ui' = DOMAIN ui
         /\ \A i \in DOMAIN ui :
              /\ ui'[i].win = ui[i].win /\ ui'[i].blocked = ui[i].blocked /\ ui'[i].todo = ui[i].todo
              /\ ui'[i].kind = ui[i].kind /\ ui'[i].got = ui[i].got /\ ui'[i].clean = ui[i].clean
              /\ ui[i].seen \subseteq ui'[i].seen
              /\ ui[i].kind # "none" => Answer(ui[i].kind, e, r, id) \in ui'[i].seen
<1> DEFINE S(i) == IF ui[i].kind = "none" THEN ui[i].seen ELSE ui[i].seen \union {Answer(ui[i].kind, e, r, id)}
<1>1. ui' = [i \in DOMAIN ui |-> [ui[i] EXCEPT !.seen = S(i)]]
  BY DEF See
<1>2. \A i \in DOMAIN ui : /\ S(i) \in SUBSET Seq(Nat) /\ ui[i] \in Handlers /\ ui[i].seen \subseteq S(i)
                           /\ ui[i].kind # "none" => Answer(ui[i].kind, e, r, id) \in S(i)
  <2> TAKE i \in DOMAIN ui
  <2>1. ui[i] \in Handlers /\ ui[i].seen \in SUBSET Seq(Nat) /\ ui[i].kind \in Kinds \union {"none"}
    BY FieldTypes
  <2>2. ui[i].kind # "none" => Answer(ui[i].kind, e, r, id) \in Seq(Nat)
    BY <2>1, AnswerIs
  <2> QED BY <2>1, <2>2
<1> HIDE DEF S
<1>3. ASSUME NEW i \in DOMAIN ui
      PROVE  /\ ui'[i] \in Handlers
             /\ ui'[i].win = ui[i].win /\ ui'[i].blocked = ui[i].blocked /\ ui'[i].todo = ui[i].todo
             /\ ui'[i].kind = ui[i].kind /\ ui'[i].got = ui[i].got /\ ui'[i].clean = ui[i].clean
             /\ ui'[i].seen = S(i)
  <2>1. ui'[i] = [ui[i] EXCEPT !.seen = S(i)]
    BY <1>1
  <2>2. LET g == [ui[i] EXCEPT !.seen = S(i)] IN
          g \in Handlers /\ g.win = ui[i].win /\ g.blocked = ui[i].blocked /\ g.todo = ui[i].todo /\ g.kind = ui[i].kind
          /\ g.got = ui[i].got /\ g.seen = S(i) /\ g.clean = ui[i].clean
    BY ONLY <1>2, SeenSet, i \in DOMAIN ui, Zenon
  <2> QED BY ONLY <2>1, <2>2, Zenon
<1>4. DOMAIN ui' = DOMAIN ui /\ DOMAIN ui = 1 .. Len(ui) /\ Len(ui) \in Nat
  BY <1>1
<1>5. ui' \in Seq(Handlers) /\ Len(ui') = Len(ui)
  <2>1. ui' \in [1 .. Len(ui) -> Handlers]
    BY <1>1, <1>3, <1>4
  <2> QED BY <1>4, <2>1
<1> QED BY <1>2, <1>3, <1>4, <1>5

(* What no other field depends on. *)
LEMMA SameRun ==
  ASSUME NEW f, NEW g, g.win = f.win, g.blocked = f.blocked, g.todo = f.todo, g.kind = f.kind,
         g.got = f.got, Runs(f)
  PROVE  Runs(g)
  BY DEF Runs, Busy

LEMMA SeeTypes ==
  ASSUME UiTypes, NEW e \in [Cells -> Nat], NEW r \in Nat, NEW id \in 0 .. 255, See(e, r, id)
  PROVE  UiTypes'
<1>1. ui \in Seq(Handlers)
  BY DEF UiTypes
<1>2. /\ ui' \in Seq(Handlers) /\ DOMAIN ui' = DOMAIN ui
      /\ \A i \in DOMAIN ui :
           /\ ui'[i].win = ui[i].win /\ ui'[i].blocked = ui[i].blocked /\ ui'[i].todo = ui[i].todo
           /\ ui'[i].kind = ui[i].kind /\ ui'[i].got = ui[i].got
  BY <1>1, SeeIs, ZenonT(40)
<1>3. \A i \in DOMAIN ui' : Runs(ui'[i])
  BY <1>2, SameRun DEF UiTypes
<1> QED BY <1>2, <1>3 DEF UiTypes

(* A callback. *)
LEMMA GotIs ==
  ASSUME UiTypes, NEW i \in DOMAIN ui, NEW v \in Seq(Nat), Fits(ui[i].kind, v),
         ui' = [ui EXCEPT ![i].got = v]
  PROVE  /\ UiTypes' /\ DOMAIN ui' = DOMAIN ui /\ Len(ui') = Len(ui)
         /\ \A j \in DOMAIN ui : j # i => ui'[j] = ui[j]
         /\ ui'[i].win = ui[i].win /\ ui'[i].blocked = ui[i].blocked /\ ui'[i].todo = ui[i].todo
         /\ ui'[i].kind = ui[i].kind /\ ui'[i].clean = ui[i].clean /\ ui'[i].seen = ui[i].seen
         /\ ui'[i].got = v
<1>1. ui \in Seq(Handlers) /\ ui[i] \in Handlers /\ DOMAIN ui = 1 .. Len(ui) /\ Len(ui) \in Nat
  BY DEF UiTypes
<1>2. PICK g : g = [ui[i] EXCEPT !.got = v]
  OBVIOUS
<1>3. /\ g \in Handlers /\ g.win = ui[i].win /\ g.blocked = ui[i].blocked /\ g.todo = ui[i].todo /\ g.kind = ui[i].kind
      /\ g.got = v /\ g.seen = ui[i].seen /\ g.clean = ui[i].clean
  <2>1. LET h == [ui[i] EXCEPT !.got = v] IN
          h \in Handlers /\ h.win = ui[i].win /\ h.blocked = ui[i].blocked /\ h.todo = ui[i].todo /\ h.kind = ui[i].kind
          /\ h.got = v /\ h.seen = ui[i].seen /\ h.clean = ui[i].clean
    BY ONLY <1>1, v \in Seq(Nat), GotSet, Zenon
  <2> QED BY ONLY <1>2, <2>1, Zenon
<1>4. ui' = [ui EXCEPT ![i] = g]
  BY <1>2
<1>5. /\ ui' \in Seq(Handlers) /\ DOMAIN ui' = DOMAIN ui /\ Len(ui') = Len(ui)
      /\ ui'[i] = g /\ \A j \in DOMAIN ui : j # i => ui'[j] = ui[j]
  BY ONLY <1>1, <1>3, <1>4, i \in DOMAIN ui
<1>6. Runs(g)
  BY <1>3 DEF UiTypes, Runs, Busy
<1>7. \A j \in DOMAIN ui' : Runs(ui'[j]) /\ ui'[j].win = ui[j].win /\ ui'[j].blocked = ui[j].blocked
  BY <1>3, <1>5, <1>6 DEF UiTypes
<1>8. UiTypes'
  BY <1>5, <1>7 DEF UiTypes
<1> QED BY <1>3, <1>5, <1>8

-----------------------------------------------------------------------------
(* What the steps do to the stack. *)
LEMMA AskIs ==
  ASSUME UiTypes, StoreTypes, Ask
  PROVE  \E k \in Kinds :
           /\ UiTypes' /\ ui # <<>> /\ Len(ui') = Len(ui) /\ Len(ui) \in DOMAIN ui
           /\ Head(Top.todo) = <<"ask", k>> /\ Top.kind = "none"
           /\ Transmit(IF k = "hello" THEN Host.Hello ELSE Host[k], "none", <<>>)
           /\ \A i \in DOMAIN ui' : i < Len(ui) => ui'[i] = ui[i]
           /\ ui'[Len(ui)].kind = k /\ ui'[Len(ui)].got = <<>> /\ ui'[Len(ui)].clean = None(k)
           /\ ui'[Len(ui)].seen = {Answer(k, eeprom, reg, bid)} /\ ui'[Len(ui)].blocked = Top.blocked
           /\ cb' = (IF k = "reg" THEN cb ELSE Len(ui)) /\ cbReg' = (IF k = "reg" THEN Len(ui) ELSE cbReg)
<1>1. /\ Doing("ask") /\ ui # <<>> /\ Top \in Handlers /\ Top.kind = "none" /\ Runs(Top)
      /\ Head(Top.todo) \in Calls /\ Head(Top.todo)[1] = "ask"
      /\ Tail(Top.todo) \in Seq(Calls) /\ Asks(Tail(Top.todo))
      /\ Len(ui) \in DOMAIN ui /\ Len(ui) \in Nat
  BY NextCall, TopIs DEF Ask
<1>2. PICK k : k = Head(Top.todo)[2]
  OBVIOUS
<1>3. k \in Kinds /\ Head(Top.todo) = <<"ask", k>>
  BY <1>1, <1>2 DEF Calls
<1> DEFINE s == {Answer(k, eeprom, reg, bid)}
<1>0. PICK c : c = None(k)
  OBVIOUS
<1> DEFINE f == [Top EXCEPT !.todo = Tail(Top.todo), !.kind = k, !.got = <<>>, !.seen = s, !.clean = c]
<1>4. s \in SUBSET Seq(Nat) /\ c \in BOOLEAN
  <2>1. s \in SUBSET Seq(Nat)
    BY <1>3, AnswerIs, ZenonT(40) DEF StoreTypes
  <2>2. None(k) \in BOOLEAN
    BY DEF None
  <2> QED BY <1>0, <2>1, <2>2
<1> HIDE DEF s
<1>5. /\ f \in Handlers /\ f.win = Top.win /\ f.blocked = Top.blocked /\ f.todo = Tail(Top.todo) /\ f.kind = k
      /\ f.got = <<>> /\ f.seen = s /\ f.clean = c
  <2>1. Top \in Handlers /\ Tail(Top.todo) \in Seq(Calls) /\ k \in Kinds /\ s \in SUBSET Seq(Nat) /\ c \in BOOLEAN
    BY <1>1, <1>3, <1>4
  <2>3. PICK t : t = Tail(Top.todo)
    OBVIOUS
  <2>4. f = [Top EXCEPT !.todo = t, !.kind = k, !.got = <<>>, !.seen = s, !.clean = c]
    BY <2>3
  <2>5. t \in Seq(Calls)
    BY <2>1, <2>3
  <2> HIDE DEF f
  <2>6. /\ f \in Handlers /\ f.win = Top.win /\ f.blocked = Top.blocked /\ f.todo = t /\ f.kind = k
        /\ f.got = <<>> /\ f.seen = s /\ f.clean = c
    <3>1. Top \in Handlers /\ t \in Seq(Calls) /\ k \in Kinds /\ s \in SUBSET Seq(Nat) /\ c \in BOOLEAN
      BY ONLY <2>1, <2>5
    <3>2. PICK top : top = Top
      OBVIOUS
    <3>3. PICK q : q = s
      OBVIOUS
    <3>4. PICK g : g = f
      OBVIOUS
    <3>0. PICK v : v = <<>>
      OBVIOUS
    <3>5. g = [top EXCEPT !.todo = t, !.kind = k, !.got = v, !.seen = q, !.clean = c] /\ v \in Seq(Nat)
      BY ONLY <2>4, <3>0, <3>2, <3>3, <3>4
    <3>6. top \in Handlers /\ q \in SUBSET Seq(Nat)
      BY ONLY <3>1, <3>2, <3>3
    <3>7. /\ g \in Handlers /\ g.win = top.win /\ g.blocked = top.blocked /\ g.todo = t /\ g.kind = k
          /\ g.got = v /\ g.seen = q /\ g.clean = c
      <4>1. PICK C : /\ c \in C
                      /\ Handlers = [win : Windows, blocked : SUBSET Windows, todo : Seq(Calls),
                           kind : Kinds \union {"none"}, got : Seq(Nat), seen : SUBSET Seq(Nat), clean : C]
        BY <3>1, HandlersAre
      <4>2. k \in Kinds \union {"none"} /\ t \in Seq(Calls)
        BY ONLY <3>1
      <4> QED BY ONLY <3>5, <3>6, <4>1, <4>2, RecordAsked, ZenonT(60)
    <3> QED BY ONLY <3>0, <3>2, <3>3, <3>4, <3>7, Zenon
  <2> QED BY ONLY <2>3, <2>6, Zenon
<1>6. /\ Continue(f) /\ Transmit(IF k = "hello" THEN Host.Hello ELSE Host[k], "none", <<>>)
      /\ cb' = (IF k = "reg" THEN cb ELSE Len(ui)) /\ cbReg' = (IF k = "reg" THEN Len(ui) ELSE cbReg)
  BY <1>0, <1>2 DEF Ask, s
<1> HIDE DEF f
<1>7. UiTypes'
  BY <1>1, <1>5, <1>6, UiContinue
<1>8. k # "none" /\ ui \in Seq(Handlers)
  BY <1>3 DEF Kinds, Requests, UiTypes
<1>9. /\ Len(ui') = Len(ui) /\ ui'[Len(ui)] = f
      /\ \A i \in DOMAIN ui' : i < Len(ui) => ui'[i] = ui[i]
  BY <1>1, <1>5, <1>6, <1>8, ContinueIs
<1> QED BY <1>0, <1>1, <1>3, <1>5, <1>6, <1>7, <1>9 DEF s

LEMMA ForgetIs ==
  ASSUME UiTypes, Enough, Forget
  PROVE  /\ UiTypes' /\ ui # <<>> /\ Len(ui) \in DOMAIN ui /\ Len(ui') \in {Len(ui) - 1, Len(ui)}
         /\ \A i \in DOMAIN ui' : i < Len(ui) => ui'[i] = ui[i]
         /\ Len(ui') = Len(ui) => ui'[Len(ui)].kind = "none" /\ ui'[Len(ui)].got = <<>>
<1>1. ui # <<>> /\ Top \in Handlers /\ Runs(Top) /\ Len(ui) \in DOMAIN ui /\ Len(ui) \in Nat
  BY TopIs DEF Enough
<1> DEFINE f == [Top EXCEPT !.kind = "none", !.got = <<>>, !.seen = {}, !.clean = TRUE]
<1>2. f \in Handlers /\ f.win = Top.win /\ f.blocked = Top.blocked /\ f.todo = Top.todo /\ f.kind = "none"
      /\ f.got = <<>>
  BY ONLY <1>1, ForgetSet, Zenon
<1>3. Continue(f)
  BY DEF Forget
<1> HIDE DEF f
<1>4. UiTypes'
  BY <1>1, <1>2, <1>3, UiContinue DEF Runs
<1> QED BY <1>1, <1>2, <1>3, <1>4, ContinueIs DEF UiTypes

LEMMA ClickIs ==
  ASSUME UiTypes, Click, editors \subseteq Editors
  PROVE  /\ UiTypes' /\ Len(ui') = Len(ui) + 1 /\ Len(ui) \in Nat
         /\ \A i \in DOMAIN ui : ui'[i] = ui[i]
         /\ ui'[Len(ui) + 1].kind = "none" /\ ui'[Len(ui) + 1].got = <<>>
         /\ ui'[Len(ui) + 1].win \notin UNION {ui[i].blocked : i \in DOMAIN ui}
<1>1. PICK h \in Clicks : h.win \notin UNION {ui[i].blocked : i \in DOMAIN ui} /\ ui' = Append(ui, h)
  BY DEF Click
<1>2. h \in Handlers /\ Runs(h) /\ h.kind = "none" /\ h.got = <<>>
  BY ClicksRun
<1>3. ui \in Seq(Handlers) /\ Len(ui) \in Nat /\ DOMAIN ui = 1 .. Len(ui)
  BY DEF UiTypes
<1>4. /\ ui' \in Seq(Handlers) /\ Len(ui') = Len(ui) + 1 /\ DOMAIN ui' = 1 .. Len(ui) + 1
      /\ \A i \in DOMAIN ui : ui'[i] = ui[i]
      /\ ui'[Len(ui) + 1] = h
  BY <1>1, <1>2, <1>3
<1>5. \A i \in DOMAIN ui' : Runs(ui'[i])
  BY <1>2, <1>3, <1>4 DEF UiTypes
<1>6. \A i, j \in DOMAIN ui' : i < j => ui'[j].win \notin ui'[i].blocked
  <2> SUFFICES ASSUME NEW i \in DOMAIN ui', NEW j \in DOMAIN ui', i < j
               PROVE  ui'[j].win \notin ui'[i].blocked
    OBVIOUS
  <2>1. i \in DOMAIN ui /\ ui'[i] = ui[i]
    BY <1>3, <1>4
  <2>2. CASE j \in DOMAIN ui
    BY <2>1, <2>2, <1>4 DEF UiTypes
  <2>3. CASE j = Len(ui) + 1
    BY <1>1, <1>4, <2>1, <2>3
  <2> QED BY <1>3, <1>4, <2>2, <2>3
<1> QED BY <1>1, <1>2, <1>3, <1>4, <1>5, <1>6 DEF UiTypes

(* A callback is made for the handler that waits for this kind of answer. *)
LEMMA ArrivesIs ==
  ASSUME UiTypes, BqTypes, CallbackAlive, Arrives
  PROVE  /\ UiTypes' /\ Len(ui') = Len(ui) /\ DOMAIN ui' = DOMAIN ui
         /\ bq # <<>> /\ bq' = Tail(bq) /\ bq[1] \in Replies
         /\ \A j \in DOMAIN ui :
              /\ ui'[j].win = ui[j].win /\ ui'[j].blocked = ui[j].blocked /\ ui'[j].todo = ui[j].todo
              /\ ui'[j].kind = ui[j].kind /\ ui'[j].clean = ui[j].clean /\ ui'[j].seen = ui[j].seen
              /\ \/ ui'[j].got = ui[j].got
                 \/ ui[j].kind = bq[1].kind /\ ui'[j].got = bq[1].val
<1> DEFINE a == Head(bq)
           i == IF a.kind = "reg" THEN cbReg ELSE cb
<1>1. bq # <<>> /\ bq' = Tail(bq) /\ a = bq[1] /\ a \in Replies /\ Fits(a.kind, a.val)
  BY DEF Arrives, BqTypes
<1>2. a.kind \in Kinds /\ a.val \in Seq(Nat)
  BY <1>1 DEF Replies
<1>3. ui' = IF i # 0 /\ (a.cam = hid \/ a.kind \in {"hello", "reg"}) /\ Accepts(ui[i], a)
            THEN [ui EXCEPT ![i].got = a.val] ELSE ui
  BY DEF Arrives
<1>4. i # 0 => i \in DOMAIN ui
  BY DEF CallbackAlive
<1> HIDE DEF a, i
<1>5. CASE i # 0 /\ Accepts(ui[i], a) /\ ui' = [ui EXCEPT ![i].got = a.val]
  <2>1. i \in DOMAIN ui /\ ui[i].kind = a.kind
    BY <1>4, <1>5 DEF Accepts
  <2>2. /\ UiTypes' /\ DOMAIN ui' = DOMAIN ui /\ Len(ui') = Len(ui)
        /\ \A j \in DOMAIN ui : j # i => ui'[j] = ui[j]
        /\ ui'[i].win = ui[i].win /\ ui'[i].blocked = ui[i].blocked /\ ui'[i].todo = ui[i].todo
        /\ ui'[i].kind = ui[i].kind /\ ui'[i].clean = ui[i].clean /\ ui'[i].seen = ui[i].seen
        /\ ui'[i].got = a.val
    <3>1. Fits(ui[i].kind, a.val) /\ a.val \in Seq(Nat) /\ ui' = [ui EXCEPT ![i].got = a.val]
      BY <1>1, <1>2, <1>5, <2>1
    <3> QED BY <2>1, <3>1, GotIs
  <2> QED BY <1>1, <2>1, <2>2
<1>6. CASE ui' = ui
  BY <1>1, <1>6 DEF UiTypes
<1> QED BY <1>3, <1>5, <1>6

-----------------------------------------------------------------------------
(* The types. *)
LEMMA TypesInit == Init => Types
<1> SUFFICES ASSUME Init PROVE Types
  OBVIOUS
<1>1. UiTypes
  <2> DEFINE f == Handler("main", Windows, Construct)
  <2>1. Construct \in Programs /\ Construct # <<>>
    BY Buttons
  <2>2. f \in Handlers /\ Runs(f)
    BY <2>1, NewHandler DEF Windows
  <2>3. ui = <<f>>
    BY DEF Init
  <2> HIDE DEF f
  <2> QED BY <2>2, <2>3 DEF UiTypes
<1>2. HqTypes /\ BqTypes /\ ThreadTypes
  BY SessionAssumption DEF Init, HqTypes, BqTypes, ThreadTypes
<1>3. StoreTypes
  <2>1. bid \in 0 .. 255
    BY SessionAssumption DEF Init
  <2>2. Erased \in [Cells -> Nat]
    BY DEF Erased, Cells
  <2>3. Write(Erased, 0, <<bid>>) \in [Cells -> Nat]
    <3>1. <<bid>> \in Seq(Nat) /\ 0 \in Nat
      BY <2>1
    <3> QED BY ONLY <2>2, <3>1, WriteIs
  <2>4. eeprom = Write(Erased, 0, <<bid>>)
    BY DEF Init, SetCameraID, cam_id_config_offset
  <2>5. stored \in [Areas -> Seq(Nat)] /\ spoilt = {} /\ reg = 0
    BY DEF Init
  <2> QED BY <2>1, <2>3, <2>4, <2>5 DEF StoreTypes
<1>4. /\ shown \in BOOLEAN /\ connected \in BOOLEAN /\ editors \subseteq Editors /\ port \in BOOLEAN /\ stop \in BOOLEAN
      /\ missed \in BOOLEAN /\ refused \in BOOLEAN /\ excused \in BOOLEAN
  BY Zenon DEF Init
<1>5. hid \in -1 .. 255 /\ cb \in Nat /\ cbReg \in Nat
  BY DEF Init
<1> QED BY <1>1, <1>2, <1>3, <1>4, <1>5, Zenon DEF Types

LEMMA ClickTypes == ASSUME Types, Click PROVE Types'
<1>1. UiTypes'
  BY ClickIs DEF Types
<1> QED BY <1>1 DEF Types, Click, HqTypes, BqTypes, ThreadTypes, StoreTypes, serial, board, history

LEMMA StopTypes == ASSUME Types, Stop PROVE Types'
<1>1. UiTypes'
  BY ProceedIs DEF Stop, Types
<1>2. HqTypes'
  <2>1. Transmit(Host.Stop, "none", <<>>) /\ Host.Stop = 3 /\ HqTypes /\ hid \in Int
    BY Commands DEF Stop, Types
  <2>2. "none" \in Areas \union {"none", "reg"} /\ <<>> \in Seq(0 .. 255) /\ "none" # "reg"
    OBVIOUS
  <2>3. 2 # Board.SetID /\ 3 # Board.SetID /\ 2 \in Nat /\ 3 \in Nat
    BY Commands
  <2> QED BY ONLY <2>1, <2>2, <2>3, Transmitted
<1> QED BY <1>1, <1>2 DEF Types, Stop, BqTypes, ThreadTypes, StoreTypes, serial, board

LEMMA PlayTypes == ASSUME Types, Play PROVE Types'
<1>1. UiTypes'
  BY ProceedIs DEF Play, Types
<1>2. HqTypes'
  <2>1. Transmit(Host.Start, "none", <<>>) /\ Host.Start = 2 /\ HqTypes /\ hid \in Int
    BY Commands DEF Play, Types
  <2>2. "none" \in Areas \union {"none", "reg"} /\ <<>> \in Seq(0 .. 255) /\ "none" # "reg"
    OBVIOUS
  <2>3. 2 # Board.SetID /\ 3 # Board.SetID /\ 2 \in Nat /\ 3 \in Nat
    BY Commands
  <2> QED BY ONLY <2>1, <2>2, <2>3, Transmitted
<1> QED BY <1>1, <1>2 DEF Types, Play, BqTypes, ThreadTypes, StoreTypes, serial, board

(* What is put is a configuration, or the value of a register. *)
LEMMA PutIs ==
  ASSUME UiTypes, Put
  PROVE  \E k \in Areas \union {"reg"}, v \in Seq(0 .. 255) :
           Transmit(0, k, v) /\ (k = "reg" => v # <<>>) /\ (k \in Areas => v \in Configs)
<1>1. Head(Top.todo) \in Calls /\ Head(Top.todo)[1] = "put"
  BY NextCall DEF Put
<1>2. Head(Top.todo)[2] \in Areas \union {"reg"}
  BY <1>1 DEF Calls
<1>3. PICK k : k = Head(Top.todo)[2]
  OBVIOUS
<1>4. PICK v \in IF k = "reg" THEN {<<1>>} ELSE Configs : Transmit(0, k, v)
  BY <1>3 DEF Put
<1>5. v \in Seq(0 .. 255) /\ (k = "reg" => v # <<>>) /\ (k \in Areas => v \in Configs)
  <2>1. CASE k = "reg"
    <3>1. v = <<1>>
      BY <1>4, <2>1
    <3> QED BY <2>1, <3>1 DEF Areas
  <2>2. CASE k # "reg"
    <3>1. v \in Configs
      BY <1>4, <2>2
    <3> QED BY <2>2, <3>1, SessionAssumption
  <2> QED BY <2>1, <2>2
<1> QED BY <1>2, <1>3, <1>4, <1>5

LEMMA PutTypes == ASSUME Types, Put PROVE Types'
<1>1. UiTypes'
  BY ProceedIs DEF Put, Types
<1>2. HqTypes'
  <2>1. PICK k \in Areas \union {"reg"}, v \in Seq(0 .. 255) : Transmit(0, k, v) /\ (k = "reg" => v # <<>>)
    BY PutIs DEF Types
  <2>2. HqTypes /\ hid \in Int
    BY DEF Types
  <2>3. k \in Areas \union {"none", "reg"} /\ 0 # Board.SetID /\ 0 \in Nat
    BY Commands
  <2> QED BY <2>1, <2>2, <2>3, Transmitted
<1> QED BY <1>1, <1>2 DEF Types, Put, BqTypes, ThreadTypes, StoreTypes, serial, board, history

LEMMA ChangeIDTypes == ASSUME Types, ChangeID PROVE Types'
<1>1. UiTypes'
  BY ProceedIs DEF ChangeID, Types
<1>2. PICK i \in 0 .. 3 : Transmit(Host.SetID, "none", <<i>>) /\ hid' = i
  BY DEF ChangeID
<1>3. HqTypes'
  <2>1. HqTypes /\ hid \in Int /\ <<i>> \in Seq(0 .. 255) /\ <<i>> # <<>> /\ Host.SetID = 9
    BY Commands DEF Types
  <2> QED BY <1>2, <2>1, Transmitted, Commands
<1> QED BY <1>1, <1>2, <1>3 DEF Types, ChangeID, BqTypes, ThreadTypes, StoreTypes, board

LEMMA EditTypes == ASSUME Types, Edit PROVE Types'
<1>1. UiTypes'
  BY ProceedIs DEF Edit, Types
<1>2. editors' \subseteq Editors
  <2>1. editors \subseteq Editors /\ editors # Editors
    BY DEF Edit, Types
  <2>2. (CHOOSE e \in Editors \ editors : TRUE) \in Editors
    BY <2>1
  <2> QED BY <2>1, <2>2 DEF Edit
<1> QED BY <1>1, <1>2 DEF Types, Edit, HqTypes, BqTypes, ThreadTypes, StoreTypes, serial, board, history

(* A prefix of what was on the way is left. *)
LEMMA PrefixTypes ==
  ASSUME Types, NEW n \in 0 .. Len(hq), hq' = SubSeq(hq, 1, n)
  PROVE  /\ HqTypes' /\ Len(hq') = n /\ \A i \in 1 .. n : hq'[i] = hq[i] /\ i \in DOMAIN hq
         /\ DOMAIN hq' = 1 .. n
<1>1. hq \in Seq(Messages) /\ Len(hq) <= HostRing /\ Len(hq) \in Nat /\ HostRing \in Nat
  BY SessionAssumption DEF Types, HqTypes
<1>2. /\ hq' \in Seq(Messages) /\ Len(hq') = n /\ \A i \in 1 .. n : hq'[i] = hq[i]
  BY <1>1, PrefixWithin
<1>3. DOMAIN hq' = 1 .. n /\ \A i \in 1 .. n : i \in DOMAIN hq
  BY <1>1, <1>2
<1> QED BY <1>1, <1>2, <1>3 DEF Types, HqTypes

LEMMA OpenIs ==
  ASSUME UiTypes, Open
  PROVE  /\ UiTypes' /\ Len(ui') \in {Len(ui) - 1, Len(ui)} /\ ui # <<>>
         /\ \A i \in DOMAIN ui' : i < Len(ui) => ui'[i] = ui[i]
         /\ Len(ui') = Len(ui) => ui'[Len(ui)].kind = "none" /\ ui'[Len(ui)].got = Top.got
<1>1. /\ Doing("open") /\ ui # <<>> /\ Top \in Handlers /\ Top.kind = "none" /\ Runs(Top)
      /\ Tail(Tail(Top.todo)) \in Seq(Calls) /\ Asks(Tail(Tail(Top.todo)))
  BY NextCall, TopIs DEF Open
<1>2. CASE Proceed
  BY <1>1, <1>2, ProceedIs
<1>3. CASE ~Proceed
  <2> DEFINE f == [Top EXCEPT !.todo = Tail(Tail(Top.todo))]
  <2>1. Continue(f)
    BY <1>3 DEF Open
  <2>2. /\ f \in Handlers /\ f.win = Top.win /\ f.blocked = Top.blocked /\ f.todo = Tail(Tail(Top.todo))
        /\ f.kind = Top.kind /\ f.got = Top.got
    <3>1. ASSUME NEW x \in Handlers, NEW t \in Seq(Calls)
          PROVE  LET g == [x EXCEPT !.todo = t] IN
            g \in Handlers /\ g.win = x.win /\ g.blocked = x.blocked /\ g.todo = t /\ g.kind = x.kind /\ g.got = x.got
      BY ONLY TodoSet, x \in Handlers, t \in Seq(Calls), ZenonT(30)
    <3> QED BY ONLY <1>1, <3>1
  <2> HIDE DEF f
  <2>3. UiTypes'
    BY <1>1, <2>1, <2>2, UiContinue DEF Runs
  <2> QED BY <1>1, <2>1, <2>2, <2>3, ContinueIs DEF UiTypes
<1> QED BY <1>2, <1>3

LEMMA OpenTypes == ASSUME Types, Open PROVE Types'
<1>1. UiTypes'
  BY OpenIs DEF Types
<1>2. PICK n \in 0 .. IF port THEN Len(hq) ELSE 0 :
        /\ hq' = SubSeq(hq, 1, n)
        /\ missed' = (missed \/ \E i \in n + 1 .. Len(hq) : Switches(hq[i]))
  BY DEF Open
<1>3. HqTypes' /\ missed' \in BOOLEAN
  <2>1. n \in 0 .. Len(hq) /\ Len(hq) \in Nat
    BY DEF Types, HqTypes
  <2> QED BY <1>2, <2>1, PrefixTypes DEF Types
<1>4. hid' \in -1 .. 255 /\ port' \in BOOLEAN /\ connected' \in BOOLEAN /\ excused' \in BOOLEAN
  <2>1. \/ port' = TRUE /\ hid' = hid /\ connected' = connected /\ excused' = excused
        \/ port' = FALSE /\ hid' = 3 /\ connected' = FALSE /\ excused' = TRUE
    BY DEF Open
  <2>2. hid \in -1 .. 255 /\ connected \in BOOLEAN /\ excused \in BOOLEAN
    BY DEF Types
  <2>3. port' \in BOOLEAN /\ connected' \in BOOLEAN /\ excused' \in BOOLEAN
    BY ONLY <2>1, <2>2, Zenon
  <2>4. hid' \in -1 .. 255
    <3>1. CASE hid' = hid
      BY ONLY <2>2, <3>1, Zenon
    <3>2. CASE hid' = 3
      BY <3>2
    <3> QED BY ONLY <2>1, <3>1, <3>2, Zenon
  <2> QED BY <2>3, <2>4
<1> QED BY <1>1, <1>3, <1>4 DEF Types, Open, BqTypes, ThreadTypes, StoreTypes, board

LEMMA AskTypes == ASSUME Types, Ask PROVE Types'
<1>1. PICK k \in Kinds :
        /\ UiTypes' /\ Len(ui) \in DOMAIN ui
        /\ Transmit(IF k = "hello" THEN Host.Hello ELSE Host[k], "none", <<>>)
        /\ cb' = (IF k = "reg" THEN cb ELSE Len(ui)) /\ cbReg' = (IF k = "reg" THEN Len(ui) ELSE cbReg)
  BY AskIs DEF Types
<1>2. PICK c : c = IF k = "hello" THEN Host.Hello ELSE Host[k]
  OBVIOUS
<1>3. c \in 1 .. 8
  <2>1. CASE k = "hello"
    BY <1>2, <2>1, Commands
  <2>2. CASE k # "hello"
    <3>1. k \in Requests /\ c = Host[k]
      BY <1>2, <2>2 DEF Kinds
    <3> QED BY <3>1, Commands
  <2> QED BY <2>1, <2>2
<1>4. HqTypes'
  <2>1. Transmit(c, "none", <<>>) /\ HqTypes /\ hid \in Int /\ c \in Nat /\ c # Board.SetID
    BY <1>1, <1>2, <1>3, Commands DEF Types
  <2>2. "none" \in Areas \union {"none", "reg"} /\ <<>> \in Seq(0 .. 255) /\ "none" # "reg"
    OBVIOUS
  <2> QED BY ONLY <2>1, <2>2, Transmitted
<1>5. cb' \in Nat /\ cbReg' \in Nat
  BY <1>1 DEF Types, UiTypes
<1> QED BY <1>1, <1>4, <1>5 DEF Types, Ask, BqTypes, ThreadTypes, StoreTypes, board, history

LEMMA GotAnswerTypes == ASSUME Types, GotAnswer PROVE Types'
<1>1. UiTypes' /\ (cb' = cb \/ cb' = 0) /\ (cbReg' = cbReg \/ cbReg' = 0)
  BY ForgetIs DEF GotAnswer, Types, Unset
<1> QED BY <1>1 DEF Types, GotAnswer, HqTypes, BqTypes, ThreadTypes, StoreTypes, board, history

(* The id of a handshake. *)
LEMMA HelloIs ==
  ASSUME UiTypes, GotHello
  PROVE  \E id \in -1 .. 255 :
           /\ connected' = (id >= 0) /\ hid' = id /\ excused' = (excused \/ Top.got # <<id>>)
<1>1. Top \in Handlers /\ Runs(Top) /\ Top.kind = "hello"
  BY TopIs DEF GotHello, Enough
<1>2. Top.got # <<>> => Top.got[1] \in 0 .. 255
  BY <1>1 DEF Runs, Fits
<1>3. PICK id \in IF Top.got = <<>> THEN {-1} ELSE {Top.got[1]} \union -1 .. 3 :
        connected' = (id >= 0) /\ hid' = id /\ excused' = (excused \/ Top.got # <<id>>)
  BY DEF GotHello, Connected
<1>4. id \in -1 .. 255
  <2>1. CASE Top.got = <<>>
    <3>1. id \in {-1}
      BY ONLY <1>3, <2>1
    <3> QED BY <3>1
  <2>2. CASE Top.got # <<>>
    <3>1. id = Top.got[1] \/ id \in -1 .. 3
      <4>1. id \in {Top.got[1]} \union -1 .. 3
        BY ONLY <1>3, <2>2
      <4> QED BY ONLY <4>1
    <3>2. CASE id = Top.got[1]
      <4>1. id \in 0 .. 255
        BY ONLY <1>2, <2>2, <3>2, Zenon
      <4> QED BY <4>1
    <3>3. CASE id \in -1 .. 3
      BY <3>3
    <3> QED BY ONLY <3>1, <3>2, <3>3, Zenon
  <2> QED BY <2>1, <2>2
<1> QED BY <1>3, <1>4

LEMMA GotHelloTypes == ASSUME Types, GotHello PROVE Types'
<1>1. UiTypes' /\ (cb' = cb \/ cb' = 0) /\ (cbReg' = cbReg \/ cbReg' = 0)
  BY ForgetIs DEF GotHello, Types, Unset
<1>2. PICK id \in -1 .. 255 :
        /\ connected' = (id >= 0) /\ hid' = id /\ excused' = (excused \/ Top.got # <<id>>)
  BY HelloIs DEF Types
<1>3. hid' \in -1 .. 255 /\ connected' \in BOOLEAN /\ excused' \in BOOLEAN
  <2>1. (id >= 0) \in BOOLEAN /\ (excused \/ Top.got # <<id>>) \in BOOLEAN
    OBVIOUS
  <2> QED BY ONLY <1>2, <2>1, id \in -1 .. 255, Zenon
<1> QED BY <1>1, <1>3 DEF Types, GotHello, HqTypes, BqTypes, ThreadTypes, StoreTypes, board

LEMMA BqTail ==
  ASSUME BqTypes, bq # <<>>, bq' = Tail(bq)
  PROVE  BqTypes' /\ \A i \in DOMAIN bq' : \E j \in DOMAIN bq : bq'[i] = bq[j]
<1>1. bq' \in Seq(Replies) /\ Within(bq', bq)
  BY TailWithin DEF BqTypes
<1> QED BY <1>1 DEF BqTypes, Within

LEMMA ArrivesTypes == ASSUME Types, CallbackAlive, Arrives PROVE Types'
<1>1. UiTypes' /\ BqTypes'
  BY ArrivesIs, BqTail DEF Types
<1> QED BY <1>1 DEF Types, Arrives, HqTypes, ThreadTypes, StoreTypes, serial, board, history

LEMMA AnswerLostTypes == ASSUME Types, AnswerLost PROVE Types'
<1>1. BqTypes'
  BY BqTail DEF AnswerLost, Types
<1> QED BY <1>1 DEF Types, AnswerLost, UiTypes, HqTypes, ThreadTypes, StoreTypes, window, serial, board, history

(* The oldest message is gone, or has become another one. *)
LEMMA DamageIs ==
  ASSUME HqTypes, Damage
  PROVE  /\ HqTypes' /\ hq # <<>>
         /\ \/ hq' = Tail(hq)
            \/ /\ Len(hq') = Len(hq) /\ DOMAIN hq' = DOMAIN hq
               /\ \A i \in DOMAIN hq : i > 1 => hq'[i] = hq[i]
<1>1. hq # <<>> /\ hq \in Seq(Messages) /\ Len(hq) \in Nat \ {0} /\ Len(hq) <= HostRing /\ HostRing \in Nat
      /\ 1 \in DOMAIN hq /\ Head(hq) = hq[1] /\ hq[1] \in Messages /\ DOMAIN hq = 1 .. Len(hq)
  <2>1. hq # <<>> /\ hq \in Seq(Messages) /\ Len(hq) <= HostRing /\ HostRing \in Nat
    BY SessionAssumption DEF Damage, HqTypes
  <2>2. Len(hq) \in Nat \ {0} /\ DOMAIN hq = 1 .. Len(hq)
    BY ONLY <2>1
  <2>3. 1 \in DOMAIN hq
    BY ONLY <2>2
  <2>4. Head(hq) = hq[1] /\ hq[1] \in Messages
    BY <2>1, <2>2, <2>3
  <2> QED BY <2>1, <2>2, <2>3, <2>4
<1>2. /\ Tail(hq) \in Seq(Messages) /\ Len(Tail(hq)) = Len(hq) - 1
      /\ \A i \in DOMAIN Tail(hq) : i + 1 \in DOMAIN hq /\ Tail(hq)[i] = hq[i + 1]
  BY <1>1, TailWithin
<1>3. CASE hq' = Tail(hq)
  <2>1. \A i \in DOMAIN hq' : Sound(hq'[i])
    BY <1>2, <1>3 DEF HqTypes
  <2> QED BY <1>1, <1>2, <1>3, <2>1 DEF HqTypes
<1>4. CASE hq' # Tail(hq)
  <2>1. PICK d \in Damaged : hq' = <<[Head(hq) EXCEPT !.cmd = d.cmd, !.val = d.val, !.kind = "none"]>> \o Tail(hq)
    BY <1>4 DEF Damage
  <2>2. PICK m : m = [Head(hq) EXCEPT !.cmd = d.cmd, !.val = d.val, !.kind = "none"]
    OBVIOUS
  <2>3. d.cmd \in Nat /\ d.val \in Seq(0 .. 255) /\ (d.cmd = 10 => d.val # <<>>)
    BY SessionAssumption
  <2>4. m \in Messages /\ m.cmd = d.cmd /\ m.val = d.val /\ m.kind = "none"
    <3>1. PICK h : h = Head(hq)
      OBVIOUS
    <3>2. PICK c, v : c = d.cmd /\ v = d.val
      OBVIOUS
    <3>3. m = [h EXCEPT !.cmd = c, !.val = v, !.kind = "none"] /\ h \in Messages /\ c \in Nat /\ v \in Seq(0 .. 255)
      BY <1>1, <2>2, <2>3, <3>1, <3>2
    <3>4. m \in Messages /\ m.cmd = c /\ m.val = v /\ m.kind = "none"
      BY ONLY <3>3 DEF Messages
    <3> QED BY <3>2, <3>4
  <2>5. Sound(m)
    BY <2>3, <2>4, Commands DEF Sound
  <2>6. /\ hq' \in Seq(Messages) /\ Len(hq') = Len(hq) /\ hq'[1] = m
        /\ \A i \in DOMAIN hq : i > 1 => hq'[i] = hq[i]
    <3>1. hq' = <<m>> \o Tail(hq)
      BY <2>1, <2>2
    <3>2. <<m>> \in Seq(Messages) /\ Len(<<m>>) = 1 /\ <<m>>[1] = m
      BY <2>4
    <3>3. /\ hq' \in Seq(Messages) /\ Len(hq') = Len(<<m>>) + Len(Tail(hq))
          /\ \A i \in 1 .. Len(<<m>>) + Len(Tail(hq)) : hq'[i] = IF i <= Len(<<m>>) THEN <<m>>[i] ELSE Tail(hq)[i - Len(<<m>>)]
      BY ONLY <1>2, <3>1, <3>2, ConcatProperties
    <3>4. Len(hq') = Len(hq) /\ hq'[1] = m
      BY ONLY <1>1, <1>2, <3>2, <3>3
    <3>5. ASSUME NEW i \in DOMAIN hq, i > 1
          PROVE  hq'[i] = hq[i]
      <4>1. i \in 1 .. Len(<<m>>) + Len(Tail(hq)) /\ ~(i <= Len(<<m>>)) /\ i \in Nat
        BY <1>1, <1>2, <3>2, <3>5
      <4>2. hq'[i] = Tail(hq)[i - 1]
        BY ONLY <3>2, <3>3, <4>1
      <4>3. i - 1 \in DOMAIN Tail(hq) /\ (i - 1) + 1 = i
        BY <1>1, <1>2, <3>5
      <4> QED BY ONLY <1>2, <4>2, <4>3
    <3> QED BY <3>3, <3>4, <3>5
  <2>7. DOMAIN hq' = DOMAIN hq
    BY <1>1, <2>6
  <2>8. \A i \in DOMAIN hq' : Sound(hq'[i])
    <3> TAKE i \in DOMAIN hq'
    <3>1. CASE i = 1
      BY <2>5, <2>6, <3>1
    <3>2. CASE i # 1
      <4>1. i \in DOMAIN hq /\ i > 1
        BY <1>1, <2>7, <3>2
      <4> QED BY <2>6, <4>1 DEF HqTypes
    <3> QED BY <3>1, <3>2
  <2> QED BY <1>1, <2>6, <2>7, <2>8 DEF HqTypes
<1> QED BY <1>3, <1>4

LEMMA DamageTypes == ASSUME Types, Damage PROVE Types'
<1>1. HqTypes' /\ missed' \in BOOLEAN /\ excused' \in BOOLEAN
  BY DamageIs DEF Types, Damage
<1> QED BY <1>1 DEF Types, Damage, UiTypes, BqTypes, ThreadTypes, StoreTypes, window, serial, board

LEMMA SendAnswerIs ==
  ASSUME Types, SendAnswer
  PROVE  \E i \in DOMAIN answers :
           /\ BqTypes' /\ ThreadTypes' /\ Within(answers', answers)
           /\ Len(bq') = Len(bq) + 1 /\ Len(bq) \in Nat
           /\ \A j \in DOMAIN bq : bq'[j] = bq[j]
           /\ bq'[Len(bq) + 1].kind = answers[i].kind /\ bq'[Len(bq) + 1].val = answers[i].val
<1>1. PICK i \in DOMAIN answers :
        /\ answers' = RemoveAt(answers, i)
        /\ bq' = Append(bq, [kind |-> answers[i].kind, val |-> answers[i].val, cam |-> bid % 4])
  BY DEF SendAnswer
<1>2. answers \in Seq(Threads) /\ answers[i] \in Threads /\ Fits(answers[i].kind, answers[i].val) /\ bid % 4 \in 0 .. 3
  BY DEF Types, ThreadTypes, StoreTypes
<1>3. answers' \in Seq(Threads) /\ Within(answers', answers)
  BY <1>1, <1>2, RemoveWithin
<1>4. ThreadTypes'
  BY <1>3 DEF Types, ThreadTypes, Within
<1> DEFINE a == [kind |-> answers[i].kind, val |-> answers[i].val, cam |-> bid % 4]
<1>5. a \in Replies /\ a.kind = answers[i].kind /\ a.val = answers[i].val
  BY <1>2 DEF Threads, Replies
<1>6. Fits(a.kind, a.val) /\ bq' = Append(bq, a) /\ bq \in Seq(Replies)
  BY <1>1, <1>2 DEF Types, BqTypes
<1> HIDE DEF a
<1>7. /\ bq' \in Seq(Replies) /\ Len(bq') = Len(bq) + 1 /\ Len(bq) \in Nat /\ bq'[Len(bq) + 1] = a
      /\ \A j \in DOMAIN bq : bq'[j] = bq[j]
      /\ DOMAIN bq = 1 .. Len(bq) /\ DOMAIN bq' = 1 .. Len(bq) + 1
  BY <1>5, <1>6
<1>8. BqTypes'
  <2>1. \A j \in DOMAIN bq' : Fits(bq'[j].kind, bq'[j].val)
    <3> TAKE j \in DOMAIN bq'
    <3>1. CASE j = Len(bq) + 1
      BY <1>6, <1>7, <3>1
    <3>2. CASE j # Len(bq) + 1
      <4>1. j \in DOMAIN bq
        BY <1>7, <3>2
      <4> QED BY <1>7, <4>1 DEF Types, BqTypes
    <3> QED BY <3>1, <3>2
  <2> QED BY <1>7, <2>1 DEF BqTypes
<1> QED BY <1>3, <1>4, <1>5, <1>7, <1>8

LEMMA SendAnswerTypes == ASSUME Types, SendAnswer PROVE Types'
<1>1. BqTypes' /\ ThreadTypes'
  BY SendAnswerIs
<1> QED BY <1>1 DEF Types, SendAnswer, UiTypes, HqTypes, StoreTypes, window, serial, board, history

(* The board receives a message: it is refused, executed or stored. *)
LEMMA ReceivedIs ==
  ASSUME HqTypes, Receive
  PROVE  /\ HqTypes' /\ hq # <<>> /\ hq' = Tail(hq) /\ hq[1] \in Messages /\ Sound(hq[1]) /\ 1 \in DOMAIN hq
         /\ \A i \in DOMAIN hq' : i + 1 \in DOMAIN hq /\ hq'[i] = hq[i + 1]
         /\ \A i \in DOMAIN hq : i = 1 \/ (i - 1 \in DOMAIN hq' /\ hq'[i - 1] = hq[i])
         /\ \/ /\ Refuses(hq[1]) /\ refused' = TRUE
               /\ missed' = (missed \/ (HasSwitch(hq) /\ ~HasSwitch(Tail(hq))))
               /\ UNCHANGED <<ui, bq, answers, board, stored, spoilt>>
            \/ /\ ~Refuses(hq[1]) /\ hq[1].kind = "none" /\ Execute(hq[1]) /\ UNCHANGED <<missed, refused>>
            \/ /\ ~Refuses(hq[1]) /\ hq[1].kind # "none" /\ Store(hq[1]) /\ UNCHANGED <<missed, refused>>
<1>1. hq # <<>> /\ hq \in Seq(Messages) /\ Len(hq) <= HostRing /\ HostRing \in Nat /\ hq' = Tail(hq)
  BY SessionAssumption DEF Receive, HqTypes
<1>2. Len(hq) \in Nat \ {0} /\ DOMAIN hq = 1 .. Len(hq)
  BY ONLY <1>1
<1>3. 1 \in DOMAIN hq
  BY ONLY <1>2
<1>4. Head(hq) = hq[1] /\ hq[1] \in Messages /\ Sound(hq[1])
  BY <1>1, <1>3 DEF HqTypes
<1>5. /\ hq' \in Seq(Messages) /\ Len(hq') = Len(hq) - 1
      /\ \A i \in DOMAIN hq' : i + 1 \in DOMAIN hq /\ hq'[i] = hq[i + 1]
  BY <1>1, TailWithin
<1>6. \A i \in DOMAIN hq : i = 1 \/ (i - 1 \in DOMAIN hq' /\ hq'[i - 1] = hq[i])
  <2> SUFFICES ASSUME NEW i \in DOMAIN hq, i # 1
               PROVE  i - 1 \in DOMAIN hq' /\ hq'[i - 1] = hq[i]
    OBVIOUS
  <2>1. DOMAIN hq' = 1 .. Len(hq) - 1
    BY <1>2, <1>5
  <2>2. i - 1 \in DOMAIN hq' /\ (i - 1) + 1 = i
    BY <1>2, <2>1
  <2> QED BY ONLY <1>5, <2>2
<1>7. HqTypes'
  BY <1>1, <1>5 DEF HqTypes
<1>8. \/ /\ Refuses(hq[1]) /\ refused' = TRUE
         /\ missed' = (missed \/ (HasSwitch(hq) /\ ~HasSwitch(Tail(hq))))
         /\ UNCHANGED <<ui, bq, answers, board, stored, spoilt>>
      \/ /\ ~Refuses(hq[1]) /\ hq[1].kind = "none" /\ Execute(hq[1]) /\ UNCHANGED <<missed, refused>>
      \/ /\ ~Refuses(hq[1]) /\ hq[1].kind # "none" /\ Store(hq[1]) /\ UNCHANGED <<missed, refused>>
  <2> DEFINE m == Head(hq)
  <2>1. IF Refuses(m)
        THEN /\ refused' = TRUE
             /\ missed' = (missed \/ (HasSwitch(hq) /\ ~HasSwitch(Tail(hq))))
             /\ UNCHANGED <<ui, bq, answers, board, stored, spoilt>>
        ELSE /\ IF m.kind = "none" THEN Execute(m) ELSE Store(m)
             /\ UNCHANGED <<missed, refused>>
    BY DEF Receive
  <2>2. m = hq[1]
    BY <1>4
  <2> HIDE DEF m
  <2> QED BY ONLY <2>1, <2>2, Zenon
<1> QED BY <1>1, <1>3, <1>4, <1>5, <1>6, <1>7, <1>8

(* What is executed: a prefix of the answers on the line stays, and there  *)
(* is at most one new answer, of what the board holds now.                 *)
LEMMA ExecuteIs ==
  ASSUME Types, NEW m \in Messages, Sound(m), Execute(m)
  PROVE  /\ BqTypes' /\ Within(bq', bq)
         /\ \/ answers' = answers
            \/ \E k \in Kinds : /\ answers' = Append(answers, [kind |-> k, val |-> Answer(k, eeprom, reg, bid)])
                                /\ (k = "hello" => Answer(k, eeprom, reg, bid) = <<bid>>)
         /\ stop' = IF m.cmd = Board.Start THEN FALSE ELSE IF m.cmd = Board.Stop THEN TRUE ELSE stop
         /\ See(eeprom', reg', bid')
         /\ IF m.cmd = Board.SetID
            THEN bid' \in 0 .. 255 /\ eeprom' = SetCameraID(eeprom, bid')
            ELSE UNCHANGED <<bid, eeprom>>
         /\ UNCHANGED <<reg, stored, spoilt>>
<1>1. BqTypes' /\ Within(bq', bq)
  <2>1. bq \in Seq(Replies)
    BY DEF Types, BqTypes
  <2>2. \E n \in 0 .. Len(bq) : bq' = SubSeq(bq, 1, n)
    <3>1. CASE m.cmd \in {Board.Hello, Board.Stop}
      BY <3>1 DEF Execute, drop_unsent
    <3>2. CASE m.cmd \notin {Board.Hello, Board.Stop}
      <4>1. bq' = bq
        BY <3>2 DEF Execute
      <4>2. Len(bq) \in 0 .. Len(bq) /\ SubSeq(bq, 1, Len(bq)) = bq
        BY <2>1, SubSeqFull
      <4> QED BY <4>1, <4>2
    <3> QED BY <3>1, <3>2
  <2>3. bq' \in Seq(Replies) /\ Within(bq', bq)
    BY <2>1, <2>2, PrefixWithin
  <2> QED BY <2>3 DEF Types, BqTypes, Within
<1>2. \/ answers' = answers
      \/ \E k \in Kinds : /\ answers' = Append(answers, [kind |-> k, val |-> Answer(k, eeprom, reg, bid)])
                          /\ (k = "hello" => Answer(k, eeprom, reg, bid) = <<bid>>)
  <2> DEFINE asked == {k \in Requests : Board[k] = m.cmd} \union (IF m.cmd = Board.Hello THEN {"hello"} ELSE {})
  <2>1. answers' = IF \E k \in asked : Answer(k, eeprom, reg, bid) # <<>>
                   THEN LET k == CHOOSE k \in asked : TRUE
                        IN  Append(answers, [kind |-> k, val |-> Answer(k, eeprom, reg, bid)])
                   ELSE answers
    BY DEF Execute
  <2>2. asked \subseteq Kinds
    BY DEF Kinds
  <2> HIDE DEF asked
  <2>3. CASE \E k \in asked : Answer(k, eeprom, reg, bid) # <<>>
    <3>1. PICK k : k = CHOOSE k1 \in asked : TRUE
      OBVIOUS
    <3>2. k \in asked
      BY ONLY <2>3, <3>1
    <3>3. answers' = Append(answers, [kind |-> k, val |-> Answer(k, eeprom, reg, bid)])
      BY ONLY <2>1, <2>3, <3>1
    <3>4. k = "hello" => Answer(k, eeprom, reg, bid) = <<bid>>
      BY <2>2, <3>2, AnswerIs DEF Types, StoreTypes
    <3> QED BY <2>2, <3>2, <3>3, <3>4
  <2>4. CASE ~\E k \in asked : Answer(k, eeprom, reg, bid) # <<>>
    BY <2>1, <2>4
  <2> QED BY <2>3, <2>4
<1>3. /\ stop' = IF m.cmd = Board.Start THEN FALSE ELSE IF m.cmd = Board.Stop THEN TRUE ELSE stop
      /\ See(eeprom', reg', bid')
      /\ UNCHANGED <<reg, stored, spoilt>>
  BY DEF Execute
<1>4. IF m.cmd = Board.SetID
      THEN bid' \in 0 .. 255 /\ eeprom' = SetCameraID(eeprom, bid')
      ELSE UNCHANGED <<bid, eeprom>>
  <2>1. CASE m.cmd = Board.SetID
    <3>1. m.val # <<>> /\ m.val \in Seq(0 .. 255)
      BY <2>1 DEF Sound, Messages
    <3>2. m.val[1] \in 0 .. 255
      <4>1. PICK v : v = m.val
        OBVIOUS
      <4>2. v # <<>> /\ v \in Seq(0 .. 255)
        BY ONLY <3>1, <4>1
      <4>3. v[1] \in 0 .. 255
        BY ONLY <4>2, FirstIn, Zenon
      <4> QED BY ONLY <4>1, <4>3, Zenon
    <3> QED BY <2>1, <3>2 DEF Execute
  <2>2. CASE m.cmd # Board.SetID
    BY <2>2 DEF Execute
  <2> QED BY <2>1, <2>2
<1> QED BY <1>1, <1>2, <1>3, <1>4

LEMMA ExecuteTypes ==
  ASSUME Types, NEW m \in Messages, Sound(m), Execute(m)
  PROVE  UiTypes' /\ BqTypes' /\ ThreadTypes' /\ StoreTypes' /\ stop' \in BOOLEAN
<1>1. StoreTypes'
  <2>1. CASE m.cmd = Board.SetID
    <3>1. bid' \in 0 .. 255 /\ eeprom' = Write(eeprom, 0, <<bid'>>) /\ UNCHANGED <<reg, stored, spoilt>>
      BY <2>1, ExecuteIs DEF SetCameraID, cam_id_config_offset
    <3>2. <<bid'>> \in Seq(Nat) /\ 0 \in Nat /\ eeprom \in [Cells -> Nat]
      BY <3>1 DEF Types, StoreTypes
    <3>3. eeprom' \in [Cells -> Nat]
      BY ONLY <3>1, <3>2, WriteIs
    <3> QED BY <3>1, <3>3 DEF Types, StoreTypes
  <2>2. CASE m.cmd # Board.SetID
    BY <2>2, ExecuteIs DEF Types, StoreTypes
  <2> QED BY <2>1, <2>2
<1>2. UiTypes'
  <2>1. See(eeprom', reg', bid') /\ eeprom' \in [Cells -> Nat] /\ reg' \in Nat /\ bid' \in 0 .. 255 /\ UiTypes
    BY <1>1, ExecuteIs DEF StoreTypes, Types
  <2> QED BY ONLY <2>1, SeeTypes
<1>3. ThreadTypes'
  <2>1. answers \in Seq(Threads) /\ \A i \in DOMAIN answers : Fits(answers[i].kind, answers[i].val)
    BY DEF Types, ThreadTypes
  <2>2. CASE answers' = answers
    BY <2>1, <2>2 DEF ThreadTypes
  <2>3. ASSUME NEW k \in Kinds, answers' = Append(answers, [kind |-> k, val |-> Answer(k, eeprom, reg, bid)])
        PROVE  ThreadTypes'
    <3>1. PICK a : a = [kind |-> k, val |-> Answer(k, eeprom, reg, bid)]
      OBVIOUS
    <3>2. Answer(k, eeprom, reg, bid) \in Seq(Nat) /\ Fits(k, Answer(k, eeprom, reg, bid))
      BY AnswerIs DEF Types, StoreTypes
    <3>3. a \in Threads /\ Fits(a.kind, a.val)
      BY <3>1, <3>2 DEF Threads
    <3>4. answers' = Append(answers, a)
      BY <2>3, <3>1
    <3>5. answers' \in Seq(Threads) /\ \A i \in DOMAIN answers' : answers'[i] = a \/ (i \in DOMAIN answers /\ answers'[i] = answers[i])
      BY ONLY <2>1, <3>3, <3>4
    <3> QED BY <2>1, <3>3, <3>5 DEF ThreadTypes
  <2> QED BY <2>2, <2>3, ExecuteIs
<1>4. stop' \in BOOLEAN
  <2>1. stop' = TRUE \/ stop' = FALSE \/ stop' = stop
    BY ExecuteIs
  <2> QED BY <2>1, Zenon DEF Types
<1> QED BY <1>1, <1>2, <1>3, <1>4, ExecuteIs

-----------------------------------------------------------------------------
(* The cells of an area that is written are the size and the bytes, and no *)
(* others change.                                                          *)
LEMMA AreaWritten ==
  ASSUME NEW k \in Areas, NEW e \in [Cells -> Nat], NEW v \in Seq(Nat), Len(v) <= MaxSize[k],
         NEW w, w = Write(e, Offset[k], <<Len(v)>> \o v)
  PROVE  /\ w \in [Cells -> Nat]
         /\ w[Offset[k]] = Len(v) /\ \A n \in 1 .. Len(v) : w[Offset[k] + n] = v[n]
         /\ \A a \in Cells : a < Offset[k] \/ a > Offset[k] + Len(v) => w[a] = e[a]
<1>1. /\ Offset[k] \in Nat \ {0} /\ Offset[k] + MaxSize[k] <= streaming_mode_offset /\ MaxSize[k] \in Nat
      /\ streaming_mode_offset \in Nat /\ hw_status_offset = streaming_mode_offset + 1
  BY Layout
<1>2. PICK o, l, c : o = Offset[k] /\ l = Len(v) /\ c = <<Len(v)>> \o v
  OBVIOUS
<1>3. l \in Nat /\ <<l>> \in Seq(Nat) /\ Len(<<l>>) = 1 /\ <<l>>[1] = l /\ c = <<l>> \o v
  BY <1>2
<1>4. /\ c \in Seq(Nat) /\ Len(c) = Len(<<l>>) + Len(v)
      /\ \A n \in 1 .. Len(<<l>>) + Len(v) : c[n] = IF n <= Len(<<l>>) THEN <<l>>[n] ELSE v[n - Len(<<l>>)]
  BY ONLY <1>3, v \in Seq(Nat), ConcatProperties
<1>5. Len(c) = 1 + l /\ c[1] = l /\ \A n \in 1 .. l : c[n + 1] = v[n]
  <2>1. Len(c) = 1 + l /\ c[1] = l
    BY ONLY <1>2, <1>3, <1>4
  <2>2. ASSUME NEW n \in 1 .. l
        PROVE  c[n + 1] = v[n]
    <3>1. n + 1 \in 1 .. Len(<<l>>) + Len(v) /\ ~(n + 1 <= Len(<<l>>)) /\ (n + 1) - Len(<<l>>) = n
      BY <1>2, <1>3
    <3>2. c[n + 1] = v[(n + 1) - Len(<<l>>)]
      BY ONLY <1>4, <3>1
    <3> QED BY ONLY <3>1, <3>2
  <2> QED BY <2>1, <2>2
<1>6. o \in Nat /\ w = Write(e, o, c)
  BY <1>1, <1>2
<1>7. /\ w \in [Cells -> Nat]
      /\ \A a \in Cells : a \in o .. o + Len(c) - 1 => w[a] = c[a - o + 1]
      /\ \A a \in Cells : a \notin o .. o + Len(c) - 1 => w[a] = e[a]
  BY ONLY <1>4, <1>6, e \in [Cells -> Nat], WriteIs, ZenonT(40)
<1>8. \A a \in o .. o + l : a \in Cells /\ a \in Nat
  BY <1>1, <1>2, <1>3, SMTT(30) DEF Cells
<1>9. w[o] = l
  <2>1. o \in Cells /\ o \in o .. o + Len(c) - 1 /\ o - o + 1 = 1
    BY ONLY <1>3, <1>5, <1>6, <1>8
  <2>2. w[o] = c[o - o + 1]
    BY ONLY <1>7, <2>1, Zenon
  <2> QED BY ONLY <1>5, <2>1, <2>2
<1>10. ASSUME NEW n \in 1 .. l
       PROVE  w[o + n] = v[n]
  <2>1. o + n \in Cells /\ o + n \in o .. o + Len(c) - 1 /\ (o + n) - o + 1 = n + 1
    BY ONLY <1>3, <1>5, <1>6, <1>8, n \in 1 .. l
  <2>2. w[o + n] = c[(o + n) - o + 1]
    BY ONLY <1>7, <2>1, Zenon
  <2> QED BY ONLY <1>5, <2>1, <2>2, n \in 1 .. l
<1>11. \A a \in Cells : a < o \/ a > o + l => w[a] = e[a]
  <2>1. \A a \in Cells : (a < o \/ a > o + l) => a \notin o .. o + Len(c) - 1
    BY ONLY <1>3, <1>5, <1>6
  <2> QED BY ONLY <1>7, <2>1, Zenon
<1> QED BY ONLY <1>2, <1>7, <1>9, <1>10, <1>11

(* The store keeps a configuration that fits, and forgets nothing else.    *)
LEMMA StoreIs ==
  ASSUME Types, NEW m \in Messages, Sound(m), m.kind # "none", Store(m)
  PROVE  /\ StoreTypes' /\ See(eeprom', reg', bid) /\ UNCHANGED <<bq, answers, bid, stop>>
         /\ \/ UNCHANGED <<eeprom, stored, spoilt>>
            \/ /\ m.kind \in Areas /\ m.val \in Seq(Nat) /\ Len(m.val) <= MaxSize[m.kind]
               /\ eeprom' = Write(eeprom, Offset[m.kind], <<Len(m.val)>> \o m.val)
               /\ stored' = [stored EXCEPT ![m.kind] = m.val]
               /\ spoilt' = (spoilt \ {m.kind}) \union Reached(m.kind, m.val)
<1>1. m.kind \in Areas \union {"reg"} /\ m.val \in Seq(Nat) /\ (m.kind = "reg" => m.val # <<>>)
  <2>1. m.kind \in Areas \union {"none", "reg"} /\ m.val \in Seq(0 .. 255)
    BY DEF Messages
  <2>2. 0 .. 255 \subseteq Nat
    OBVIOUS
  <2>3. m.val \in Seq(Nat)
    BY ONLY <2>1, <2>2, SeqMonotonic
  <2> QED BY <2>1, <2>3 DEF Sound
<1>2. /\ bid \in 0 .. 255 /\ reg \in Nat /\ eeprom \in [Cells -> Nat]
      /\ stored \in [Areas -> Seq(Nat)] /\ spoilt \subseteq Areas \union {"mode"}
  BY DEF Types, StoreTypes
<1>3. See(eeprom', reg', bid) /\ UNCHANGED <<bq, answers, bid, stop>>
  BY DEF Store
<1>4. CASE m.kind = "reg"
  <2>1. reg' = m.val[1] /\ UNCHANGED <<eeprom, stored, spoilt>>
    BY <1>4 DEF Store
  <2>2. reg' \in Nat
    <3>1. PICK v \in Seq(Nat) : v = m.val
      BY <1>1
    <3>2. v[1] \in Nat
      BY ONLY <1>1, <1>4, <3>1, FirstIn, Zenon
    <3> QED BY ONLY <2>1, <3>1, <3>2, Zenon
  <2> QED BY <1>2, <1>3, <2>1, <2>2 DEF StoreTypes
<1>5. CASE m.kind \in Areas /\ Len(m.val) > MaxSize[m.kind]
  <2>1. UNCHANGED <<eeprom, stored, spoilt, reg>>
    BY <1>5 DEF Store, SetCfg, Areas
  <2> QED BY <1>2, <1>3, <2>1 DEF StoreTypes
<1>6. CASE m.kind \in Areas /\ ~(Len(m.val) > MaxSize[m.kind])
  <2>1. /\ m.kind # "reg"
        /\ eeprom' = Write(eeprom, Offset[m.kind], <<Len(m.val)>> \o m.val)
        /\ stored' = [stored EXCEPT ![m.kind] = m.val]
        /\ spoilt' = (spoilt \ {m.kind}) \union Reached(m.kind, m.val)
        /\ UNCHANGED reg
    BY <1>6 DEF Store, SetCfg, Areas
  <2>2. Len(m.val) <= MaxSize[m.kind]
    <3>1. MaxSize[m.kind] \in Nat /\ Len(m.val) \in Nat
      <4>1. PICK k \in Areas, v \in Seq(Nat) : k = m.kind /\ v = m.val
        BY <1>1, <1>6
      <4>2. MaxSize[k] \in Nat /\ Len(v) \in Nat
        BY ONLY <4>1, Layout, SMTT(30)
      <4> QED BY ONLY <4>1, <4>2, Zenon
    <3> QED BY <1>6, <3>1
  <2>3. eeprom' \in [Cells -> Nat]
    <3>1. PICK k \in Areas, v \in Seq(Nat) : k = m.kind /\ v = m.val
      BY <1>1, <1>6
    <3>2. eeprom' = Write(eeprom, Offset[k], <<Len(v)>> \o v) /\ Len(v) <= MaxSize[k]
      BY ONLY <2>1, <2>2, <3>1, Zenon
    <3> QED BY ONLY <1>2, <3>2, AreaWritten, Zenon
  <2>4. stored' \in [Areas -> Seq(Nat)]
    BY <1>1, <1>2, <1>6, <2>1
  <2>5. spoilt' \subseteq Areas \union {"mode"}
    <3>1. Reached(m.kind, m.val) \subseteq Areas \union {"mode"}
      <4>1. \A k \in Areas : After[k] \in Areas \union {"mode"}
        BY DEF After, Areas
      <4> QED BY <1>6, <4>1 DEF Reached
    <3> QED BY <1>2, <2>1, <3>1
  <2> QED BY <1>1, <1>2, <1>3, <1>6, <2>1, <2>2, <2>3, <2>4, <2>5 DEF StoreTypes
<1> QED BY <1>1, <1>4, <1>5, <1>6

LEMMA ReceiveTypes == ASSUME Types, Receive PROVE Types'
<1>1. HqTypes /\ HqTypes'
  BY ReceivedIs DEF Types
<1>2. /\ hq[1] \in Messages /\ Sound(hq[1])
      /\ \/ refused' = TRUE /\ missed' = (missed \/ (HasSwitch(hq) /\ ~HasSwitch(Tail(hq))))
            /\ UNCHANGED <<ui, bq, answers, board, stored, spoilt>>
         \/ Execute(hq[1]) /\ UNCHANGED <<missed, refused>>
         \/ hq[1].kind # "none" /\ Store(hq[1]) /\ UNCHANGED <<missed, refused>>
  BY <1>1, ReceivedIs
<1>3. missed' \in BOOLEAN /\ refused' \in BOOLEAN
  <2>1. (missed \/ (HasSwitch(hq) /\ ~HasSwitch(Tail(hq)))) \in BOOLEAN
    OBVIOUS
  <2> QED BY ONLY <1>2, <2>1, Types, Zenon DEF Types
<1>4. UiTypes' /\ BqTypes' /\ ThreadTypes' /\ StoreTypes' /\ stop' \in BOOLEAN
  <2>1. CASE UNCHANGED <<ui, bq, answers, board, stored, spoilt>>
    BY <2>1 DEF Types, UiTypes, BqTypes, ThreadTypes, StoreTypes, board
  <2>2. CASE Execute(hq[1])
    BY <1>2, <2>2, ExecuteTypes
  <2>3. CASE hq[1].kind # "none" /\ Store(hq[1])
    <3>1. PICK m \in Messages : m = hq[1]
      BY <1>2
    <3>2. Sound(m) /\ m.kind # "none" /\ Store(m)
      BY ONLY <1>2, <2>3, <3>1, Zenon
    <3>3. StoreTypes' /\ See(eeprom', reg', bid) /\ UNCHANGED <<bq, answers, bid, stop>>
      BY <3>2, StoreIs
    <3>4. UiTypes /\ eeprom' \in [Cells -> Nat] /\ reg' \in Nat /\ bid \in 0 .. 255
      BY <3>3 DEF StoreTypes, Types
    <3>5. UiTypes'
      BY ONLY <3>3, <3>4, SeeTypes
    <3> QED BY <3>3, <3>5 DEF Types, BqTypes, ThreadTypes
  <2> QED BY ONLY <1>2, <2>1, <2>2, <2>3, Zenon
<1> QED BY <1>1, <1>3, <1>4 DEF Types, Receive, serial

LEMMA TypesStep == ASSUME Types, CallbackAlive, Next PROVE Types'
  BY ClickTypes, StopTypes, PlayTypes, PutTypes, ChangeIDTypes, EditTypes, OpenTypes, AskTypes, GotAnswerTypes,
     GotHelloTypes, ArrivesTypes, AnswerLostTypes, DamageTypes, ReceiveTypes, SendAnswerTypes DEF Next, UiStep

-----------------------------------------------------------------------------
(* The callbacks. *)
LEMMA Below ==
  ASSUME UiTypes, UiTypes', ui # <<>>, Len(ui') \in {Len(ui) - 1, Len(ui)},
         \A i \in DOMAIN ui' : i < Len(ui) => ui'[i] = ui[i],
         NEW c \in DOMAIN ui, c # Len(ui)
  PROVE  c \in DOMAIN ui' /\ ui'[c] = ui[c]
<1>1. /\ DOMAIN ui = 1 .. Len(ui) /\ DOMAIN ui' = 1 .. Len(ui') /\ Len(ui) \in Nat \ {0}
  BY DEF UiTypes
<1>2. c \in 1 .. Len(ui) /\ c < Len(ui)
  <2>1. c \in 1 .. Len(ui)
    BY ONLY <1>1, c \in DOMAIN ui, Zenon
  <2> QED BY ONLY <1>1, <2>1, c # Len(ui)
<1>3. c \in DOMAIN ui'
  <2>1. CASE Len(ui') = Len(ui)
    BY ONLY <1>1, <1>2, <2>1
  <2>2. CASE Len(ui') = Len(ui) - 1
    BY ONLY <1>1, <1>2, <2>2
  <2> QED BY <2>1, <2>2
<1> QED BY <1>2, <1>3

(* A handler that does not wait has no callback. *)
LEMMA TopIdle ==
  ASSUME Types, Types', CallbackAlive, ui # <<>>, Top.kind = "none", UNCHANGED <<cb, cbReg>>,
         Len(ui') \in {Len(ui) - 1, Len(ui)}, \A i \in DOMAIN ui' : i < Len(ui) => ui'[i] = ui[i]
  PROVE  CallbackAlive'
<1>1. UiTypes /\ UiTypes' /\ Top = ui[Len(ui)]
  BY DEF Types, Top
<1>3. ASSUME cbReg # 0
      PROVE  cbReg \in DOMAIN ui' /\ ui'[cbReg].kind = "reg"
  <2>1. cbReg \in DOMAIN ui /\ ui[cbReg].kind = "reg" /\ cbReg # Len(ui)
    BY <1>1, <1>3 DEF CallbackAlive
  <2> QED BY <1>1, <1>3, <2>1, Below
<1>4. ASSUME cb # 0
      PROVE  cb \in DOMAIN ui' /\ ui'[cb].kind \notin {"none", "reg"}
  <2>1. cb \in DOMAIN ui /\ ui[cb].kind \notin {"none", "reg"} /\ cb # Len(ui)
    BY <1>1, <1>4 DEF CallbackAlive
  <2> QED BY <1>1, <1>4, <2>1, Below
<1> QED BY <1>3, <1>4 DEF CallbackAlive

(* Nothing is done to the handlers that wait. *)
LEMMA SameKinds ==
  ASSUME CallbackAlive, UNCHANGED <<cb, cbReg>>, \A i \in DOMAIN ui : i \in DOMAIN ui' /\ ui'[i].kind = ui[i].kind
  PROVE  CallbackAlive'
<1>1. ASSUME cbReg # 0
      PROVE  cbReg \in DOMAIN ui' /\ ui'[cbReg].kind = "reg"
  BY <1>1 DEF CallbackAlive
<1>2. ASSUME cb # 0
      PROVE  cb \in DOMAIN ui' /\ ui'[cb].kind \notin {"none", "reg"}
  <2>1. cb \in DOMAIN ui /\ ui[cb].kind \notin {"none", "reg"}
    BY <1>2 DEF CallbackAlive
  <2> QED BY <2>1
<1> QED BY <1>1, <1>2 DEF CallbackAlive

(* The steps of the handlers that make a call. *)
LEMMA CallIs ==
  ASSUME Types, Stop \/ Play \/ Put \/ ChangeID \/ Edit \/ Open
  PROVE  /\ ui # <<>> /\ Top.kind = "none" /\ Len(ui') \in {Len(ui) - 1, Len(ui)}
         /\ \A i \in DOMAIN ui' : i < Len(ui) => ui'[i] = ui[i]
         /\ Len(ui') = Len(ui) => ui'[Len(ui)].kind = "none" /\ ui'[Len(ui)].got = Top.got
         /\ UNCHANGED <<cb, cbReg, bq, answers, board, stored, spoilt>>
<1>1. UiTypes
  BY DEF Types
<1>2. CASE Open
  <2>1. Top.kind = "none"
    BY <1>2 DEF Open, Doing
  <2>2. UNCHANGED <<cb, cbReg, bq, answers, board, stored, spoilt>>
    BY <1>2 DEF Open
  <2> QED BY ONLY <1>1, <1>2, <2>1, <2>2, OpenIs
<1>3. CASE Stop \/ Play \/ Put \/ ChangeID \/ Edit
  <2>1. /\ Proceed /\ \E what \in {"stop", "play", "put", "id", "edit"} : Doing(what)
        /\ UNCHANGED <<cb, cbReg, bq, answers, board, stored, spoilt>>
    BY <1>3 DEF Stop, Play, Put, ChangeID, Edit, serial, history
  <2>2. Top.kind = "none" /\ ui # <<>>
    BY <2>1 DEF Doing
  <2> QED BY <1>1, <2>1, <2>2, ProceedIs
<1> QED BY <1>2, <1>3

LEMMA CallbackStep ==
  ASSUME Types, Types', CallbackAlive, Next
  PROVE  CallbackAlive'
<1>0. UiTypes /\ UiTypes' /\ HqTypes /\ BqTypes /\ StoreTypes
  BY DEF Types
<1>1. CASE Click
  <2>1. /\ UNCHANGED <<cb, cbReg>> /\ Len(ui') = Len(ui) + 1 /\ Len(ui) \in Nat
        /\ \A i \in DOMAIN ui : ui'[i] = ui[i]
    BY <1>0, <1>1, ClickIs DEF Click, serial, Types
  <2>2. DOMAIN ui = 1 .. Len(ui) /\ DOMAIN ui' = 1 .. Len(ui')
    BY <1>0 DEF UiTypes
  <2>3. \A i \in DOMAIN ui : i \in DOMAIN ui'
    BY ONLY <2>1, <2>2
  <2> QED BY <2>1, <2>3, SameKinds
<1>2. CASE Stop \/ Play \/ Put \/ ChangeID \/ Edit \/ Open
  BY <1>2, CallIs, TopIdle
<1>3. CASE Ask
  <2>1. PICK k \in Kinds :
           /\ ui # <<>> /\ Len(ui') = Len(ui) /\ Len(ui) \in DOMAIN ui /\ Top.kind = "none"
           /\ \A i \in DOMAIN ui' : i < Len(ui) => ui'[i] = ui[i]
           /\ ui'[Len(ui)].kind = k
           /\ cb' = (IF k = "reg" THEN cb ELSE Len(ui)) /\ cbReg' = (IF k = "reg" THEN Len(ui) ELSE cbReg)
    BY <1>0, <1>3, AskIs
  <2>2. DOMAIN ui = 1 .. Len(ui) /\ DOMAIN ui' = 1 .. Len(ui') /\ Top = ui[Len(ui)] /\ k # "none" /\ Len(ui) \in Nat
    BY <1>0 DEF UiTypes, Top, Kinds, Requests
  <2>3. \A i \in DOMAIN ui : i # Len(ui) => i \in DOMAIN ui' /\ ui'[i] = ui[i]
    BY ONLY <2>1, <2>2
  <2>4. Len(ui) \in DOMAIN ui'
    BY ONLY <2>1, <2>2
  <2>5. ASSUME cbReg' # 0
        PROVE  cbReg' \in DOMAIN ui' /\ ui'[cbReg'].kind = "reg"
    <3>1. CASE k = "reg"
      BY <2>1, <2>4, <3>1
    <3>2. CASE k # "reg"
      <4>1. cbReg' = cbReg /\ cbReg \in DOMAIN ui /\ ui[cbReg].kind = "reg" /\ cbReg # Len(ui)
        BY <2>1, <2>2, <2>5, <3>2 DEF CallbackAlive
      <4> QED BY <2>3, <4>1
    <3> QED BY <3>1, <3>2
  <2>6. ASSUME cb' # 0
        PROVE  cb' \in DOMAIN ui' /\ ui'[cb'].kind \notin {"none", "reg"}
    <3>1. CASE k # "reg"
      BY <2>1, <2>2, <2>4, <3>1
    <3>2. CASE k = "reg"
      <4>1. cb' = cb /\ cb \in DOMAIN ui /\ ui[cb].kind \notin {"none", "reg"} /\ cb # Len(ui)
        BY <2>1, <2>2, <2>6, <3>2 DEF CallbackAlive
      <4> QED BY <2>3, <4>1
    <3> QED BY <3>1, <3>2
  <2> QED BY <2>5, <2>6 DEF CallbackAlive
<1>4. CASE GotAnswer \/ GotHello
  <2>1. /\ Enough /\ Forget /\ Unset /\ ui # <<>>
    BY <1>4 DEF GotAnswer, GotHello, Enough
  <2>2. /\ Len(ui') \in {Len(ui) - 1, Len(ui)}
        /\ \A i \in DOMAIN ui' : i < Len(ui) => ui'[i] = ui[i]
    BY <1>0, <2>1, ForgetIs
  <2>3. Top = ui[Len(ui)]
    BY DEF Top
  <2>4. ASSUME cbReg' # 0
        PROVE  cbReg' \in DOMAIN ui' /\ ui'[cbReg'].kind = "reg"
    <3>1. cbReg' = cbReg /\ Top.kind # "reg"
      BY <2>1, <2>4 DEF Unset
    <3>2. cbReg \in DOMAIN ui /\ ui[cbReg].kind = "reg" /\ cbReg # Len(ui)
      BY <2>3, <2>4, <3>1 DEF CallbackAlive
    <3>3. cbReg \in DOMAIN ui' /\ ui'[cbReg] = ui[cbReg]
      BY <1>0, <2>1, <2>2, <3>2, Below
    <3> QED BY <3>1, <3>2, <3>3
  <2>5. ASSUME cb' # 0
        PROVE  cb' \in DOMAIN ui' /\ ui'[cb'].kind \notin {"none", "reg"}
    <3>1. cb' = cb /\ Top.kind = "reg"
      BY <2>1, <2>5 DEF Unset
    <3>2. cb \in DOMAIN ui /\ ui[cb].kind \notin {"none", "reg"} /\ cb # Len(ui)
      BY <2>3, <2>5, <3>1 DEF CallbackAlive
    <3>3. cb \in DOMAIN ui' /\ ui'[cb] = ui[cb]
      BY <1>0, <2>1, <2>2, <3>2, Below
    <3> QED BY <3>1, <3>2, <3>3
  <2> QED BY <2>4, <2>5 DEF CallbackAlive
<1>5. CASE Arrives
  <2>1. UNCHANGED <<cb, cbReg>> /\ DOMAIN ui' = DOMAIN ui /\ \A i \in DOMAIN ui : ui'[i].kind = ui[i].kind
    BY <1>0, <1>5, ArrivesIs DEF Arrives, serial
  <2> QED BY <2>1, SameKinds
<1>6. CASE AnswerLost \/ Damage \/ SendAnswer
  BY <1>6, SameKinds DEF AnswerLost, Damage, SendAnswer, window, serial
<1>7. CASE Receive
  <2>1. UNCHANGED <<cb, cbReg>>
    BY <1>7 DEF Receive, serial
  <2>2. CASE UNCHANGED ui
    BY <2>1, <2>2, SameKinds
  <2>3. CASE See(eeprom', reg', bid')
    <3>1. ui \in Seq(Handlers) /\ eeprom' \in [Cells -> Nat] /\ reg' \in Nat /\ bid' \in 0 .. 255
      BY <1>0 DEF UiTypes, Types, StoreTypes
    <3>2. DOMAIN ui' = DOMAIN ui /\ \A i \in DOMAIN ui : ui'[i].kind = ui[i].kind
      BY ONLY <2>3, <3>1, SeeIs
    <3> QED BY <2>1, <3>2, SameKinds
  <2>4. UNCHANGED ui \/ See(eeprom', reg', bid')
    <3>1. UNCHANGED ui \/ Execute(hq[1]) \/ Store(hq[1])
      BY <1>0, <1>7, ReceivedIs
    <3> QED BY <3>1 DEF Execute, Store
  <2> QED BY <2>2, <2>3, <2>4
<1> QED BY <1>1, <1>2, <1>3, <1>4, <1>5, <1>6, <1>7 DEF Next, UiStep

-----------------------------------------------------------------------------
(* The window and the board agree. *)
LEMMA AgreedKept ==
  ASSUME Agreed, shown' <=> shown, stop' <=> stop, HasSwitch(hq) => HasSwitch(hq'),
         \A i \in DOMAIN hq' : LastSwitch(hq', i) => \E j \in DOMAIN hq : LastSwitch(hq, j) /\ hq'[i] = hq[j]
  PROVE  Agreed'
<1>1. ASSUME NEW i \in DOMAIN hq', LastSwitch(hq', i)
      PROVE  hq'[i].cmd = Host.Start <=> shown'
  <2>1. PICK j \in DOMAIN hq : LastSwitch(hq, j) /\ hq'[i] = hq[j]
    BY <1>1
  <2>2. hq[j].cmd = Host.Start <=> shown
    BY <2>1 DEF Agreed
  <2> QED BY <2>1, <2>2
<1>2. ~HasSwitch(hq') => (stop' <=> ~shown')
  BY DEF Agreed
<1> QED BY <1>1, <1>2 DEF Agreed

(* A message that is no switch is sent. *)
LEMMA SentKept ==
  ASSUME HqTypes, HqTypes', Agreed, shown' <=> shown, stop' <=> stop,
         Len(hq') = Len(hq) + 1, \A i \in DOMAIN hq : hq'[i] = hq[i], ~Switches(hq'[Len(hq) + 1])
  PROVE  Agreed'
<1>1. /\ DOMAIN hq = 1 .. Len(hq) /\ DOMAIN hq' = 1 .. Len(hq) + 1 /\ Len(hq) \in Nat
      /\ \A i \in DOMAIN hq : i \in DOMAIN hq'
      /\ \A i \in DOMAIN hq' : i = Len(hq) + 1 \/ i \in DOMAIN hq
  BY DEF HqTypes
<1>2. HasSwitch(hq) => HasSwitch(hq')
  BY <1>1 DEF HasSwitch
<1>3. ASSUME NEW i \in DOMAIN hq', LastSwitch(hq', i)
      PROVE  i \in DOMAIN hq /\ LastSwitch(hq, i) /\ hq'[i] = hq[i]
  <2>1. i \in DOMAIN hq
    BY <1>1, <1>3 DEF LastSwitch
  <2> QED BY <1>1, <1>3, <2>1 DEF LastSwitch
<1> QED BY <1>2, <1>3, AgreedKept

(* Of what is on the way the first message goes, or becomes another. *)
LEMMA TailKept ==
  ASSUME HqTypes, hq # <<>>, HasSwitch(Tail(hq)), Agreed, shown' <=> shown,
         NEW d \in {0, 1}, HqTypes', Len(hq') = Len(hq) - d,
         \A i \in DOMAIN hq : i # 1 => hq'[i - d] = hq[i]
  PROVE  Agreed'
<1> DEFINE t == Tail(hq)
<1>1. /\ hq \in Seq(Messages) /\ Len(hq) \in Nat \ {0} /\ DOMAIN hq = 1 .. Len(hq)
      /\ hq' \in Seq(Messages) /\ DOMAIN hq' = 1 .. Len(hq) - d
  BY DEF HqTypes
<1>2. t \in Seq(Messages) /\ Len(t) = Len(hq) - 1 /\ \A i \in DOMAIN t : i + 1 \in DOMAIN hq /\ t[i] = hq[i + 1]
  BY <1>1, TailWithin
<1>3. PICK s \in DOMAIN hq : s # 1 /\ Switches(hq[s])
  <2>1. PICK i \in DOMAIN t : Switches(t[i])
    BY DEF HasSwitch
  <2>2. i + 1 \in DOMAIN hq /\ i + 1 # 1 /\ hq[i + 1] = t[i]
    BY <1>2, <2>1
  <2> QED BY <2>1, <2>2
<1> HIDE DEF t
<1>4. \A i \in DOMAIN hq : i # 1 => i - d \in DOMAIN hq'
  BY ONLY <1>1, d \in {0, 1}
<1>5. HasSwitch(hq) /\ HasSwitch(hq')
  <2>1. s - d \in DOMAIN hq' /\ hq'[s - d] = hq[s]
    BY <1>3, <1>4
  <2> QED BY <1>3, <2>1 DEF HasSwitch
<1>6. ASSUME NEW i \in DOMAIN hq', LastSwitch(hq', i)
      PROVE  \E j \in DOMAIN hq : LastSwitch(hq, j) /\ hq'[i] = hq[j]
  <2>1. i >= s - d
    <3>1. s - d \in DOMAIN hq' /\ Switches(hq'[s - d])
      BY <1>3, <1>4
    <3>2. ~(i < s - d)
      BY ONLY <1>6, <3>1 DEF LastSwitch
    <3> QED BY ONLY <1>1, <1>3, <3>2, i \in DOMAIN hq', d \in {0, 1}
  <2>2. i + d \in DOMAIN hq /\ i + d # 1 /\ (i + d) - d = i
    BY ONLY <1>1, <1>3, <2>1, i \in DOMAIN hq', d \in {0, 1}
  <2>3. hq'[i] = hq[i + d]
    <3>1. hq'[(i + d) - d] = hq[i + d]
      BY ONLY <2>2, \A j \in DOMAIN hq : j # 1 => hq'[j - d] = hq[j], Zenon
    <3> QED BY ONLY <2>2, <3>1
  <2>4. LastSwitch(hq, i + d)
    <3>1. Switches(hq[i + d])
      BY <1>6, <2>3 DEF LastSwitch
    <3>2. ASSUME NEW j \in DOMAIN hq, i + d < j
          PROVE  ~Switches(hq[j])
      <4>1. j # 1 /\ i < j - d
        BY ONLY <1>1, <2>2, <3>2, i \in DOMAIN hq', j \in DOMAIN hq, d \in {0, 1}
      <4>2. j - d \in DOMAIN hq' /\ hq'[j - d] = hq[j]
        BY <1>4, <4>1
      <4> QED BY ONLY <1>6, <4>1, <4>2, Zenon DEF LastSwitch
    <3> QED BY <3>1, <3>2 DEF LastSwitch
  <2> QED BY <2>2, <2>3, <2>4
<1>7. \A i \in DOMAIN hq' : LastSwitch(hq', i) => (hq'[i].cmd = Host.Start <=> shown')
  <2> TAKE i \in DOMAIN hq'
  <2> HAVE LastSwitch(hq', i)
  <2>1. PICK j \in DOMAIN hq : LastSwitch(hq, j) /\ hq'[i] = hq[j]
    BY <1>6
  <2>2. hq[j].cmd = Host.Start <=> shown
    BY <2>1 DEF Agreed
  <2> QED BY <2>1, <2>2
<1> QED BY <1>5, <1>7 DEF Agreed

(* What is forgotten has no switch. *)
LEMMA PrefixKept ==
  ASSUME Types, Agreed, shown' <=> shown, stop' <=> stop, NEW n \in 0 .. Len(hq), hq' = SubSeq(hq, 1, n),
         \A i \in n + 1 .. Len(hq) : ~Switches(hq[i])
  PROVE  Agreed'
<1>1. DOMAIN hq' = 1 .. n /\ \A i \in 1 .. n : hq'[i] = hq[i] /\ i \in DOMAIN hq
  BY PrefixTypes
<1>2. DOMAIN hq = 1 .. Len(hq) /\ Len(hq) \in Nat
  BY DEF Types, HqTypes
<1>3. \A i \in DOMAIN hq : i \in 1 .. n \/ i \in n + 1 .. Len(hq)
  BY ONLY <1>2, n \in 0 .. Len(hq)
<1>4. HasSwitch(hq) => HasSwitch(hq')
  BY <1>1, <1>3 DEF HasSwitch
<1>5. ASSUME NEW i \in DOMAIN hq', LastSwitch(hq', i)
      PROVE  i \in DOMAIN hq /\ LastSwitch(hq, i) /\ hq'[i] = hq[i]
  BY <1>1, <1>3, <1>5 DEF LastSwitch
<1> QED BY <1>4, <1>5, AgreedKept

(* A switch is sent, and the window says so. *)
LEMMA SwitchSent ==
  ASSUME HqTypes, HqTypes', Len(hq') = Len(hq) + 1, Switches(hq'[Len(hq) + 1]),
         hq'[Len(hq) + 1].cmd = Host.Start <=> shown'
  PROVE  Agreed'
<1>1. /\ DOMAIN hq' = 1 .. Len(hq) + 1 /\ Len(hq) \in Nat
      /\ \A i \in DOMAIN hq' : i = Len(hq) + 1 \/ i < Len(hq) + 1
      /\ Len(hq) + 1 \in DOMAIN hq'
  BY DEF HqTypes
<1>2. HasSwitch(hq')
  BY <1>1 DEF HasSwitch
<1>3. \A i \in DOMAIN hq' : LastSwitch(hq', i) => i = Len(hq) + 1
  BY <1>1 DEF LastSwitch
<1> QED BY <1>2, <1>3 DEF Agreed

(* What the configurator sends. *)
LEMMA Sends ==
  ASSUME Types, Stop \/ Play \/ Put \/ ChangeID \/ Ask
  PROVE  /\ HqTypes /\ HqTypes' /\ Len(hq') = Len(hq) + 1 /\ Len(hq) \in Nat /\ \A i \in DOMAIN hq : hq'[i] = hq[i]
         /\ hq'[Len(hq) + 1].cam = hid % 4
         /\ Stop => hq'[Len(hq) + 1].cmd = 3
         /\ Play => hq'[Len(hq) + 1].cmd = 2
         /\ Put => hq'[Len(hq) + 1].cmd = 0
         /\ ChangeID => hq'[Len(hq) + 1].cmd = 9
         /\ Ask => hq'[Len(hq) + 1].cmd \in {1} \union 4 .. 8 /\ (Head(Top.todo)[2] = "hello" => hq'[Len(hq) + 1].cmd = 1)
<1> DEFINE m == hq'[Len(hq) + 1]
           Sent(c) == /\ HqTypes' /\ Len(hq') = Len(hq) + 1 /\ Len(hq) \in Nat /\ (\A i \in DOMAIN hq : hq'[i] = hq[i])
                      /\ m.cmd = c /\ m.cam = hid % 4
<1>1. HqTypes /\ hid \in Int /\ UiTypes /\ StoreTypes
  BY DEF Types
<1>2. ASSUME NEW c \in Nat, NEW k \in Areas \union {"none", "reg"}, NEW v \in Seq(0 .. 255), Transmit(c, k, v),
             k # "none" => c = 0, (k = "reg" \/ c = 10) => v # <<>>
      PROVE  Sent(c)
  <2>1. HqTypes' /\ Len(hq') = Len(hq) + 1 /\ Len(hq) \in Nat /\ (\A i \in DOMAIN hq : hq'[i] = hq[i]) /\ m = Message(c, k, v)
    BY <1>1, <1>2, Transmitted, Commands
  <2>2. Message(c, k, v).cmd = c /\ Message(c, k, v).cam = hid % 4
    BY <1>1, MessageIs
  <2> QED BY ONLY <2>1, <2>2, Zenon
<1>3. "none" \in Areas \union {"none", "reg"} /\ <<>> \in Seq(0 .. 255) /\ "none" # "reg"
  OBVIOUS
<1> HIDE DEF Sent
<1>10. ASSUME NEW c \in 1 .. 9, Transmit(c, "none", <<>>)
       PROVE  Sent(c)
  <2>1. c \in Nat /\ c # 10
    BY ONLY c \in 1 .. 9
  <2> QED BY ONLY <1>2, <1>3, <1>10, <2>1, Zenon
<1>4. Stop => Sent(3)
  <2>1. Stop => Transmit(3, "none", <<>>)
    BY Commands DEF Stop
  <2>2. 3 \in 1 .. 9
    OBVIOUS
  <2> QED BY ONLY <1>10, <2>1, <2>2, Zenon
<1>5. Play => Sent(2)
  <2>1. Play => Transmit(2, "none", <<>>)
    BY Commands DEF Play
  <2>2. 2 \in 1 .. 9
    OBVIOUS
  <2> QED BY ONLY <1>10, <2>1, <2>2, Zenon
<1>6. Put => Sent(0)
  <2> SUFFICES ASSUME Put PROVE Sent(0)
    OBVIOUS
  <2>1. PICK k \in Areas \union {"reg"}, v \in Seq(0 .. 255) : Transmit(0, k, v) /\ (k = "reg" => v # <<>>)
    BY <1>1, PutIs
  <2>2. k \in Areas \union {"none", "reg"} /\ 0 \in Nat /\ 0 # 10 /\ (k # "none" => 0 = 0)
    OBVIOUS
  <2> QED BY ONLY <1>2, <2>1, <2>2, v \in Seq(0 .. 255), Zenon
<1>7. ChangeID => Sent(9)
  <2> SUFFICES ASSUME ChangeID PROVE Sent(9)
    OBVIOUS
  <2>1. PICK i \in 0 .. 3 : Transmit(Host.SetID, "none", <<i>>)
    BY DEF ChangeID
  <2>2. <<i>> \in Seq(0 .. 255) /\ <<i>> # <<>> /\ Host.SetID = 9 /\ 9 \in Nat
    BY Commands
  <2>3. PICK v : v = <<i>>
    OBVIOUS
  <2>4. Transmit(9, "none", v) /\ v \in Seq(0 .. 255) /\ v # <<>>
    BY <2>1, <2>2, <2>3
  <2> QED BY ONLY <1>2, <1>3, <2>2, <2>4, Zenon
<1>8. Ask => \E c \in {1} \union 4 .. 8 : Sent(c) /\ (Head(Top.todo)[2] = "hello" => c = 1)
  <2> SUFFICES ASSUME Ask PROVE \E c \in {1} \union 4 .. 8 : Sent(c) /\ (Head(Top.todo)[2] = "hello" => c = 1)
    OBVIOUS
  <2>1. PICK k \in Kinds : Head(Top.todo) = <<"ask", k>> /\ Transmit(IF k = "hello" THEN Host.Hello ELSE Host[k], "none", <<>>)
    BY <1>1, AskIs
  <2>2. PICK c : c = IF k = "hello" THEN Host.Hello ELSE Host[k]
    OBVIOUS
  <2>3. c \in {1} \union 4 .. 8 /\ (k = "hello" => c = 1)
    <3>1. CASE k = "hello"
      BY <2>2, <3>1, Commands
    <3>2. CASE k # "hello"
      <4>1. k \in Requests /\ c = Host[k]
        BY <2>2, <3>2 DEF Kinds
      <4> QED BY <3>2, <4>1, Commands
    <3> QED BY <3>1, <3>2
  <2>4. Sent(c)
    <3>1. c \in 1 .. 9 /\ Transmit(c, "none", <<>>)
      BY <2>1, <2>2, <2>3
    <3> QED BY ONLY <1>10, <3>1
  <2> QED BY <2>1, <2>3, <2>4
<1> USE DEF Sent
<1> HIDE DEF m
<1>9. \E c \in Nat : Sent(c)
  BY <1>4, <1>5, <1>6, <1>7, <1>8
<1> QED BY ONLY <1>1, <1>4, <1>5, <1>6, <1>7, <1>8, <1>9 DEF m

LEMMA AgreesStep ==
  ASSUME Types, Types', Agrees, Next
  PROVE  Agrees'
<1>0. HqTypes /\ HqTypes' /\ UiTypes
  BY DEF Types
<1>1. CASE Stop \/ Play
  <2>1. /\ Len(hq') = Len(hq) + 1
        /\ (hq'[Len(hq) + 1].cmd = 3 /\ ~shown') \/ (hq'[Len(hq) + 1].cmd = 2 /\ shown')
    BY <1>1, Sends DEF Stop, Play
  <2>2. Switches(hq'[Len(hq) + 1]) /\ (hq'[Len(hq) + 1].cmd = Host.Start <=> shown')
    BY <2>1, Commands DEF Switches
  <2>3. Agreed'
    BY <1>0, <2>1, <2>2, SwitchSent
  <2> QED BY <2>3 DEF Agrees
<1>2. CASE Put \/ ChangeID \/ Ask
  <2>1. /\ Len(hq') = Len(hq) + 1 /\ \A i \in DOMAIN hq : hq'[i] = hq[i]
        /\ hq'[Len(hq) + 1].cmd \in {0, 9, 1} \union 4 .. 8
    BY <1>2, Sends
  <2>2. ~Switches(hq'[Len(hq) + 1])
    BY <2>1, Commands DEF Switches
  <2>3. UNCHANGED <<shown, stop, missed>>
    BY <1>2 DEF Put, ChangeID, Ask, board, history
  <2>4. Agreed => Agreed'
    BY <1>0, <2>1, <2>2, <2>3, SentKept
  <2> QED BY <2>3, <2>4 DEF Agrees
<1>3. CASE Open
  <2>1. PICK n \in 0 .. IF port THEN Len(hq) ELSE 0 :
          /\ hq' = SubSeq(hq, 1, n)
          /\ missed' = (missed \/ \E i \in n + 1 .. Len(hq) : Switches(hq[i]))
    BY <1>3 DEF Open
  <2>2. n \in 0 .. Len(hq) /\ UNCHANGED <<shown, stop>>
    <3>1. Len(hq) \in Nat
      BY <1>0 DEF HqTypes
    <3> QED BY <1>3, <2>1, <3>1 DEF Open, board
  <2>3. ~missed' => ~missed /\ \A i \in n + 1 .. Len(hq) : ~Switches(hq[i])
    BY ONLY <2>1, Zenon
  <2> SUFFICES ASSUME ~missed' PROVE Agreed'
    BY DEF Agrees
  <2>4. Agreed
    BY <2>3 DEF Agrees
  <2> QED BY <2>1, <2>2, <2>3, <2>4, PrefixKept
<1>4. CASE Damage
  <2> SUFFICES ASSUME ~missed' PROVE Agreed'
    BY DEF Agrees
  <2>1. /\ UNCHANGED <<shown, stop>> /\ hq # <<>>
        /\ missed' = (missed \/ (~HasSwitch(Tail(hq)) /\ (HasSwitch(hq) \/ HasSwitch(hq'))))
    BY <1>4 DEF Damage, window, board
  <2>2. ~missed /\ (HasSwitch(Tail(hq)) \/ (~HasSwitch(hq) /\ ~HasSwitch(hq')))
    BY ONLY <2>1, ~missed', Zenon
  <2>3. Agreed
    BY <2>2 DEF Agrees
  <2>4. CASE HasSwitch(Tail(hq))
    <3>1. PICK d \in {0, 1} : Len(hq') = Len(hq) - d /\ \A i \in DOMAIN hq : i # 1 => hq'[i - d] = hq[i]
      <4>1. hq \in Seq(Messages) /\ Len(hq) \in Nat /\ DOMAIN hq = 1 .. Len(hq)
        BY <1>0 DEF HqTypes
      <4>2. CASE hq' = Tail(hq)
        <5>1. Len(hq') = Len(hq) - 1 /\ \A i \in DOMAIN hq' : hq'[i] = hq[i + 1]
          BY <2>1, <4>1, <4>2, TailWithin
        <5>2. DOMAIN hq' = 1 .. Len(hq')
          BY <1>0 DEF HqTypes
        <5>3. ASSUME NEW i \in DOMAIN hq, i # 1
              PROVE  hq'[i - 1] = hq[i]
          <6>1. i - 1 \in DOMAIN hq' /\ (i - 1) + 1 = i
            BY ONLY <4>1, <5>1, <5>2, <5>3, i \in DOMAIN hq
          <6> QED BY ONLY <5>1, <6>1
        <5> QED BY <5>1, <5>3
      <4>3. CASE hq' # Tail(hq)
        <5>1. Len(hq') = Len(hq) /\ \A i \in DOMAIN hq : i > 1 => hq'[i] = hq[i]
          BY <1>0, <1>4, <4>3, DamageIs
        <5>2. \A i \in DOMAIN hq : i # 1 => hq'[i - 0] = hq[i]
          BY ONLY <4>1, <5>1
        <5>3. Len(hq') = Len(hq) - 0 /\ 0 \in {0, 1}
          BY ONLY <4>1, <5>1
        <5> QED BY ONLY <5>2, <5>3, Zenon
      <4> QED BY <4>2, <4>3
    <3> QED BY <1>0, <2>1, <2>3, <2>4, <3>1, TailKept
  <2>5. CASE ~HasSwitch(hq) /\ ~HasSwitch(hq')
    <3>1. \A i \in DOMAIN hq' : ~LastSwitch(hq', i)
      BY <2>5 DEF HasSwitch, LastSwitch
    <3> QED BY <2>1, <2>3, <2>5, <3>1, AgreedKept
  <2> QED BY <2>2, <2>4, <2>5
<1>5. CASE Receive
  <2> SUFFICES ASSUME ~missed' PROVE Agreed'
    BY DEF Agrees
  <2>1. /\ hq # <<>> /\ hq' = Tail(hq) /\ hq[1] \in Messages /\ Sound(hq[1]) /\ 1 \in DOMAIN hq
        /\ \A i \in DOMAIN hq' : i + 1 \in DOMAIN hq /\ hq'[i] = hq[i + 1]
        /\ \A i \in DOMAIN hq : i = 1 \/ (i - 1 \in DOMAIN hq' /\ hq'[i - 1] = hq[i])
        /\ \/ /\ Refuses(hq[1])
              /\ missed' = (missed \/ (HasSwitch(hq) /\ ~HasSwitch(Tail(hq))))
              /\ UNCHANGED <<ui, bq, answers, board, stored, spoilt>>
           \/ /\ ~Refuses(hq[1]) /\ hq[1].kind = "none" /\ Execute(hq[1]) /\ UNCHANGED <<missed, refused>>
           \/ /\ ~Refuses(hq[1]) /\ hq[1].kind # "none" /\ Store(hq[1]) /\ UNCHANGED <<missed, refused>>
    BY <1>0, <1>5, ReceivedIs
  <2>2. shown' <=> shown
    BY <1>5 DEF Receive
  <2>3. ~missed
    BY ONLY <2>1, ~missed', Zenon
  <2>4. Agreed
    BY <2>3 DEF Agrees
  <2>5. CASE HasSwitch(Tail(hq))
    <3>1. HasSwitch(hq') /\ HasSwitch(hq) /\ Len(hq') = Len(hq) - 1
      <4>1. HasSwitch(hq') /\ Len(hq') = Len(hq) - 1
        BY <1>0, <2>1, <2>5 DEF HqTypes
      <4>2. PICK i \in DOMAIN hq' : Switches(hq'[i])
        BY <4>1 DEF HasSwitch
      <4>3. i + 1 \in DOMAIN hq /\ Switches(hq[i + 1])
        BY <2>1, <4>2
      <4> QED BY <4>1, <4>3 DEF HasSwitch
    <3>2. \A i \in DOMAIN hq' : LastSwitch(hq', i) => (hq'[i].cmd = Host.Start <=> shown')
      <4>1. ASSUME NEW i \in DOMAIN hq', LastSwitch(hq', i)
            PROVE  i + 1 \in DOMAIN hq /\ LastSwitch(hq, i + 1) /\ hq'[i] = hq[i + 1]
        <5>1. i + 1 \in DOMAIN hq /\ hq'[i] = hq[i + 1] /\ Switches(hq[i + 1])
          BY <2>1, <4>1 DEF LastSwitch
        <5>2. ASSUME NEW j \in DOMAIN hq, i + 1 < j
              PROVE  ~Switches(hq[j])
          <6>1. j # 1 /\ i < j - 1
            BY <1>0, <5>2 DEF HqTypes
          <6>2. j - 1 \in DOMAIN hq' /\ hq'[j - 1] = hq[j]
            BY ONLY <2>1, <6>1, j \in DOMAIN hq, Zenon
          <6> QED BY ONLY <4>1, <6>1, <6>2, Zenon DEF LastSwitch
        <5> QED BY <5>1, <5>2 DEF LastSwitch
      <4> QED BY <2>2, <2>4, <4>1 DEF Agreed
    <3> QED BY <3>1, <3>2 DEF Agreed
  <2>6. CASE ~HasSwitch(Tail(hq)) /\ HasSwitch(hq)
    <3>1. ~HasSwitch(hq') /\ Switches(hq[1]) /\ \A j \in DOMAIN hq : 1 < j => ~Switches(hq[j])
      <4>1. ~HasSwitch(hq')
        BY <2>1, <2>6
      <4>2. \A j \in DOMAIN hq : j # 1 => ~Switches(hq[j])
        BY <2>1, <4>1 DEF HasSwitch
      <4> QED BY <2>6, <4>1, <4>2 DEF HasSwitch
    <3>2. hq[1].cmd = Host.Start <=> shown
      BY <2>1, <2>4, <3>1 DEF Agreed, LastSwitch
    <3>3. hq[1].cmd \in {2, 3} /\ hq[1].kind = "none" /\ Execute(hq[1])
      <4>1. hq[1].cmd \in {2, 3}
        BY <3>1, Commands DEF Switches
      <4>2. hq[1].kind = "none"
        BY <2>1, <4>1 DEF Sound
      <4>3. ~(missed' = (missed \/ (HasSwitch(hq) /\ ~HasSwitch(Tail(hq)))))
        BY ONLY <2>6, ~missed', Zenon
      <4> QED BY ONLY <2>1, <4>1, <4>2, <4>3, Zenon
    <3>4. stop' = IF hq[1].cmd = 2 THEN FALSE ELSE IF hq[1].cmd = 3 THEN TRUE ELSE stop
      BY <3>3, Commands DEF Execute
    <3>5. stop' <=> hq[1].cmd # 2
      <4>1. 2 # 3
        OBVIOUS
      <4> QED BY ONLY <3>3, <3>4, <4>1, Zenon
    <3>6. stop' <=> ~shown'
      BY <2>2, <3>2, <3>5, Commands
    <3>7. \A i \in DOMAIN hq' : ~LastSwitch(hq', i)
      BY <3>1 DEF HasSwitch, LastSwitch
    <3> QED BY <3>6, <3>7 DEF Agreed
  <2>7. CASE ~HasSwitch(Tail(hq)) /\ ~HasSwitch(hq)
    <3>1. \A i \in DOMAIN hq' : ~LastSwitch(hq', i)
      BY <2>1, <2>7 DEF HasSwitch, LastSwitch
    <3>2. ~Switches(hq[1])
      BY <2>1, <2>7 DEF HasSwitch
    <3>3. stop' = stop
      <4>1. hq[1].cmd # Board.Start /\ hq[1].cmd # Board.Stop
        BY <3>2, Commands DEF Switches
      <4>2. \/ UNCHANGED board
            \/ Execute(hq[1])
            \/ Store(hq[1])
        BY <2>1
      <4> QED BY <4>1, <4>2 DEF board, Execute, Store
    <3>4. stop' <=> stop
      BY ONLY <3>3, Zenon
    <3> QED BY <2>2, <2>4, <2>7, <3>1, <3>4, AgreedKept
  <2> QED BY <2>5, <2>6, <2>7
<1>6. CASE Click \/ Edit \/ GotAnswer \/ GotHello \/ Arrives \/ AnswerLost \/ SendAnswer
  <2>1. UNCHANGED <<hq, shown, stop, missed>>
    BY <1>6 DEF Click, Edit, GotAnswer, GotHello, Arrives, AnswerLost, SendAnswer, window, board, history
  <2> QED BY <2>1 DEF Agrees, Agreed
<1> QED BY <1>1, <1>2, <1>3, <1>4, <1>5, <1>6 DEF Next, UiStep

-----------------------------------------------------------------------------
(* One id. *)
(* The constructor opens the port and says Hello. *)
LEMMA ConstructIs ==
  /\ Head(Construct) = <<"open", "none">> /\ Tail(Construct) # <<>>
  /\ Head(Tail(Construct)) = <<"ask", "hello">>
<1>1. <<"open", "none">> \in Calls /\ <<"ask", "hello">> \in Calls
  BY DEF Calls, Kinds
<1>2. setShowThresholds \in Seq(Calls) /\ PlayVideo \in Seq(Calls)
  BY Literals DEF Programs
<1>3. Construct = (<<<<"open", "none">>, <<"ask", "hello">>>> \o setShowThresholds) \o PlayVideo
  BY DEF Construct, tryConnect
<1>4. PICK a, b, s, t, c : /\ a = <<"open", "none">> /\ b = <<"ask", "hello">>
                           /\ s = setShowThresholds /\ t = PlayVideo /\ c = Construct
  OBVIOUS
<1>5. a \in Calls /\ b \in Calls /\ s \in Seq(Calls) /\ t \in Seq(Calls) /\ c = (<<a, b>> \o s) \o t
  BY ONLY <1>1, <1>2, <1>3, <1>4
<1>6. Head(c) = a /\ Tail(c) # <<>> /\ Head(Tail(c)) = b
  <2>1. <<a, b>> \in Seq(Calls) /\ Len(<<a, b>>) = 2 /\ <<a, b>>[1] = a /\ <<a, b>>[2] = b
    BY ONLY <1>5
  <2>2. PICK d : d = <<a, b>> \o s
    BY ONLY <1>5
  <2>3. /\ d \in Seq(Calls) /\ Len(d) = Len(<<a, b>>) + Len(s)
        /\ \A i \in 1 .. Len(<<a, b>>) + Len(s) : d[i] = IF i <= Len(<<a, b>>) THEN <<a, b>>[i] ELSE s[i - Len(<<a, b>>)]
    BY ONLY <2>1, <2>2, <1>5, ConcatProperties
  <2>4. /\ c \in Seq(Calls) /\ Len(c) = Len(d) + Len(t)
        /\ \A i \in 1 .. Len(d) + Len(t) : c[i] = IF i <= Len(d) THEN d[i] ELSE t[i - Len(d)]
    BY ONLY <2>2, <2>3, <1>5, ConcatProperties
  <2>5. Len(s) \in Nat /\ Len(t) \in Nat
    BY ONLY <1>5
  <2>6. Len(d) \in Nat /\ Len(d) >= 2 /\ d[1] = a /\ d[2] = b
    BY ONLY <2>1, <2>3, <2>5
  <2>7. Len(c) \in Nat /\ Len(c) >= 2 /\ c[1] = a /\ c[2] = b
    BY ONLY <2>4, <2>5, <2>6
  <2>8. c # <<>> /\ Head(c) = a
    BY ONLY <2>4, <2>7
  <2>9. PICK u : u = Tail(c)
    BY ONLY <1>5
  <2>10. u \in Seq(Calls) /\ Len(u) = Len(c) - 1 /\ \A i \in DOMAIN u : u[i] = c[i + 1]
    BY ONLY <2>4, <2>8, <2>9, TailWithin
  <2>11. Len(u) >= 1 /\ u[1] = b /\ u # <<>> /\ Head(u) = b
    <3>1. Len(u) >= 1 /\ 1 \in DOMAIN u
      BY ONLY <2>7, <2>10
    <3>2. u[1] = b
      <4>1. u[1] = c[1 + 1]
        BY ONLY <2>10, <3>1
      <4> QED BY ONLY <2>7, <4>1
    <3> QED BY ONLY <2>10, <3>1, <3>2
  <2> QED BY ONLY <2>4, <2>8, <2>9, <2>11, Zenon
<1> QED BY ONLY <1>4, <1>6, Zenon

(* While it says Hello, only that happens. *)
LEMMA GreetingIs ==
  ASSUME Types, Greeting
  PROVE  /\ Top = ui[1] /\ ui # <<>> /\ ~Click
         /\ Top.kind \in {"none", "hello"}
         /\ ~Stop /\ ~Play /\ ~Put /\ ~ChangeID /\ ~Edit
         /\ Doing("open") => Top.todo = Construct
         /\ Doing("ask") => Head(Top.todo) = <<"ask", "hello">>
<1>1. Top = ui[1] /\ ui # <<>> /\ Top.kind \in {"none", "hello"}
  BY DEF Greeting, Top
<1>2. ASSUME Click
      PROVE  FALSE
  <2>1. PICK h \in Clicks : h.win \notin UNION {ui[i].blocked : i \in DOMAIN ui}
    BY <1>2 DEF Click
  <2>2. h.win \in Windows
    BY ClicksRun, FieldTypes DEF Types
  <2>3. 1 \in DOMAIN ui
    BY DEF Greeting, Types, UiTypes
  <2> QED BY <2>1, <2>2, <2>3 DEF Greeting
<1>3. ASSUME NEW what, Doing(what)
      PROVE  \/ what = "open" /\ Top.todo = Construct
             \/ what = "ask" /\ Head(Top.todo) = <<"ask", "hello">>
  <2>1. Top.kind = "none" /\ Head(Top.todo)[1] = what
    BY <1>3 DEF Doing
  <2>2. Top.todo \in {Construct, Tail(Construct)}
    BY <1>1, <2>1 DEF Greeting
  <2>3. CASE Top.todo = Construct
    <3>1. Head(Top.todo) = <<"open", "none">>
      BY ONLY <2>3, ConstructIs, Zenon
    <3>2. what = "open"
      BY ONLY <2>1, <3>1
    <3> QED BY <2>3, <3>2
  <2>4. CASE Top.todo = Tail(Construct)
    <3>1. Head(Top.todo) = <<"ask", "hello">>
      BY ONLY <2>4, ConstructIs, Zenon
    <3>2. what = "ask"
      BY ONLY <2>1, <3>1
    <3> QED BY <3>1, <3>2
  <2> QED BY <2>2, <2>3, <2>4
<1>4. ~Stop /\ ~Play /\ ~Put /\ ~ChangeID /\ ~Edit
  BY <1>3 DEF Stop, Play, Put, ChangeID, Edit
<1> QED BY <1>1, <1>2, <1>3, <1>4

LEMMA SameGreeting ==
  ASSUME Greeting, Len(ui') = Len(ui), ui'[1].blocked = ui[1].blocked, ui'[1].kind = ui[1].kind, ui'[1].todo = ui[1].todo
  PROVE  Greeting'
  BY DEF Greeting

(* What the host sends has its id. *)
LEMMA SentIds ==
  ASSUME Types, HqTypes', MessageIds, bid' = bid, bid \in 0 .. 3,
         Len(hq') = Len(hq) + 1, \A i \in DOMAIN hq : hq'[i] = hq[i],
         hq'[Len(hq) + 1].cmd # 10, hq'[Len(hq) + 1].cmd = 1 \/ hq'[Len(hq) + 1].cam = bid
  PROVE  MessageIds'
<1>1. \A i \in DOMAIN hq' : i = Len(hq) + 1 \/ i \in DOMAIN hq
  BY DEF Types, HqTypes
<1>2. \A i \in DOMAIN hq' : hq'[i].cmd # 10 /\ (hq'[i].cmd = 1 \/ hq'[i].cam = bid)
  <2> TAKE i \in DOMAIN hq'
  <2>1. CASE i = Len(hq) + 1
    BY <2>1
  <2>2. CASE i \in DOMAIN hq
    BY <2>2, Commands DEF MessageIds
  <2> QED BY <1>1, <2>1, <2>2
<1> QED BY <1>2, Commands DEF MessageIds

LEMMA LeftIds ==
  ASSUME MessageIds, bid' = bid, \A i \in DOMAIN hq' : \E j \in DOMAIN hq : hq'[i] = hq[j]
  PROVE  MessageIds'
  BY DEF MessageIds

(* A handler that waits with an answer to Hello waited with it before, or  *)
(* is given it now.                                                        *)
LEMMA SameHello ==
  ASSUME HelloIds, bid' = bid,
         \A i \in DOMAIN ui' : \/ ui'[i].kind # "hello" \/ ui'[i].got = <<>>
                               \/ i \in DOMAIN ui /\ ui'[i].kind = ui[i].kind /\ ui'[i].got = ui[i].got
  PROVE  HelloIds'
<1> SUFFICES ASSUME NEW i \in DOMAIN ui', ui'[i].kind = "hello", ui'[i].got # <<>>
             PROVE  ui'[i].got = <<bid>>
  BY DEF HelloIds
<1> QED BY DEF HelloIds

(* What is below the innermost handler stays. *)
LEMMA BelowHello ==
  ASSUME UiTypes, UiTypes', ui # <<>>, HelloIds, bid' = bid, Len(ui') \in {Len(ui) - 1, Len(ui)},
         \A i \in DOMAIN ui' : i < Len(ui) => ui'[i] = ui[i],
         Len(ui') = Len(ui) => ui'[Len(ui)].kind # "hello" \/ ui'[Len(ui)].got = <<>>
  PROVE  HelloIds'
<1>1. DOMAIN ui = 1 .. Len(ui) /\ DOMAIN ui' = 1 .. Len(ui') /\ Len(ui) \in Nat \ {0}
  BY DEF UiTypes
<1>2. ASSUME NEW i \in DOMAIN ui'
      PROVE  \/ ui'[i].kind # "hello" \/ ui'[i].got = <<>>
             \/ i \in DOMAIN ui /\ ui'[i].kind = ui[i].kind /\ ui'[i].got = ui[i].got
  <2>1. i \in DOMAIN ui /\ (i < Len(ui) \/ (i = Len(ui) /\ Len(ui') = Len(ui)))
    <3>1. CASE Len(ui') = Len(ui)
      BY ONLY <1>1, <1>2, <3>1
    <3>2. CASE Len(ui') = Len(ui) - 1
      <4>1. i \in 1 .. (Len(ui) - 1)
        BY ONLY <1>1, <1>2, <3>2, Zenon
      <4>2. i \in 1 .. Len(ui) /\ i < Len(ui)
        BY ONLY <1>1, <4>1
      <4> QED BY ONLY <1>1, <4>2, Zenon
    <3> QED BY <3>1, <3>2
  <2> QED BY <1>2, <2>1
<1> QED BY <1>2, SameHello

LEMMA SendingIds ==
  ASSUME Types, Types', SameId, ~excused', Stop \/ Play \/ Put \/ ChangeID \/ Ask
  PROVE  SameId'
<1>0. /\ UiTypes /\ UiTypes' /\ HqTypes' /\ StoreTypes /\ ~refused /\ bid \in 0 .. 3 /\ MessageIds /\ ThreadIds /\ ReplyIds /\ HelloIds
      /\ hid = bid \/ Greeting
  BY DEF Types, SameId
<1>1. ~ChangeID
  BY DEF ChangeID
<1>2. UNCHANGED <<bid, hid, refused, answers, bq>>
  BY <1>1 DEF Stop, Play, Put, Ask, board, serial, history
<1>3. MessageIds'
  <2>1. /\ Len(hq') = Len(hq) + 1 /\ \A i \in DOMAIN hq : hq'[i] = hq[i]
        /\ hq'[Len(hq) + 1].cmd \in {0, 2, 3, 1} \union 4 .. 8 /\ hq'[Len(hq) + 1].cam = hid % 4
        /\ Ask => (Head(Top.todo)[2] = "hello" => hq'[Len(hq) + 1].cmd = 1)
    BY <1>1, Sends
  <2>2. hq'[Len(hq) + 1].cmd # 10
    BY <2>1
  <2>3. hq'[Len(hq) + 1].cmd = 1 \/ hq'[Len(hq) + 1].cam = bid
    <3>1. CASE hid = bid
      <4>1. hid % 4 = bid
        BY ONLY <1>0, <3>1
      <4> QED BY <2>1, <4>1
    <3>2. CASE Greeting
      <4>1. Ask /\ Head(Top.todo) = <<"ask", "hello">>
        BY <1>1, <3>2, GreetingIs DEF Ask
      <4> QED BY <2>1, <4>1
    <3> QED BY <1>0, <3>1, <3>2
  <2> QED BY <1>0, <1>2, <2>1, <2>2, <2>3, SentIds
<1>4. HelloIds' /\ (hid' = bid' \/ Greeting')
  <2>1. CASE Ask
    <3>1. PICK k \in Kinds :
           /\ ui # <<>> /\ Len(ui') = Len(ui) /\ Len(ui) \in DOMAIN ui
           /\ Head(Top.todo) = <<"ask", k>>
           /\ \A i \in DOMAIN ui' : i < Len(ui) => ui'[i] = ui[i]
           /\ ui'[Len(ui)].kind = k /\ ui'[Len(ui)].got = <<>> /\ ui'[Len(ui)].blocked = Top.blocked
      BY <1>0, <2>1, AskIs
    <3>2. HelloIds'
      BY <1>0, <1>2, <3>1, BelowHello
    <3>3. CASE hid = bid
      BY <1>2, <3>2, <3>3
    <3>4. CASE Greeting
      <4>1. Head(Top.todo) = <<"ask", "hello">> /\ Top = ui[1] /\ Len(ui) = 1 /\ ui[1].blocked = Windows
        BY <2>1, <3>4, GreetingIs DEF Ask, Greeting
      <4>2. k = "hello"
        BY <3>1, <4>1
      <4>3. Greeting'
        BY <3>1, <4>1, <4>2 DEF Greeting
      <4> QED BY <3>2, <4>3
    <3> QED BY <1>0, <3>3, <3>4
  <2>2. CASE ~Ask
    <3>1. Stop \/ Play \/ Put
      BY <1>1, <2>2
    <3>2. hid = bid
      BY <1>0, <3>1, GreetingIs
    <3>3. /\ ui # <<>> /\ Len(ui') \in {Len(ui) - 1, Len(ui)}
          /\ \A i \in DOMAIN ui' : i < Len(ui) => ui'[i] = ui[i]
          /\ Len(ui') = Len(ui) => ui'[Len(ui)].kind # "hello"
      BY <3>1, CallIs
    <3>4. HelloIds'
      BY <1>0, <1>2, <3>3, BelowHello
    <3> QED BY <1>2, <3>2, <3>4
  <2> QED BY <2>1, <2>2
<1> QED BY <1>0, <1>2, <1>3, <1>4 DEF SameId, ThreadIds, ReplyIds

LEMMA LocalIds ==
  ASSUME Types, Types', SameId, ~excused, ~excused', Click \/ Edit \/ Open \/ GotAnswer \/ GotHello
  PROVE  SameId'
<1>0. /\ UiTypes /\ UiTypes' /\ HqTypes' /\ StoreTypes /\ ~refused /\ bid \in 0 .. 3 /\ MessageIds /\ ThreadIds /\ ReplyIds /\ HelloIds
      /\ hid = bid \/ Greeting
  BY DEF Types, SameId
<1>1. UNCHANGED <<bid, refused, answers, bq>>
  BY DEF Click, Edit, Open, GotAnswer, GotHello, board, history
<1>2. MessageIds'
  <2>1. CASE Open
    <3>1. PICK n \in 0 .. IF port THEN Len(hq) ELSE 0 : hq' = SubSeq(hq, 1, n)
      BY <2>1 DEF Open
    <3>2. n \in 0 .. Len(hq)
      BY <3>1 DEF Types, HqTypes
    <3>3. DOMAIN hq' = 1 .. n /\ \A i \in 1 .. n : hq'[i] = hq[i] /\ i \in DOMAIN hq
      BY ONLY <3>1, <3>2, Types, PrefixTypes
    <3> QED BY <1>0, <1>1, <3>3, LeftIds
  <2>2. CASE ~Open
    <3>1. UNCHANGED hq
      BY <2>2 DEF Click, Edit, GotAnswer, GotHello
    <3> QED BY <1>0, <1>1, <3>1, LeftIds
  <2> QED BY <2>1, <2>2
<1>3. HelloIds'
  <2>1. CASE Click
    <3>1. /\ Len(ui') = Len(ui) + 1 /\ Len(ui) \in Nat
          /\ \A i \in DOMAIN ui : ui'[i] = ui[i]
          /\ ui'[Len(ui) + 1].kind = "none"
      BY <1>0, <2>1, ClickIs DEF Types
    <3>2. \A i \in DOMAIN ui' : i \in DOMAIN ui \/ i = Len(ui) + 1
      BY <1>0, <3>1 DEF UiTypes
    <3> QED BY <1>0, <1>1, <3>1, <3>2, SameHello
  <2>2. CASE Edit \/ Open
    <3>1. /\ ui # <<>> /\ Len(ui') \in {Len(ui) - 1, Len(ui)}
          /\ \A i \in DOMAIN ui' : i < Len(ui) => ui'[i] = ui[i]
          /\ Len(ui') = Len(ui) => ui'[Len(ui)].kind # "hello"
      BY <2>2, CallIs
    <3> QED BY <1>0, <1>1, <3>1, BelowHello
  <2>3. CASE GotAnswer \/ GotHello
    <3>1. /\ ui # <<>> /\ Len(ui') \in {Len(ui) - 1, Len(ui)}
          /\ \A i \in DOMAIN ui' : i < Len(ui) => ui'[i] = ui[i]
          /\ Len(ui') = Len(ui) => ui'[Len(ui)].kind # "hello"
      BY <1>0, <2>3, ForgetIs DEF GotAnswer, GotHello
    <3> QED BY <1>0, <1>1, <3>1, BelowHello
  <2> QED BY <2>1, <2>2, <2>3
<1>4. hid' = bid' \/ Greeting'
  <2>1. CASE GotHello
    <3>1. PICK id \in -1 .. 255 : hid' = id /\ excused' = (excused \/ Top.got # <<id>>)
      BY <1>0, <2>1, HelloIs
    <3>2. Top.got = <<id>>
      BY ONLY <3>1, ~excused', Zenon
    <3>3. Top.got = <<bid>>
      <4>1. Top.kind = "hello" /\ Top = ui[Len(ui)] /\ Len(ui) \in DOMAIN ui
        BY <1>0, <2>1, TopIs DEF GotHello, Enough
      <4>2. PICK i \in DOMAIN ui : i = Len(ui)
        BY <4>1
      <4>3. ui[i].kind = "hello" /\ ui[i].got = <<id>>
        BY ONLY <3>2, <4>1, <4>2, Zenon
      <4>4. <<id>> # <<>>
        OBVIOUS
      <4>5. ui[i].got = <<bid>>
        BY ONLY <1>0, <4>3, <4>4, Zenon DEF HelloIds
      <4> QED BY ONLY <4>1, <4>2, <4>5, Zenon
    <3>4. id = bid
      BY ONLY <3>2, <3>3
    <3> QED BY <1>1, <3>1, <3>4
  <2>2. CASE GotAnswer
    <3>1. ~Greeting /\ hid' = hid
      BY <2>2, GreetingIs DEF GotAnswer, Enough
    <3> QED BY <1>0, <1>1, <3>1
  <2>3. CASE Click \/ Edit
    <3>1. ~Greeting /\ hid' = hid
      BY <2>3, GreetingIs DEF Click, Edit, serial
    <3> QED BY <1>0, <1>1, <3>1
  <2>4. CASE Open
    <3>1. Proceed /\ UNCHANGED hid /\ Doing("open")
      BY <2>4 DEF Open
    <3>2. CASE hid = bid
      BY <1>1, <3>1, <3>2
    <3>3. CASE Greeting
      <4>1. Len(ui) = 1 /\ ui[1].blocked = Windows /\ Top = ui[1] /\ Top.todo = Construct
        BY <3>1, <3>3, GreetingIs DEF Greeting
      <4>2. Continue([Top EXCEPT !.todo = Tail(Top.todo)])
        BY <3>1 DEF Proceed
      <4>3. Len(ui') = Len(ui)
        <5>1. PICK f : f = [Top EXCEPT !.todo = Tail(Top.todo)]
          OBVIOUS
        <5>2. Top \in Handlers /\ Tail(Top.todo) \in Seq(Calls) /\ ui # <<>> /\ ui \in Seq(Handlers)
          BY <1>0, <3>1, NextCall DEF UiTypes
        <5>3. f \in Handlers /\ f.todo = Tail(Top.todo)
          BY ONLY <5>1, <5>2, TodoSet, Zenon
        <5>4. f.todo # <<>>
          BY ONLY <4>1, <5>3, ConstructIs, Zenon
        <5>5. Continue(f)
          BY ONLY <4>2, <5>1, Zenon
        <5>6. ui' = Append(Front(ui), f)
          BY ONLY <5>4, <5>5 DEF Continue
        <5>7. Front(ui) \in Seq(Handlers) /\ Len(Front(ui)) = Len(ui) - 1
          <6>1. Len(ui) - 1 \in 0 .. Len(ui)
            BY <4>1
          <6> QED BY <5>2, <6>1, PrefixWithin DEF Front
        <5> QED BY <4>1, <5>3, <5>6, <5>7
      <4>4. /\ ui'[Len(ui)].kind = "none" /\ ui'[Len(ui)].todo = Tail(Top.todo) /\ ui'[Len(ui)].blocked = Top.blocked
        BY <1>0, <3>1, <4>3, ProceedIs
      <4>5. Greeting'
        BY <4>1, <4>3, <4>4 DEF Greeting
      <4> QED BY <4>5
    <3> QED BY <1>0, <3>2, <3>3
  <2> QED BY <2>1, <2>2, <2>3, <2>4
<1> QED BY <1>0, <1>1, <1>2, <1>3, <1>4 DEF SameId, ThreadIds, ReplyIds

LEMMA LineIds ==
  ASSUME Types, Types', CallbackAlive, SameId, Arrives \/ AnswerLost \/ SendAnswer
  PROVE  SameId'
<1>0. /\ UiTypes /\ UiTypes' /\ BqTypes /\ ~refused /\ bid \in 0 .. 3 /\ MessageIds /\ ThreadIds /\ ReplyIds /\ HelloIds
      /\ hid = bid \/ Greeting
  BY DEF Types, SameId
<1>1. UNCHANGED <<bid, hid, refused, hq>>
  BY DEF Arrives, AnswerLost, SendAnswer, serial, board, history
<1>2. MessageIds'
  BY <1>0, <1>1, LeftIds
<1>3. CASE Arrives
  <2>1. /\ UiTypes' /\ Len(ui') = Len(ui) /\ DOMAIN ui' = DOMAIN ui
        /\ bq # <<>> /\ bq' = Tail(bq)
        /\ \A j \in DOMAIN ui :
              /\ ui'[j].blocked = ui[j].blocked /\ ui'[j].todo = ui[j].todo
              /\ ui'[j].kind = ui[j].kind
              /\ \/ ui'[j].got = ui[j].got
                 \/ ui[j].kind = bq[1].kind /\ ui'[j].got = bq[1].val
    BY <1>0, <1>3, ArrivesIs
  <2>2. \A i \in DOMAIN bq' : \E j \in DOMAIN bq : bq'[i] = bq[j]
    BY <1>0, <2>1, BqTail
  <2>3. 1 \in DOMAIN bq
    BY <1>0, <2>1 DEF BqTypes
  <2>4. HelloIds'
    <3> SUFFICES ASSUME NEW i \in DOMAIN ui', ui'[i].kind = "hello", ui'[i].got # <<>>
                 PROVE  ui'[i].got = <<bid>>
      BY <1>1 DEF HelloIds
    <3>1. CASE ui'[i].got = ui[i].got
      BY <1>0, <2>1, <3>1 DEF HelloIds
    <3>2. CASE ui[i].kind = bq[1].kind /\ ui'[i].got = bq[1].val
      BY <1>0, <2>1, <2>3, <3>2 DEF ReplyIds
    <3> QED BY <2>1, <3>1, <3>2
  <2>5. ReplyIds' /\ ThreadIds'
    <3>1. answers' = answers
      BY <1>3 DEF Arrives
    <3> QED BY <1>0, <1>1, <2>2, <3>1 DEF ReplyIds, ThreadIds
  <2>6. hid' = bid' \/ Greeting'
    <3>1. Greeting => Greeting'
      <4>1. Len(ui) = 1 => 1 \in DOMAIN ui
        BY <1>0 DEF UiTypes
      <4> QED BY <2>1, <4>1 DEF Greeting
    <3> QED BY <1>0, <1>1, <3>1
  <2> QED BY <1>0, <1>1, <1>2, <2>4, <2>5, <2>6 DEF SameId
<1>4. CASE AnswerLost
  <2>1. UNCHANGED <<ui, answers>> /\ bq # <<>> /\ bq' = Tail(bq)
    BY <1>4 DEF AnswerLost, window
  <2>2. \A i \in DOMAIN bq' : \E j \in DOMAIN bq : bq'[i] = bq[j]
    BY <1>0, <2>1, BqTail
  <2> QED BY <1>0, <1>1, <1>2, <2>1, <2>2 DEF SameId, ThreadIds, ReplyIds, HelloIds, Greeting
<1>5. CASE SendAnswer
  <2>1. PICK i \in DOMAIN answers :
           /\ Within(answers', answers)
           /\ Len(bq') = Len(bq) + 1 /\ Len(bq) \in Nat
           /\ \A j \in DOMAIN bq : bq'[j] = bq[j]
           /\ bq'[Len(bq) + 1].kind = answers[i].kind /\ bq'[Len(bq) + 1].val = answers[i].val
    BY <1>5, SendAnswerIs
  <2>2. \A j \in DOMAIN bq' : j \in DOMAIN bq \/ j = Len(bq) + 1
    BY <2>1 DEF Types, BqTypes
  <2>3. ui' = ui
    BY <1>5 DEF SendAnswer, window
  <2>4. ReplyIds'
    <3> SUFFICES ASSUME NEW j \in DOMAIN bq', bq'[j].kind = "hello"
                 PROVE  bq'[j].val = <<bid>>
      BY <1>1 DEF ReplyIds
    <3>1. CASE j \in DOMAIN bq
      BY <1>0, <2>1, <3>1 DEF ReplyIds
    <3>2. CASE j = Len(bq) + 1
      BY <1>0, <2>1, <3>2 DEF ThreadIds
    <3> QED BY <2>2, <3>1, <3>2
  <2>5. ThreadIds'
    BY <1>0, <1>1, <2>1 DEF ThreadIds, Within
  <2> QED BY <1>0, <1>1, <1>2, <2>3, <2>4, <2>5 DEF SameId, HelloIds, Greeting
<1> QED BY <1>3, <1>4, <1>5

LEMMA ReceiveIds ==
  ASSUME Types, Types', SameId, Receive
  PROVE  SameId'
<1>0. /\ UiTypes /\ UiTypes' /\ HqTypes /\ StoreTypes' /\ ~refused /\ bid \in 0 .. 3 /\ MessageIds /\ ThreadIds /\ ReplyIds /\ HelloIds
      /\ hid = bid \/ Greeting
  BY DEF Types, SameId
<1>1. /\ hq[1] \in Messages /\ Sound(hq[1]) /\ 1 \in DOMAIN hq
      /\ \A i \in DOMAIN hq' : i + 1 \in DOMAIN hq /\ hq'[i] = hq[i + 1]
      /\ \/ Refuses(hq[1])
         \/ Execute(hq[1]) /\ UNCHANGED <<missed, refused>>
         \/ hq[1].kind # "none" /\ Store(hq[1]) /\ UNCHANGED <<missed, refused>>
  BY <1>0, ReceivedIs
<1>2. ~Refuses(hq[1]) /\ hq[1].cmd # Board.SetID
  BY <1>0, <1>1, Commands DEF MessageIds, Refuses
<1>3. PICK m \in Messages : m = hq[1]
  BY <1>1
<1>4. /\ bid' = bid /\ ~refused' /\ See(eeprom', reg', bid') /\ Within(bq', bq)
      /\ \A i \in DOMAIN answers' : \/ i \in DOMAIN answers /\ answers'[i] = answers[i]
                                    \/ answers'[i].kind = "hello" => answers'[i].val = <<bid>>
  <2>1. CASE Execute(m) /\ UNCHANGED <<missed, refused>>
    <3>1. Sound(m) /\ m.cmd # Board.SetID
      BY <1>1, <1>2, <1>3
    <3>2. /\ Within(bq', bq)
          /\ \/ answers' = answers
             \/ \E k \in Kinds : /\ answers' = Append(answers, [kind |-> k, val |-> Answer(k, eeprom, reg, bid)])
                                 /\ (k = "hello" => Answer(k, eeprom, reg, bid) = <<bid>>)
          /\ See(eeprom', reg', bid') /\ bid' = bid
      BY <2>1, <3>1, ExecuteIs
    <3>3. \A i \in DOMAIN answers' : \/ i \in DOMAIN answers /\ answers'[i] = answers[i]
                                     \/ answers'[i].kind = "hello" => answers'[i].val = <<bid>>
      <4>1. CASE answers' = answers
        BY <4>1
      <4>2. ASSUME NEW k \in Kinds, answers' = Append(answers, [kind |-> k, val |-> Answer(k, eeprom, reg, bid)]),
                   k = "hello" => Answer(k, eeprom, reg, bid) = <<bid>>
            PROVE  \A i \in DOMAIN answers' : \/ i \in DOMAIN answers /\ answers'[i] = answers[i]
                                              \/ answers'[i].kind = "hello" => answers'[i].val = <<bid>>
        <5>1. PICK a : a = [kind |-> k, val |-> Answer(k, eeprom, reg, bid)]
          OBVIOUS
        <5>2. a.kind = "hello" => a.val = <<bid>>
          BY <4>2, <5>1
        <5>3. answers' = Append(answers, a) /\ answers \in Seq(Threads)
          BY <4>2, <5>1 DEF Types, ThreadTypes
        <5>4. \A i \in DOMAIN answers' : (i \in DOMAIN answers /\ answers'[i] = answers[i]) \/ answers'[i] = a
          BY ONLY <5>3
        <5> QED BY <5>2, <5>4
      <4> QED BY <3>2, <4>1, <4>2
    <3> QED BY <1>0, <2>1, <3>2, <3>3
  <2>2. CASE hq[1].kind # "none" /\ Store(m) /\ UNCHANGED <<missed, refused>>
    <3>1. Sound(m) /\ m.kind # "none"
      BY <1>1, <1>3, <2>2
    <3>2. See(eeprom', reg', bid) /\ UNCHANGED <<bq, answers, bid>>
      BY <2>2, <3>1, StoreIs
    <3>3. Within(bq', bq)
      BY <3>2 DEF Within
    <3> QED BY <1>0, <2>2, <3>2, <3>3
  <2> QED BY <1>1, <1>2, <1>3, <2>1, <2>2
<1>5. /\ Len(ui') = Len(ui) /\ DOMAIN ui' = DOMAIN ui
      /\ \A i \in DOMAIN ui : /\ ui'[i].blocked = ui[i].blocked /\ ui'[i].todo = ui[i].todo
                              /\ ui'[i].kind = ui[i].kind /\ ui'[i].got = ui[i].got
  <2>1. See(eeprom', reg', bid') /\ eeprom' \in [Cells -> Nat] /\ reg' \in Nat /\ bid' \in 0 .. 255 /\ ui \in Seq(Handlers)
    BY <1>0, <1>4 DEF StoreTypes, UiTypes
  <2> QED BY ONLY <2>1, SeeIs
<1>6. hid' = hid
  BY DEF Receive, serial
<1>7. Greeting => Greeting'
  <2>1. Len(ui) = 1 => 1 \in DOMAIN ui
    BY <1>0 DEF UiTypes
  <2> QED BY <1>5, <2>1 DEF Greeting
<1>8. MessageIds'
  BY <1>0, <1>1, <1>4, LeftIds
<1>9. ThreadIds' /\ ReplyIds'
  BY <1>0, <1>4 DEF ThreadIds, ReplyIds, Within
<1>10. HelloIds'
  BY <1>0, <1>4, <1>5, SameHello
<1> QED BY <1>0, <1>4, <1>6, <1>7, <1>8, <1>9, <1>10 DEF SameId

LEMMA OneIdStep ==
  ASSUME Types, Types', CallbackAlive, OneId, Next
  PROVE  OneId'
<1> SUFFICES ASSUME ~excused' PROVE SameId'
  BY DEF OneId
<1>1. ~Damage
  BY DEF Damage
<1>2. ~excused
  <2>1. CASE GotHello
    <3>1. PICK id \in -1 .. 255 : excused' = (excused \/ Top.got # <<id>>)
      BY <2>1, HelloIs DEF Types
    <3> QED BY ONLY <3>1, ~excused', Zenon
  <2>2. CASE ~GotHello
    <3>1. excused' = excused
      BY <1>1, <2>2 DEF Next, UiStep, Click, Stop, Play, Put, ChangeID, Edit, Open, Ask, GotAnswer, Arrives, AnswerLost,
                        Receive, SendAnswer, history
    <3> QED BY <3>1
  <2> QED BY <2>1, <2>2
<1>3. SameId
  BY <1>2 DEF OneId
<1> QED BY <1>1, <1>2, <1>3, SendingIds, LocalIds, LineIds, ReceiveIds DEF Next, UiStep

-----------------------------------------------------------------------------
(* What the handlers that wait have seen. *)
LEMMA Forgotten ==
  ASSUME NEW f, Witnesses(f), UNCHANGED <<eeprom, reg, bid>>, Within(answers', answers), Within(bq', bq)
  PROVE  Witnesses(f)'
  BY DEF Witnesses, Within

LEMMA SameWithin == ASSUME NEW s PROVE Within(s, s)
  BY DEF Within

(* Nothing has happened to the store or to the answers, and the handlers   *)
(* are as they were, or do not wait.                                       *)
LEMMA InformedKept ==
  ASSUME Informed, UNCHANGED <<eeprom, reg, bid, answers, bq>>,
         \A i \in DOMAIN ui' : \/ i \in DOMAIN ui /\ ui'[i] = ui[i]
                               \/ ui'[i].kind = "none" /\ ui'[i].got = <<>>
  PROVE  Informed'
<1> SUFFICES ASSUME NEW i \in DOMAIN ui'
             PROVE  Witnesses(ui[i])' /\ Waited(ui[i])'
  BY DEF Informed
<1>1. CASE i \in DOMAIN ui /\ ui'[i] = ui[i]
  <2>1. Witnesses(ui[i]) /\ Waited(ui[i])
    BY <1>1 DEF Informed
  <2> QED BY <1>1, <2>1 DEF Witnesses, Waited
<1>2. CASE ui'[i].kind = "none" /\ ui'[i].got = <<>>
  BY <1>2 DEF Witnesses, Waited
<1> QED BY <1>1, <1>2

(* The handlers and the store are as they were.                            *)
LEMMA InformedLess ==
  ASSUME Informed, UNCHANGED <<eeprom, reg, bid, ui>>, Within(answers', answers), Within(bq', bq)
  PROVE  Informed'
<1> SUFFICES ASSUME NEW i \in DOMAIN ui
             PROVE  Witnesses(ui[i])' /\ Waited(ui[i])'
  BY DEF Informed
<1>1. Witnesses(ui[i]) /\ Waited(ui[i])
  BY DEF Informed
<1> QED BY <1>1 DEF Witnesses, Waited, Within

LEMMA UiSplit ==
  ASSUME UiTypes, UiTypes', ui # <<>>, Len(ui') \in {Len(ui) - 1, Len(ui)},
         \A i \in DOMAIN ui' : i < Len(ui) => ui'[i] = ui[i]
  PROVE  \A i \in DOMAIN ui' : i \in DOMAIN ui /\ (ui'[i] = ui[i] \/ (i = Len(ui) /\ Len(ui') = Len(ui)))
<1>1. DOMAIN ui = 1 .. Len(ui) /\ DOMAIN ui' = 1 .. Len(ui') /\ Len(ui) \in Nat \ {0}
  BY DEF UiTypes
<1>2. ASSUME NEW i \in DOMAIN ui'
      PROVE  i \in DOMAIN ui /\ (i < Len(ui) \/ (i = Len(ui) /\ Len(ui') = Len(ui)))
  <2>1. CASE Len(ui') = Len(ui)
    BY ONLY <1>1, <1>2, <2>1
  <2>2. CASE Len(ui') = Len(ui) - 1
    <3>1. i \in 1 .. (Len(ui) - 1)
      BY ONLY <1>1, <1>2, <2>2, Zenon
    <3>2. i \in 1 .. Len(ui) /\ i < Len(ui)
      BY ONLY <1>1, <3>1
    <3> QED BY ONLY <1>1, <3>2, Zenon
  <2> QED BY <2>1, <2>2
<1> QED BY <1>2

LEMMA InformedLocal ==
  ASSUME Types, Types', Informed, Click \/ Stop \/ Play \/ Put \/ ChangeID \/ Edit \/ Open \/ Ask \/ GotAnswer \/ GotHello
  PROVE  Informed'
<1>0. UiTypes /\ UiTypes' /\ StoreTypes
  BY DEF Types
<1>1. UNCHANGED <<eeprom, reg, bid, answers, bq>>
  BY DEF Click, Stop, Play, Put, ChangeID, Edit, Open, Ask, GotAnswer, GotHello, board
<1>2. CASE Click
  <2>1. /\ Len(ui') = Len(ui) + 1 /\ Len(ui) \in Nat
        /\ \A i \in DOMAIN ui : ui'[i] = ui[i]
        /\ ui'[Len(ui) + 1].kind = "none" /\ ui'[Len(ui) + 1].got = <<>>
    BY <1>0, <1>2, ClickIs DEF Types
  <2>2. \A i \in DOMAIN ui' : i \in DOMAIN ui \/ i = Len(ui) + 1
    BY <1>0, <2>1 DEF UiTypes
  <2>3. \A i \in DOMAIN ui' : (i \in DOMAIN ui /\ ui'[i] = ui[i]) \/ (ui'[i].kind = "none" /\ ui'[i].got = <<>>)
    BY ONLY <2>1, <2>2
  <2> QED BY <1>1, <2>3, InformedKept
<1>3. CASE Stop \/ Play \/ Put \/ ChangeID \/ Edit \/ Open
  <2>1. /\ ui # <<>> /\ Top.kind = "none" /\ Len(ui') \in {Len(ui) - 1, Len(ui)}
        /\ \A i \in DOMAIN ui' : i < Len(ui) => ui'[i] = ui[i]
        /\ Len(ui') = Len(ui) => ui'[Len(ui)].kind = "none" /\ ui'[Len(ui)].got = Top.got
    BY <1>3, CallIs
  <2>2. Top.got = <<>>
    <3>1. Top = ui[Len(ui)] /\ Len(ui) \in DOMAIN ui
      BY <1>0, <2>1, TopIs
    <3> QED BY <2>1, <3>1 DEF Informed, Waited
  <2>3. \A i \in DOMAIN ui' : i \in DOMAIN ui /\ (ui'[i] = ui[i] \/ (i = Len(ui) /\ Len(ui') = Len(ui)))
    BY <1>0, <2>1, UiSplit
  <2> QED BY <1>1, <2>1, <2>2, <2>3, InformedKept
<1>4. CASE GotAnswer \/ GotHello
  <2>1. /\ ui # <<>> /\ Len(ui') \in {Len(ui) - 1, Len(ui)}
        /\ \A i \in DOMAIN ui' : i < Len(ui) => ui'[i] = ui[i]
        /\ Len(ui') = Len(ui) => ui'[Len(ui)].kind = "none" /\ ui'[Len(ui)].got = <<>>
    BY <1>0, <1>4, ForgetIs DEF GotAnswer, GotHello
  <2>3. \A i \in DOMAIN ui' : i \in DOMAIN ui /\ (ui'[i] = ui[i] \/ (i = Len(ui) /\ Len(ui') = Len(ui)))
    BY <1>0, <2>1, UiSplit
  <2> QED BY <1>1, <2>1, <2>3, InformedKept
<1>5. CASE Ask
  <2>1. PICK k \in Kinds :
           /\ ui # <<>> /\ Len(ui') = Len(ui) /\ Len(ui) \in DOMAIN ui
           /\ \A i \in DOMAIN ui' : i < Len(ui) => ui'[i] = ui[i]
           /\ ui'[Len(ui)].kind = k /\ ui'[Len(ui)].got = <<>> /\ ui'[Len(ui)].clean = None(k)
           /\ ui'[Len(ui)].seen = {Answer(k, eeprom, reg, bid)}
    BY <1>0, <1>5, AskIs
  <2>2. k # "none"
    BY DEF Kinds, Requests
  <2>3. Len(ui') \in {Len(ui) - 1, Len(ui)}
    BY <2>1
  <2>4. \A i \in DOMAIN ui' : i \in DOMAIN ui /\ (ui'[i] = ui[i] \/ i = Len(ui))
    BY <1>0, <2>1, <2>3, UiSplit
  <2> SUFFICES ASSUME NEW i \in DOMAIN ui'
               PROVE  Witnesses(ui[i])' /\ Waited(ui[i])'
    BY DEF Informed
  <2>5. CASE ui'[i] = ui[i]
    <3>1. Witnesses(ui[i]) /\ Waited(ui[i])
      BY <2>4 DEF Informed
    <3> QED BY <1>1, <2>5, <3>1 DEF Witnesses, Waited
  <2>6. CASE i = Len(ui)
    <3>1. Answer(k, eeprom, reg, bid)' \in ui'[i].seen
      BY <1>1, <2>1, <2>6
    <3>2. ui'[i].clean => None(k)
      BY <2>1, <2>6
    <3> QED BY <1>1, <2>1, <2>2, <2>6, <3>1, <3>2 DEF Witnesses, Waited, None
  <2> QED BY <2>4, <2>5, <2>6
<1> QED BY <1>2, <1>3, <1>4, <1>5

LEMMA InformedLine ==
  ASSUME Types, Types', CallbackAlive, Informed, Arrives \/ AnswerLost \/ SendAnswer \/ Damage
  PROVE  Informed'
<1>0. UiTypes /\ UiTypes' /\ BqTypes /\ ThreadTypes
  BY DEF Types
<1>1. UNCHANGED <<eeprom, reg, bid>>
  BY DEF Arrives, AnswerLost, SendAnswer, Damage, board
<1>2. CASE Arrives
  <2>1. /\ DOMAIN ui' = DOMAIN ui /\ bq # <<>> /\ bq' = Tail(bq)
        /\ \A j \in DOMAIN ui :
              /\ ui'[j].kind = ui[j].kind /\ ui'[j].clean = ui[j].clean /\ ui'[j].seen = ui[j].seen
              /\ \/ ui'[j].got = ui[j].got
                 \/ ui[j].kind = bq[1].kind /\ ui'[j].got = bq[1].val
    BY <1>0, <1>2, ArrivesIs
  <2>2. Within(bq', bq) /\ Within(answers', answers) /\ 1 \in DOMAIN bq
    <3>1. Within(bq', bq)
      BY <1>0, <2>1, BqTail DEF Within
    <3>2. answers' = answers
      BY <1>2 DEF Arrives
    <3> QED BY <1>0, <2>1, <3>1, <3>2, SameWithin DEF BqTypes
  <2>3. bq[1].kind \in Kinds
    <3>1. bq[1] \in Replies
      BY <1>0, <1>2, ArrivesIs
    <3> QED BY <3>1 DEF Replies
  <2> SUFFICES ASSUME NEW i \in DOMAIN ui
               PROVE  Witnesses(ui[i])' /\ Waited(ui[i])'
    BY <2>1 DEF Informed
  <2>4. Witnesses(ui[i]) /\ Waited(ui[i])
    BY DEF Informed
  <2>5. CASE ui'[i].got = ui[i].got
    BY <1>1, <2>1, <2>2, <2>4, <2>5 DEF Witnesses, Waited, Within
  <2>6. CASE ui[i].kind = bq[1].kind /\ ui'[i].got = bq[1].val
    <3>1. ui[i].kind # "none"
      BY <2>3, <2>6 DEF Kinds, Requests
    <3>2. ui[i].clean => ui'[i].got \in ui[i].seen
      BY <2>2, <2>4, <2>6, <3>1 DEF Witnesses
    <3> QED BY <1>1, <2>1, <2>2, <2>4, <3>1, <3>2 DEF Witnesses, Waited, Within
  <2> QED BY <2>1, <2>5, <2>6
<1>3. CASE AnswerLost \/ Damage
  <2>1. ui' = ui /\ answers' = answers
    BY <1>3 DEF AnswerLost, Damage, window
  <2>2. Within(bq', bq) /\ Within(answers', answers)
    <3>1. Within(bq', bq)
      BY <1>0, <1>3, BqTail, SameWithin DEF Within, AnswerLost, Damage
    <3> QED BY <2>1, <3>1, SameWithin
  <2> QED BY <1>1, <2>1, <2>2, InformedLess
<1>4. CASE SendAnswer
  <2>1. PICK n \in DOMAIN answers :
           /\ Within(answers', answers)
           /\ Len(bq') = Len(bq) + 1 /\ Len(bq) \in Nat
           /\ \A j \in DOMAIN bq : bq'[j] = bq[j]
           /\ bq'[Len(bq) + 1].kind = answers[n].kind /\ bq'[Len(bq) + 1].val = answers[n].val
    BY <1>4, SendAnswerIs
  <2>2. \A j \in DOMAIN bq' : j \in DOMAIN bq \/ j = Len(bq) + 1
    BY <2>1 DEF Types, BqTypes
  <2>3. ui' = ui
    BY <1>4 DEF SendAnswer, window
  <2> SUFFICES ASSUME NEW i \in DOMAIN ui
               PROVE  Witnesses(ui[i])' /\ Waited(ui[i])'
    BY <2>3 DEF Informed
  <2>4. Witnesses(ui[i]) /\ Waited(ui[i])
    BY DEF Informed
  <2>5. Waited(ui[i])'
    BY <2>3, <2>4 DEF Waited
  <2>6. ASSUME ui[i].kind # "none", ui[i].clean, NEW j \in DOMAIN bq', bq'[j].kind = ui[i].kind
        PROVE  bq'[j].val \in ui[i].seen
    <3>1. CASE j \in DOMAIN bq
      BY <2>1, <2>4, <2>6, <3>1 DEF Witnesses
    <3>2. CASE j = Len(bq) + 1
      BY <2>1, <2>4, <2>6, <3>2 DEF Witnesses
    <3> QED BY <2>2, <3>1, <3>2
  <2> QED BY <1>1, <2>1, <2>3, <2>4, <2>5, <2>6 DEF Witnesses, Within
<1> QED BY <1>2, <1>3, <1>4

(* The answer to a request is what the handlers that wait have just seen.  *)
LEMMA InformedReceive ==
  ASSUME Types, Types', Informed, Receive
  PROVE  Informed'
<1>0. UiTypes /\ UiTypes' /\ HqTypes /\ StoreTypes'
  BY DEF Types
<1>1. /\ hq[1] \in Messages /\ Sound(hq[1])
      /\ \/ UNCHANGED <<ui, bq, answers, board, stored, spoilt>>
         \/ Execute(hq[1])
         \/ hq[1].kind # "none" /\ Store(hq[1])
  BY <1>0, ReceivedIs
<1>2. PICK m \in Messages : m = hq[1]
  BY <1>1
<1>3. CASE UNCHANGED <<ui, bq, answers, board, stored, spoilt>>
  <2>1. UNCHANGED <<eeprom, reg, bid, ui>> /\ Within(answers', answers) /\ Within(bq', bq)
    BY <1>3, SameWithin DEF board
  <2> QED BY <2>1, InformedLess
<1>4. CASE ~UNCHANGED <<ui, bq, answers, board, stored, spoilt>>
  <2>1. /\ See(eeprom', reg', bid') /\ Within(bq', bq)
        /\ \A i \in DOMAIN answers' : \/ i \in DOMAIN answers /\ answers'[i] = answers[i]
                                      \/ answers'[i].val = Answer(answers'[i].kind, eeprom, reg, bid)
    <3>1. CASE Execute(m)
      <4>1. Sound(m)
        BY <1>1, <1>2
      <4>2. /\ Within(bq', bq)
            /\ \/ answers' = answers
               \/ \E k \in Kinds : answers' = Append(answers, [kind |-> k, val |-> Answer(k, eeprom, reg, bid)])
            /\ See(eeprom', reg', bid')
        BY <3>1, <4>1, ExecuteIs
      <4>3. \A i \in DOMAIN answers' : \/ i \in DOMAIN answers /\ answers'[i] = answers[i]
                                       \/ answers'[i].val = Answer(answers'[i].kind, eeprom, reg, bid)
        <5>1. CASE answers' = answers
          BY <5>1
        <5>2. ASSUME NEW k \in Kinds, answers' = Append(answers, [kind |-> k, val |-> Answer(k, eeprom, reg, bid)])
              PROVE  \A i \in DOMAIN answers' : \/ i \in DOMAIN answers /\ answers'[i] = answers[i]
                                                \/ answers'[i].val = Answer(answers'[i].kind, eeprom, reg, bid)
          <6>1. PICK v : v = Answer(k, eeprom, reg, bid)
            OBVIOUS
          <6>2. PICK a : a = [kind |-> k, val |-> v]
            OBVIOUS
          <6>3. answers' = Append(answers, a) /\ answers \in Seq(Threads)
            BY <5>2, <6>1, <6>2 DEF Types, ThreadTypes
          <6>4. \A i \in DOMAIN answers' : (i \in DOMAIN answers /\ answers'[i] = answers[i]) \/ answers'[i] = a
            BY ONLY <6>3
          <6>5. a.val = Answer(a.kind, eeprom, reg, bid)
            BY ONLY <6>1, <6>2
          <6> QED BY ONLY <6>4, <6>5
        <5> QED BY <4>2, <5>1, <5>2
      <4> QED BY <4>2, <4>3
    <3>2. CASE m.kind # "none" /\ Store(m)
      <4>1. Sound(m)
        BY <1>1, <1>2
      <4>2. See(eeprom', reg', bid) /\ UNCHANGED <<bq, answers, bid>>
        BY <3>2, <4>1, StoreIs
      <4> QED BY <4>2, SameWithin
    <3> QED BY <1>1, <1>2, <1>4, <3>1, <3>2
  <2>2. /\ DOMAIN ui' = DOMAIN ui
        /\ \A i \in DOMAIN ui : /\ ui'[i].clean = ui[i].clean /\ ui[i].seen \subseteq ui'[i].seen
                                /\ ui'[i].kind = ui[i].kind /\ ui'[i].got = ui[i].got
                                /\ ui[i].kind # "none" => Answer(ui[i].kind, eeprom', reg', bid') \in ui'[i].seen
    <3>1. See(eeprom', reg', bid') /\ eeprom' \in [Cells -> Nat] /\ reg' \in Nat /\ bid' \in 0 .. 255 /\ ui \in Seq(Handlers)
      BY <1>0, <2>1 DEF StoreTypes, UiTypes
    <3> QED BY ONLY <3>1, SeeIs
  <2> SUFFICES ASSUME NEW i \in DOMAIN ui
               PROVE  Witnesses(ui[i])' /\ Waited(ui[i])'
    BY <2>2 DEF Informed
  <2>3. Witnesses(ui[i]) /\ Waited(ui[i])
    BY DEF Informed
  <2>4. Waited(ui[i])'
    BY <2>2, <2>3 DEF Waited
  <2>5. Witnesses(ui[i])'
    <3> SUFFICES ASSUME ui'[i].kind # "none"
                 PROVE  /\ Answer(ui'[i].kind, eeprom', reg', bid') \in ui'[i].seen
                        /\ ui'[i].clean =>
                             /\ \A n \in DOMAIN answers' : answers'[n].kind = ui'[i].kind => answers'[n].val \in ui'[i].seen
                             /\ \A n \in DOMAIN bq' : bq'[n].kind = ui'[i].kind => bq'[n].val \in ui'[i].seen
                             /\ ui'[i].got # <<>> => ui'[i].got \in ui'[i].seen
      BY DEF Witnesses
    <3>1. ui[i].kind # "none" /\ Answer(ui'[i].kind, eeprom', reg', bid') \in ui'[i].seen
      BY <2>2
    <3>2. /\ Answer(ui[i].kind, eeprom, reg, bid) \in ui[i].seen
          /\ ui[i].clean => /\ \A n \in DOMAIN answers : answers[n].kind = ui[i].kind => answers[n].val \in ui[i].seen
                            /\ \A n \in DOMAIN bq : bq[n].kind = ui[i].kind => bq[n].val \in ui[i].seen
                            /\ ui[i].got # <<>> => ui[i].got \in ui[i].seen
      BY <2>3, <3>1 DEF Witnesses
    <3>3. ASSUME ui'[i].clean, NEW n \in DOMAIN answers', answers'[n].kind = ui'[i].kind
          PROVE  answers'[n].val \in ui'[i].seen
      <4>1. CASE n \in DOMAIN answers /\ answers'[n] = answers[n]
        BY <2>2, <3>2, <3>3, <4>1
      <4>2. CASE answers'[n].val = Answer(answers'[n].kind, eeprom, reg, bid)
        BY <2>2, <3>2, <3>3, <4>2
      <4> QED BY <2>1, <4>1, <4>2
    <3>4. ASSUME ui'[i].clean, NEW n \in DOMAIN bq', bq'[n].kind = ui'[i].kind
          PROVE  bq'[n].val \in ui'[i].seen
      BY <2>1, <2>2, <3>2, <3>4 DEF Within
    <3>5. ui'[i].clean /\ ui'[i].got # <<>> => ui'[i].got \in ui'[i].seen
      BY <2>2, <3>2
    <3> QED BY <3>1, <3>3, <3>4, <3>5
  <2> QED BY <2>4, <2>5
<1> QED BY <1>3, <1>4

LEMMA InformedStep ==
  ASSUME Types, Types', CallbackAlive, Informed, Next
  PROVE  Informed'
  BY InformedLocal, InformedLine, InformedReceive DEF Next, UiStep

-----------------------------------------------------------------------------
(* The store. *)
LEMMA Neighbours ==
  /\ \A k \in Areas, j \in Areas : k # j =>
       \/ Offset[k] + MaxSize[k] < Offset[j]
       \/ Offset[k] + MaxSize[k] = Offset[j] /\ After[k] = j
       \/ Offset[j] + MaxSize[j] < Offset[k]
       \/ Offset[j] + MaxSize[j] = Offset[k] /\ After[j] = k
  /\ \A k \in Areas : \/ Offset[k] + MaxSize[k] < streaming_mode_offset
                      \/ Offset[k] + MaxSize[k] = streaming_mode_offset /\ After[k] = "mode"
<1>1. /\ MaxSize["md"] \in Nat \ {0, 1} /\ MaxSize["enc"] \in Nat \ {0, 1} /\ MaxSize["roi"] \in Nat \ {0, 1}
      /\ Offset["md"] = 1 /\ Offset["enc"] = Offset["md"] + MaxSize["md"]
      /\ Offset["roi"] = Offset["enc"] + MaxSize["enc"]
      /\ streaming_mode_offset = Offset["roi"] + MaxSize["roi"]
      /\ Areas = {"md", "enc", "roi"}
  BY Layout
<1>2. After["md"] = "enc" /\ After["enc"] = "roi" /\ After["roi"] = "mode"
  BY DEF After
<1>3. PICK o1, o2, o3, s1, s2, s3 :
        /\ o1 = Offset["md"] /\ o2 = Offset["enc"] /\ o3 = Offset["roi"]
        /\ s1 = MaxSize["md"] /\ s2 = MaxSize["enc"] /\ s3 = MaxSize["roi"]
  OBVIOUS
<1>4. /\ o1 + s1 = o2 /\ o2 + s2 = o3 /\ o3 + s3 = streaming_mode_offset
      /\ o1 + s1 < o3 /\ o1 + s1 < streaming_mode_offset /\ o2 + s2 < streaming_mode_offset
  BY ONLY <1>1, <1>3
<1> QED BY ONLY <1>1, <1>2, <1>3, <1>4

(* An area is as it was, if none of its cells changes. *)
LEMMA KeptStays ==
  ASSUME StoreTypes, Stores, NEW k \in Areas, Kept(k), stored'[k] = stored[k],
         \A a \in Cells : a \in Offset[k] .. Offset[k] + Len(stored[k]) => eeprom'[a] = eeprom[a]
  PROVE  Kept(k)'
<1>1. /\ Offset[k] \in Nat \ {0} /\ MaxSize[k] \in Nat /\ Offset[k] + MaxSize[k] <= streaming_mode_offset
      /\ streaming_mode_offset \in Nat /\ hw_status_offset = streaming_mode_offset + 1
      /\ Len(stored[k]) \in Nat /\ Len(stored[k]) <= MaxSize[k]
  BY Layout, SMTT(30) DEF StoreTypes, Stores
<1>2. Offset[k] \in Cells /\ Offset[k] \in Offset[k] .. Offset[k] + Len(stored[k])
  BY ONLY <1>1 DEF Cells
<1>3. \A n \in 1 .. Len(stored[k]) : Offset[k] + n \in Cells /\ Offset[k] + n \in Offset[k] .. Offset[k] + Len(stored[k])
  BY ONLY <1>1 DEF Cells
<1> QED BY <1>2, <1>3 DEF Kept

LEMMA StoresArea ==
  ASSUME Types, Stores, NEW k \in Areas, NEW v \in Seq(Nat), Len(v) <= MaxSize[k],
         eeprom' = Write(eeprom, Offset[k], <<Len(v)>> \o v),
         stored' = [stored EXCEPT ![k] = v],
         spoilt' = (spoilt \ {k}) \union Reached(k, v)
  PROVE  Stores'
<1>0. StoreTypes /\ eeprom \in [Cells -> Nat] /\ stored \in [Areas -> Seq(Nat)]
  BY DEF Types, StoreTypes
<1>1. PICK w : w = eeprom'
  OBVIOUS
<1>2. /\ w \in [Cells -> Nat]
      /\ w[Offset[k]] = Len(v) /\ \A n \in 1 .. Len(v) : w[Offset[k] + n] = v[n]
      /\ \A a \in Cells : a < Offset[k] \/ a > Offset[k] + Len(v) => w[a] = eeprom[a]
  <2>1. w = Write(eeprom, Offset[k], <<Len(v)>> \o v)
    BY <1>1
  <2>2. PICK e : e = eeprom
    OBVIOUS
  <2>3. e \in [Cells -> Nat] /\ w = Write(e, Offset[k], <<Len(v)>> \o v)
    BY ONLY <1>0, <2>1, <2>2
  <2>4. /\ w \in [Cells -> Nat]
        /\ w[Offset[k]] = Len(v) /\ \A n \in 1 .. Len(v) : w[Offset[k] + n] = v[n]
        /\ \A a \in Cells : a < Offset[k] \/ a > Offset[k] + Len(v) => w[a] = e[a]
    BY ONLY <2>3, k \in Areas, v \in Seq(Nat), Len(v) <= MaxSize[k], AreaWritten
  <2> QED BY ONLY <2>2, <2>4, Zenon
<1>3. stored'[k] = v /\ \A j \in Areas : j # k => stored'[j] = stored[j]
  BY <1>0
<1>4. /\ Offset[k] \in Nat \ {0} /\ MaxSize[k] \in Nat /\ Offset[k] + MaxSize[k] <= streaming_mode_offset
      /\ streaming_mode_offset \in Nat /\ hw_status_offset = streaming_mode_offset + 1 /\ Len(v) \in Nat
  BY Layout
<1>5. \A j \in Areas : Len(stored'[j]) <= MaxSize[j]
  BY <1>3 DEF Stores
<1>6. ASSUME NEW j \in Areas \ spoilt'
      PROVE  Kept(j)'
  <2>1. CASE j = k
    <3>1. w[Offset[j]] = Len(v) /\ \A n \in 1 .. Len(v) : w[Offset[j] + n] = v[n]
      BY ONLY <1>2, <2>1, Zenon
    <3>2. eeprom' = w /\ stored'[j] = v
      BY ONLY <1>1, <1>3, <2>1, Zenon
    <3> QED BY ONLY <3>1, <3>2, Zenon DEF Kept
  <2>2. CASE j # k
    <3>1. j \notin spoilt /\ j \notin Reached(k, v) /\ Kept(j)
      BY <1>6, <2>2 DEF Stores
    <3>2. ~(After[k] = j /\ Len(v) = MaxSize[k]) /\ ~(After[j] = k /\ Len(stored[j]) = MaxSize[j])
      BY <3>1 DEF Reached
    <3>3. /\ Offset[j] \in Nat \ {0} /\ MaxSize[j] \in Nat /\ Len(stored[j]) \in Nat /\ Len(stored[j]) <= MaxSize[j]
      BY <1>0, Layout, SMTT(30) DEF Stores
    <3>4. \/ Offset[k] + MaxSize[k] < Offset[j]
          \/ Offset[k] + MaxSize[k] = Offset[j] /\ After[k] = j
          \/ Offset[j] + MaxSize[j] < Offset[k]
          \/ Offset[j] + MaxSize[j] = Offset[k] /\ After[j] = k
      BY <2>2, Neighbours
    <3>5. Offset[k] + Len(v) < Offset[j] \/ Offset[j] + Len(stored[j]) < Offset[k]
      BY ONLY <1>4, <3>2, <3>3, <3>4, Len(v) <= MaxSize[k], SMTT(30)
    <3>6. \A a \in Cells : a \in Nat
      BY <1>4 DEF Cells
    <3>7. \A a \in Cells : a \in Offset[j] .. Offset[j] + Len(stored[j]) => a < Offset[k] \/ a > Offset[k] + Len(v)
      BY ONLY <1>4, <3>3, <3>5, <3>6
    <3>8. \A a \in Cells : a \in Offset[j] .. Offset[j] + Len(stored[j]) => eeprom'[a] = eeprom[a]
      BY ONLY <1>1, <1>2, <3>7
    <3> QED BY <1>0, <1>3, <2>2, <3>1, <3>8, KeptStays
  <2> QED BY <2>1, <2>2
<1>7. "mode" \notin spoilt' => eeprom'[streaming_mode_offset] = 0
  <2> SUFFICES ASSUME "mode" \notin spoilt' PROVE eeprom'[streaming_mode_offset] = 0
    OBVIOUS
  <2>1. "mode" \notin spoilt /\ "mode" \notin Reached(k, v)
    <3>1. k # "mode"
      BY DEF Areas
    <3> QED BY <3>1
  <2>2. ~(After[k] = "mode" /\ Len(v) = MaxSize[k]) /\ eeprom[streaming_mode_offset] = 0
    BY <2>1 DEF Reached, Stores
  <2>3. streaming_mode_offset > Offset[k] + Len(v)
    <3>1. \/ Offset[k] + MaxSize[k] < streaming_mode_offset
          \/ Offset[k] + MaxSize[k] = streaming_mode_offset /\ After[k] = "mode"
      BY Neighbours
    <3> QED BY ONLY <1>4, <2>2, <3>1, Len(v) <= MaxSize[k]
  <2>4. streaming_mode_offset \in Cells
    BY <1>4 DEF Cells
  <2> QED BY <1>1, <1>2, <2>2, <2>3, <2>4
<1>8. eeprom'[hw_status_offset] = 0
  <2>1. hw_status_offset > Offset[k] + Len(v) /\ hw_status_offset \in Cells
    BY ONLY <1>4, Len(v) <= MaxSize[k] DEF Cells
  <2> QED BY <1>1, <1>2, <2>1 DEF Stores
<1> QED BY <1>5, <1>6, <1>7, <1>8 DEF Stores

LEMMA StoresID ==
  ASSUME Types, Stores, NEW id \in 0 .. 255, eeprom' = SetCameraID(eeprom, id), UNCHANGED <<stored, spoilt>>
  PROVE  Stores'
<1>0. StoreTypes /\ eeprom \in [Cells -> Nat]
  BY DEF Types, StoreTypes
<1>1. streaming_mode_offset \in Nat \ {0} /\ hw_status_offset = streaming_mode_offset + 1
  <2>1. Offset["md"] \in Nat \ {0} /\ MaxSize["md"] \in Nat /\ Offset["md"] + MaxSize["md"] <= streaming_mode_offset
        /\ streaming_mode_offset \in Nat /\ hw_status_offset = streaming_mode_offset + 1
    BY Layout
  <2> QED BY ONLY <2>1
<1>2. \A a \in Cells : a # 0 => eeprom'[a] = eeprom[a]
  <2>1. PICK c : c = <<id>>
    OBVIOUS
  <2>2. c \in Seq(Nat) /\ Len(c) = 1 /\ 0 \in Nat
    BY <2>1
  <2>3. PICK w, e : w = Write(e, 0, c) /\ e = eeprom
    OBVIOUS
  <2>4. \A a \in Cells : a \notin 0 .. 0 + Len(c) - 1 => w[a] = eeprom[a]
    <3>1. e \in [Cells -> Nat]
      BY ONLY <1>0, <2>3
    <3>2. \A a \in Cells : a \notin 0 .. 0 + Len(c) - 1 => Write(e, 0, c)[a] = e[a]
      BY ONLY <2>2, <3>1, WriteIs, Zenon
    <3> QED BY ONLY <2>3, <3>2, Zenon
  <2>5. \A a \in Cells : a # 0 => a \notin 0 .. 0 + Len(c) - 1
    BY <1>1, <2>2 DEF Cells
  <2>6. eeprom' = w
    BY <2>1, <2>3 DEF SetCameraID, cam_id_config_offset
  <2> QED BY ONLY <2>4, <2>5, <2>6
<1>3. ASSUME NEW k \in Areas \ spoilt
      PROVE  Kept(k)'
  <2>1. \A a \in Cells : a \in Offset[k] .. Offset[k] + Len(stored[k]) => a # 0
    <3>1. Offset[k] \in Nat \ {0} /\ Len(stored[k]) \in Nat
      BY <1>0, Layout, SMTT(30) DEF StoreTypes
    <3> QED BY ONLY <3>1
  <2> QED BY <1>0, <1>2, <2>1, KeptStays DEF Stores
<1>4. streaming_mode_offset \in Cells /\ streaming_mode_offset # 0 /\ hw_status_offset \in Cells /\ hw_status_offset # 0
  BY <1>1 DEF Cells
<1> QED BY <1>2, <1>3, <1>4 DEF Stores

LEMMA StoresStep ==
  ASSUME Types, Types', Stores, Next
  PROVE  Stores'
<1>1. CASE Receive
  <2>0. HqTypes /\ StoreTypes'
    BY DEF Types
  <2>1. /\ hq[1] \in Messages /\ Sound(hq[1])
        /\ \/ UNCHANGED <<ui, bq, answers, board, stored, spoilt>>
           \/ Execute(hq[1])
           \/ hq[1].kind # "none" /\ Store(hq[1])
    BY <1>1, <2>0, ReceivedIs
  <2>2. PICK m \in Messages : m = hq[1]
    BY <2>1
  <2>3. CASE UNCHANGED <<eeprom, stored, spoilt>>
    BY <2>3 DEF Stores, Kept
  <2>4. CASE Execute(m)
    <3>1. /\ IF m.cmd = Board.SetID
             THEN bid' \in 0 .. 255 /\ eeprom' = SetCameraID(eeprom, bid')
             ELSE UNCHANGED <<bid, eeprom>>
          /\ UNCHANGED <<stored, spoilt>>
      BY <2>1, <2>2, <2>4, ExecuteIs
    <3> QED BY <2>3, <3>1, StoresID
  <2>5. CASE m.kind # "none" /\ Store(m)
    <3>1. \/ UNCHANGED <<eeprom, stored, spoilt>>
          \/ /\ m.kind \in Areas /\ m.val \in Seq(Nat) /\ Len(m.val) <= MaxSize[m.kind]
             /\ eeprom' = Write(eeprom, Offset[m.kind], <<Len(m.val)>> \o m.val)
             /\ stored' = [stored EXCEPT ![m.kind] = m.val]
             /\ spoilt' = (spoilt \ {m.kind}) \union Reached(m.kind, m.val)
      BY <2>1, <2>2, <2>5, StoreIs
    <3>2. PICK k, v : k = m.kind /\ v = m.val
      OBVIOUS
    <3>3. \/ UNCHANGED <<eeprom, stored, spoilt>>
          \/ /\ k \in Areas /\ v \in Seq(Nat) /\ Len(v) <= MaxSize[k]
             /\ eeprom' = Write(eeprom, Offset[k], <<Len(v)>> \o v)
             /\ stored' = [stored EXCEPT ![k] = v]
             /\ spoilt' = (spoilt \ {k}) \union Reached(k, v)
      BY ONLY <3>1, <3>2, Zenon
    <3> QED BY <2>3, <3>3, StoresArea
  <2>6. UNCHANGED <<ui, bq, answers, board, stored, spoilt>> => UNCHANGED <<eeprom, stored, spoilt>>
    BY DEF board
  <2> QED BY <2>1, <2>2, <2>3, <2>4, <2>5, <2>6
<1>2. CASE ~Receive
  <2>1. UNCHANGED <<eeprom, stored, spoilt>>
    BY <1>2 DEF Next, UiStep, Click, Stop, Play, Put, ChangeID, Edit, Open, Ask, GotAnswer, GotHello, Arrives,
                AnswerLost, Damage, SendAnswer, board, history
  <2> QED BY <2>1 DEF Stores, Kept
<1> QED BY <1>1, <1>2

-----------------------------------------------------------------------------
(* The invariant. *)
LEMMA InvInit == Init => IInv
<1> SUFFICES ASSUME Init PROVE IInv
  OBVIOUS
<1>1. Types
  BY TypesInit
<1>2. /\ ui = <<Handler("main", Windows, Construct)>> /\ bid \in 0 .. 3 /\ hq = <<>> /\ bq = <<>> /\ answers = <<>>
      /\ cb = 0 /\ cbReg = 0 /\ missed /\ ~refused /\ spoilt = {}
      /\ eeprom = Write(Erased, 0, <<bid>>) /\ \A k \in Areas : stored[k] = <<>>
  BY SessionAssumption DEF Init, SetCameraID, cam_id_config_offset
<1>3. PICK f : f = Handler("main", Windows, Construct)
  OBVIOUS
<1>4. f.kind = "none" /\ f.got = <<>> /\ f.todo = Construct /\ f.blocked = Windows
  BY <1>3, NewHandler, Buttons DEF Windows
<1>5. ui = <<f>> /\ Len(ui) = 1 /\ DOMAIN ui = {1} /\ ui[1] = f
  BY <1>2, <1>3
<1>6. CallbackAlive /\ Agrees
  BY <1>2 DEF CallbackAlive, Agrees
<1>7. OneId
  <2>1. Greeting
    BY <1>4, <1>5 DEF Greeting
  <2>2. MessageIds /\ ThreadIds /\ ReplyIds /\ HelloIds
    BY <1>2, <1>4, <1>5 DEF MessageIds, ThreadIds, ReplyIds, HelloIds
  <2> QED BY <1>2, <2>1, <2>2 DEF OneId, SameId
<1>8. Informed
  BY <1>4, <1>5 DEF Informed, Witnesses, Waited
<1>9. Stores
  <2>1. Erased \in [Cells -> Nat] /\ \A a \in Cells : Erased[a] = 0
    BY DEF Erased, Cells
  <2>2. \A a \in Cells : a # 0 => eeprom[a] = 0
    <3>1. PICK c, e, w : c = <<bid>> /\ e = Erased /\ w = Write(e, 0, c)
      OBVIOUS
    <3>2. c \in Seq(Nat) /\ Len(c) = 1 /\ 0 \in Nat /\ e \in [Cells -> Nat]
      BY <1>2, <2>1, <3>1
    <3>3. \A a \in Cells : a \notin 0 .. 0 + Len(c) - 1 => Write(e, 0, c)[a] = e[a]
      BY ONLY <3>2, WriteIs, Zenon
    <3>4. \A a \in Cells : a # 0 => a \notin 0 .. 0 + Len(c) - 1
      BY <3>2, Layout DEF Cells
    <3> QED BY ONLY <1>2, <2>1, <3>1, <3>3, <3>4
  <2>3. ASSUME NEW k \in Areas
        PROVE  Offset[k] \in Cells /\ Offset[k] # 0 /\ MaxSize[k] \in Nat
    <3>1. /\ Offset[k] \in Nat \ {0} /\ MaxSize[k] \in Nat \ {0, 1}
          /\ Offset[k] + MaxSize[k] <= streaming_mode_offset
          /\ streaming_mode_offset \in Nat /\ hw_status_offset = streaming_mode_offset + 1
      BY Layout
    <3> QED BY ONLY <3>1 DEF Cells
  <2>4. /\ streaming_mode_offset \in Cells /\ streaming_mode_offset # 0
        /\ hw_status_offset \in Cells /\ hw_status_offset # 0
    <3>1. Offset["md"] = 1 /\ MaxSize["md"] \in Nat /\ Offset["md"] + MaxSize["md"] <= streaming_mode_offset
          /\ streaming_mode_offset \in Nat /\ hw_status_offset = streaming_mode_offset + 1
      BY Layout
    <3> QED BY ONLY <3>1 DEF Cells
  <2> QED BY <1>2, <2>2, <2>3, <2>4 DEF Stores, Kept
<1> QED BY <1>1, <1>6, <1>7, <1>8, <1>9 DEF IInv

LEMMA InvStep == IInv /\ [Next]_vars => IInv'
<1> SUFFICES ASSUME IInv, [Next]_vars PROVE IInv'
  OBVIOUS
<1>1. CASE Next
  <2>1. Types' /\ CallbackAlive /\ Types
    BY <1>1, TypesStep DEF IInv
  <2>2. CallbackAlive' /\ Agrees' /\ OneId' /\ Informed' /\ Stores'
    BY <1>1, <2>1, CallbackStep, AgreesStep, OneIdStep, InformedStep, StoresStep DEF IInv
  <2> QED BY <2>1, <2>2 DEF IInv
<1>2. CASE UNCHANGED vars
  <2>1. /\ UNCHANGED <<ui, shown, connected, editors, port, hid, cb, cbReg, hq, bq, answers, bid, stop, eeprom, reg>>
        /\ UNCHANGED <<missed, refused, excused, stored, spoilt>>
    BY <1>2 DEF vars, window, serial, board, history
  <2>2. Types'
    BY <2>1 DEF IInv, Types, UiTypes, HqTypes, BqTypes, ThreadTypes, StoreTypes
  <2>3. CallbackAlive' /\ Agrees' /\ Informed'
    BY <2>1 DEF IInv, CallbackAlive, Agrees, Agreed, Informed, Witnesses, Waited
  <2>4. OneId' /\ Stores'
    BY <2>1 DEF IInv, OneId, SameId, Greeting, MessageIds, ThreadIds, ReplyIds, HelloIds, Stores, Kept
  <2> QED BY <2>2, <2>3, <2>4 DEF IInv
<1> QED BY <1>1, <1>2

(* The invariant holds in every state: the stack of handlers, what is on   *)
(* the lines and the EEPROM are what they should be, together.             *)
THEOREM Invariant == Spec => []IInv
  BY InvInit, InvStep, PTL DEF Spec

(* Every variable has its type: no more handlers run inside each other     *)
(* than there are windows, and the ring never holds more than it can.      *)
THEOREM Typed == Spec => []TypeOK
<1>1. IInv => TypeOK
  <2> SUFFICES ASSUME IInv PROVE TypeOK
    OBVIOUS
  <2>1. Types
    BY DEF IInv
  <2>2. IsFiniteSet(Windows)
    <3>1. IsFiniteSet({"main"}) /\ IsFiniteSet({"registers"}) /\ IsFiniteSet(Editors)
      BY FS_Singleton, SessionAssumption
    <3>2. IsFiniteSet({"main"} \union {"registers"})
      BY <3>1, FS_Union
    <3>3. IsFiniteSet(({"main"} \union {"registers"}) \union Editors)
      BY <3>1, <3>2, FS_Union
    <3>4. ({"main"} \union {"registers"}) \union Editors = Windows
      BY DEF Windows
    <3> QED BY <3>3, <3>4
  <2>3. Len(ui) <= Cardinality(Windows)
    <3>1. ui \in Seq(Handlers) /\ Len(ui) \in Nat /\ DOMAIN ui = 1 .. Len(ui)
      BY <2>1 DEF Types, UiTypes
    <3>2. \A i \in 1 .. Len(ui) : ui[i].win \in Windows /\ ui[i].win \in ui[i].blocked
      BY <2>1, <3>1, FieldTypes DEF Types, UiTypes, Runs
    <3>3. \A i, j \in 1 .. Len(ui) : i < j => ui[j].win # ui[i].win
      BY <2>1, <3>1, <3>2 DEF Types, UiTypes
    <3> DEFINE owner == [i \in 1 .. Len(ui) |-> ui[i].win]
    <3>4. owner \in [1 .. Len(ui) -> Windows]
      BY <3>2
    <3>5. IsFiniteSet(1 .. Len(ui)) /\ Cardinality(1 .. Len(ui)) = Len(ui)
      <4>1. IsFiniteSet(1 .. Len(ui)) /\ Cardinality(1 .. Len(ui)) = IF 1 > Len(ui) THEN 0 ELSE Len(ui) - 1 + 1
        BY <3>1, FS_Interval
      <4> QED BY <3>1, <4>1
    <3>6. Cardinality(Windows) \in Nat
      BY <2>2, FS_CardinalityType
    <3>7. ASSUME Cardinality(Windows) < Cardinality(1 .. Len(ui))
          PROVE  FALSE
      <4>1. PICK i, j \in 1 .. Len(ui) : i # j /\ owner[i] = owner[j]
        <5>1. \E x, y \in 1 .. Len(ui) : x # y /\ owner[x] = owner[y]
          <6> HIDE DEF owner
          <6> QED BY ONLY <2>2, <3>4, <3>5, <3>7, FS_PigeonHole
        <5> QED BY ONLY <5>1, Zenon
      <4>2. i < j \/ j < i
        BY <3>1, <4>1
      <4> QED BY <3>3, <4>1, <4>2
    <3> QED BY <3>1, <3>5, <3>6, <3>7
  <2>4. Len(hq) <= HostRing /\ DOMAIN eeprom = 0 .. hw_status_offset
    BY <2>1 DEF Types, HqTypes, StoreTypes, Cells
  <2>5. {shown, connected, port, stop} \subseteq BOOLEAN /\ editors \subseteq Editors
    BY <2>1, Zenon DEF Types
  <2> QED BY <2>1, <2>2, <2>3, <2>4, <2>5 DEF TypeOK, Types
<1> QED BY <1>1, Invariant, PTL

(* Whatever windows run handlers inside each other's, and whenever they    *)
(* are given up, the one callback of a Client and the one of a register    *)
(* are those of a handler that waits for such an answer, or none.          *)
THEOREM CallbackSafe == Spec => []CallbackAlive
<1>1. IInv => CallbackAlive
  BY DEF IInv
<1> QED BY <1>1, Invariant, PTL

(* With nothing on its way the board streams exactly when the window says  *)
(* so, unless the last Start or Stop was lost or refused.                  *)
THEOREM WindowAndBoardAgree == Spec => []AgreeWhenQuiet
<1>1. IInv => AgreeWhenQuiet
  <2> SUFFICES ASSUME IInv, hq = <<>>, ~missed PROVE stop = ~shown
    BY DEF AgreeWhenQuiet
  <2>1. Agreed /\ stop \in BOOLEAN /\ shown \in BOOLEAN
    BY DEF IInv, Agrees, Types
  <2>2. ~HasSwitch(hq)
    BY DEF HasSwitch
  <2>3. stop <=> ~shown
    BY <2>1, <2>2 DEF Agreed
  <2> QED BY ONLY <2>1, <2>3, Zenon
<1> QED BY <1>1, Invariant, PTL

(* Client and board go by one id, so that the board refuses nothing, until *)
(* the id is changed, a handshake fails or a packet is damaged.            *)
THEOREM RefusesNothing == Spec => []NothingRefused
<1>1. IInv => NothingRefused
  BY DEF IInv, OneId, SameId, NothingRefused
<1> QED BY <1>1, Invariant, PTL

(* A handler takes for the answer only what the board has held since it    *)
(* asked, if nothing of that kind was under way then.                      *)
THEOREM FreshAnswers == Spec => []AnswersFresh
<1>1. IInv => AnswersFresh
  <2> SUFFICES ASSUME IInv, NEW i \in DOMAIN ui, ui[i].got # <<>>, ui[i].clean
               PROVE  ui[i].got \in ui[i].seen
    BY DEF AnswersFresh
  <2>1. Witnesses(ui[i]) /\ Waited(ui[i])
    BY DEF IInv, Informed
  <2> QED BY <2>1 DEF Witnesses, Waited
<1> QED BY <1>1, Invariant, PTL

(* For areas of every size: what was last stored in one is what is read    *)
(* from it, unless a neighbour's configuration has reached into it.        *)
THEOREM StoreKept == Spec => []StoreIntact
<1>1. IInv => StoreIntact
  <2> SUFFICES ASSUME IInv PROVE StoreIntact
    OBVIOUS
  <2>1. Stores /\ StoreTypes
    BY DEF IInv, Types
  <2>2. ASSUME NEW k \in Areas \ spoilt
        PROVE  GetCfg(eeprom, k) = stored[k]
    <3>1. PICK s : s = stored[k]
      OBVIOUS
    <3>2. s \in Seq(Nat) /\ Len(s) <= MaxSize[k] /\ MaxSize[k] \in Nat
      BY <2>1, <3>1, Layout DEF StoreTypes, Stores
    <3>3. eeprom[Offset[k]] = Len(s) /\ \A n \in 1 .. Len(s) : eeprom[Offset[k] + n] = s[n]
      BY <2>1, <3>1 DEF Stores, Kept
    <3>4. GetCfg(eeprom, k) = [i \in 1 .. Len(s) |-> eeprom[Offset[k] + i]]
      <4>1. ~(eeprom[Offset[k]] > MaxSize[k])
        BY ONLY <3>2, <3>3
      <4> QED BY <3>3, <4>1 DEF GetCfg
    <3>5. [i \in 1 .. Len(s) |-> eeprom[Offset[k] + i]] = s
      BY ONLY <3>2, <3>3
    <3> QED BY <3>1, <3>4, <3>5
  <2> QED BY <2>1, <2>2 DEF StoreIntact, Stores, get_streaming_mode, get_hw_status
<1> QED BY <1>1, Invariant, PTL
=============================================================================
