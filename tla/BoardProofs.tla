---------------------------- MODULE BoardProofs ----------------------------
(***************************************************************************)
(* Proofs about Board for every set of configurations, page size, number   *)
(* of buffers and descriptors, and any number of commands and faults.      *)
(***************************************************************************)
EXTENDS Board, SequenceTheorems, WellFoundedInduction, TLAPS

Resources == [edma : BOOLEAN, handle : BOOLEAN, assigned : BOOLEAN, enc : 0 .. EncBufs,
              cap : 0 .. CapBufs, fds : BOOLEAN, links : BOOLEAN, queued : BOOLEAN, on : BOOLEAN]

(* Where main() is, in the order of a run(). *)
Waiting   == {"hold", "head", "rest", "enc", "catch", "default", "default_rest", "exited"}
Encoder   == {"load", "create", "check", "mem", "setparams", "cap", "end_encoder", "crashed"}
CameraUp  == {"links", "pipeline", "formats", "queue", "on"}
Streaming == {"md", "test", "frame", "gpio", "stream_off", "terminated"}
Places    == Waiting \union Encoder \union CameraUp \union Streaming \union {"close", "free"}

Types ==
  /\ pc \in Places
  /\ stop \in BOOLEAN /\ shutdown \in BOOLEAN /\ gpio \in BOOLEAN
  /\ size \in 0 .. EeLen + 1 /\ eeprom \in Seq(Lexemes) /\ Len(eeprom) = EeLen
  /\ upload \in Files \union {<<>>}
  /\ thrown \in {"no", "ex", "again"}
  /\ res \in Resources
  /\ lost \in 0 .. throws /\ throws \in 0 .. MaxThrows
  /\ maps \in 0 .. MaxFds /\ mdOk \in BOOLEAN
  /\ since \in -1 .. 1
  /\ fresh \in BOOLEAN /\ torn \in BOOLEAN

(* What the objects hold at each place, also on the way back. *)
Holdings ==
  /\ pc \in Waiting => ~res.handle /\ res.enc = 0 /\ (res.assigned => "rman" \in mishaps)
  /\ pc \in Waiting \union Encoder => res.cap = 0
  /\ pc \in Waiting \union Encoder \union {"free"} => ~res.fds /\ ~res.queued
  /\ res.on => pc \in Streaming
  /\ pc \in (CameraUp \ {"links"}) \union Streaming => res.links
  /\ pc \in CameraUp \union Streaming => res.cap = CapBufs /\ res.fds
  /\ pc = "close" /\ res.queued => res.cap = CapBufs /\ res.fds

(* What is left behind has its mishap. *)
Leftovers ==
  /\ pc \in Waiting /\ res.edma => {"edma", "rman"} \cap mishaps # {}
  /\ lost > 0 => "buffer" \in mishaps
  /\ mdOk => maps = 0
  /\ Free >= 0

(* A frame that follows Stop is the last one of this run(). *)
LastFrame ==
  /\ since >= 0 => stop
  /\ since = 1 => pc \in {"gpio", "test", "stream_off", "terminated", "close", "free", "end_encoder",
                          "catch", "default", "default_rest", "hold", "exited"}

(* Nothing but the input and a destructor ends the program. *)
Ending ==
  /\ shutdown => gpio
  /\ pc = "exited" => shutdown
  /\ pc = "terminated" => throws > 0

(* What is in the area while it is written in two pieces. *)
WrittenSoFar(f) ==
  /\ size = Len(f)
  /\ \A i \in 1 .. Len(f) : i <= Page => eeprom[i] = f[i]
Stored(f) == size = Len(f) /\ \A i \in 1 .. Len(f) : eeprom[i] = f[i]

Area ==
  /\ fresh => upload = <<>>
  /\ upload # <<>> /\ ~torn => WrittenSoFar(upload)
  /\ upload = <<>> /\ ~torn /\ pc = "default_rest" => WrittenSoFar(DefaultEncCfg)
  /\ upload = <<>> /\ ~torn /\ pc # "default_rest" /\ size <= EeLen => \E f \in Files : Stored(f)

(* What run() has read of it. *)
Reading ==
  fresh => /\ pc = "rest" => read = [want |-> size, got |-> SubSeq(eeprom, 1, Page)] /\ size \in Page + 1 .. EeLen
           /\ pc \in {"enc", "load"} /\ size <= EeLen => read = [want |-> size, got |-> SubSeq(eeprom, 1, size)]

IInv == Types /\ Holdings /\ Leftovers /\ LastFrame /\ Ending /\ Area /\ Reading
-----------------------------------------------------------------------------
(* break_links() touches nothing but the links. *)
LEMMA BrokenLinks ==
  ASSUME res \in Resources, NEW b \in BreakLinks(res)
  PROVE  /\ b \in Resources /\ b.edma = res.edma /\ b.handle = res.handle /\ b.assigned = res.assigned
         /\ b.enc = res.enc /\ b.cap = res.cap /\ b.fds = res.fds /\ b.queued = res.queued /\ b.on = res.on
BY DEF BreakLinks, Resources

(* Each step of the set-up keeps the invariant. *)
LEMMA SetUpKeeps ==
  ASSUME IInv,
         NewEnc \/ LoadParams \/ Create \/ CheckWarnings \/ MemInit \/ SetParams \/ NewCap \/ EnableLinks \/ InitPipeline \/ SetFormats
           \/ QueueBufs \/ StreamOn \/ InitMD
  PROVE  IInv'
<1> USE BoardAssumption DEF store, host, flags, leaks, input, history, Step, Acquire
<1>1. Types /\ Holdings /\ Leftovers /\ LastFrame /\ Ending /\ Area /\ Reading
  BY DEF IInv
<1>2. UNCHANGED <<store, upload, torn, fresh>> /\ pc \notin {"rest", "default_rest"} /\ pc' \notin {"rest", "default_rest", "enc"}
  BY DEF NewEnc, LoadParams, Create, CheckWarnings, MemInit, SetParams, NewCap, EnableLinks, InitPipeline, SetFormats, QueueBufs, StreamOn, InitMD
<1>3. Area'
  BY <1>1, <1>2 DEF Area, WrittenSoFar, Stored
<1>4. Reading'
  BY <1>1, <1>2 DEF Reading, NewEnc, LoadParams, Create, CheckWarnings, MemInit, SetParams, NewCap, EnableLinks, InitPipeline, SetFormats, QueueBufs, StreamOn, InitMD
<1>11. CASE NewEnc
  <2>1. Types'
    BY <1>1, <1>11 DEF NewEnc, Types, Places, Waiting, Encoder, CameraUp, Streaming, Resources
  <2>2. Holdings'
    BY <1>1, <1>11 DEF NewEnc, Types, Holdings, Waiting, Encoder, CameraUp, Streaming, Resources
  <2>3. Leftovers'
    BY <1>1, <1>11 DEF NewEnc, Types, Leftovers, Free, Waiting, Encoder, CameraUp, Streaming, Resources
  <2>4. LastFrame' /\ Ending'
    BY <1>1, <1>11 DEF NewEnc, LastFrame, Ending
  <2> QED
    BY <1>3, <1>4, <2>1, <2>2, <2>3, <2>4 DEF IInv
<1>12. CASE LoadParams
  <2>1. Types'
    BY <1>1, <1>12 DEF LoadParams, Types, Places, Waiting, Encoder, CameraUp, Streaming, Resources
  <2>2. Holdings'
    BY <1>1, <1>12 DEF LoadParams, Types, Holdings, Waiting, Encoder, CameraUp, Streaming, Resources
  <2>3. Leftovers'
    BY <1>1, <1>12 DEF LoadParams, Types, Leftovers, Free, Waiting, Encoder, CameraUp, Streaming, Resources
  <2>4. LastFrame' /\ Ending'
    BY <1>1, <1>12 DEF LoadParams, LastFrame, Ending
  <2> QED
    BY <1>3, <1>4, <2>1, <2>2, <2>3, <2>4 DEF IInv
<1>13. CASE Create
  <2>1. Types'
    BY <1>1, <1>13 DEF Create, Types, Places, Waiting, Encoder, CameraUp, Streaming, Resources
  <2>2. Holdings'
    BY <1>1, <1>13 DEF Create, Types, Holdings, Waiting, Encoder, CameraUp, Streaming, Resources
  <2>3. Leftovers'
    BY <1>1, <1>13 DEF Create, Types, Leftovers, Free, Waiting, Encoder, CameraUp, Streaming, Resources
  <2>4. LastFrame' /\ Ending'
    BY <1>1, <1>13 DEF Create, LastFrame, Ending
  <2> QED
    BY <1>3, <1>4, <2>1, <2>2, <2>3, <2>4 DEF IInv
<1>14. CASE MemInit
  <2>1. Types'
    <3>0. EncBufs \in 0 .. EncBufs /\ res' = [res EXCEPT !.enc = EncBufs] /\ res \in Resources
      BY <1>1, <1>14 DEF MemInit, Types
    <3>1. res' \in Resources
      BY <3>0 DEF Resources
    <3> QED
      BY <1>1, <1>14, <3>1 DEF MemInit, Types, Places, Encoder
  <2>2. Holdings'
    BY <1>1, <1>14 DEF MemInit, Types, Holdings, Waiting, Encoder, CameraUp, Streaming, Resources
  <2>3. Leftovers'
    <3>1. res'.enc = EncBufs /\ res'.cap = res.cap /\ res'.links = res.links /\ res.enc \in Nat /\ res.cap \in Nat
      BY <1>1, <1>14 DEF MemInit, Types, Resources
    <3>2. Free >= EncBufs /\ UNCHANGED <<lost, maps, mishaps, mdOk>> /\ lost \in Nat /\ pc = "mem" /\ pc' = "setparams"
      BY <1>1, <1>14 DEF MemInit, Types
    <3>3. Free' >= 0
      BY <3>1, <3>2, SMTT(20) DEF Free
    <3> QED
      BY <1>1, <3>1, <3>2, <3>3 DEF Leftovers, Waiting, CameraUp, Streaming
  <2>4. LastFrame' /\ Ending'
    BY <1>1, <1>14 DEF MemInit, LastFrame, Ending
  <2> QED
    BY <1>3, <1>4, <2>1, <2>2, <2>3, <2>4 DEF IInv
<1>15. CASE SetParams
  <2>1. Types'
    BY <1>1, <1>15 DEF SetParams, Types, Places, Waiting, Encoder, CameraUp, Streaming, Resources
  <2>2. Holdings'
    BY <1>1, <1>15 DEF SetParams, Types, Holdings, Waiting, Encoder, CameraUp, Streaming, Resources
  <2>3. Leftovers'
    BY <1>1, <1>15 DEF SetParams, Types, Leftovers, Free, Waiting, Encoder, CameraUp, Streaming, Resources
  <2>4. LastFrame' /\ Ending'
    BY <1>1, <1>15 DEF SetParams, LastFrame, Ending
  <2> QED
    BY <1>3, <1>4, <2>1, <2>2, <2>3, <2>4 DEF IInv
<1>16. CASE NewCap
  <2>0. PICK b \in BreakLinks(res) : Acquire("cap", "links", [b EXCEPT !.fds = TRUE, !.cap = CapBufs])
    BY <1>16 DEF NewCap
  <2>a. /\ res' = [b EXCEPT !.fds = TRUE, !.cap = CapBufs]
        /\ pc = "cap" /\ pc' = "links"
        /\ UNCHANGED <<flags, store, host, thrown, lost, mishaps, maps, mdOk, throws, since, fresh, torn>>
    BY <2>0
  <2>b. Free >= CapBufs
    BY <1>16 DEF NewCap
  <2> HIDE DEF Acquire, Step
  <2>d. res \in Resources /\ CapBufs \in 0 .. CapBufs
    BY <1>1 DEF Types
  <2>c. /\ res' \in Resources /\ res'.cap = CapBufs /\ res'.fds /\ res'.enc = res.enc
        /\ res'.on = res.on /\ res'.queued = res.queued
        /\ res.enc \in Nat /\ res.cap \in Nat /\ lost \in Nat
    <3>1. b \in Resources /\ b.enc = res.enc /\ b.on = res.on /\ b.queued = res.queued
      BY <2>d, BrokenLinks
    <3>2. res.enc \in Nat /\ res.cap \in Nat /\ lost \in Nat
      BY <1>1 DEF Types, Resources
    <3> QED
      BY <2>a, <2>d, <3>1, <3>2 DEF Resources
  <2>1. Types'
    BY <1>1, <2>a, <2>c DEF Types, Places, CameraUp
  <2>2. Holdings'
    BY <1>1, <2>a, <2>c DEF Holdings, Waiting, Encoder, CameraUp, Streaming
  <2>3. Leftovers'
    <3>1. Free' >= 0
      <4>1. res'.enc = res.enc /\ res'.cap = CapBufs /\ lost' = lost
        BY <2>a, <2>c
      <4>2. res.enc \in Nat /\ res.cap \in Nat /\ lost \in Nat
        BY <2>c
      <4> QED
        BY <4>1, <4>2, <2>b DEF Free
    <3> QED
      BY <1>1, <2>a, <2>c, <3>1 DEF Leftovers, Waiting, CameraUp, Streaming
  <2>4. LastFrame' /\ Ending'
    BY <1>1, <2>a DEF LastFrame, Ending
  <2> QED
    BY <1>3, <1>4, <2>1, <2>2, <2>3, <2>4 DEF IInv
<1>17. CASE EnableLinks
  <2>1. Types'
    BY <1>1, <1>17 DEF EnableLinks, Types, Places, Waiting, Encoder, CameraUp, Streaming, Resources
  <2>2. Holdings'
    BY <1>1, <1>17 DEF EnableLinks, Types, Holdings, Waiting, Encoder, CameraUp, Streaming, Resources
  <2>3. Leftovers'
    BY <1>1, <1>17 DEF EnableLinks, Types, Leftovers, Free, Waiting, Encoder, CameraUp, Streaming, Resources
  <2>4. LastFrame' /\ Ending'
    BY <1>1, <1>17 DEF EnableLinks, LastFrame, Ending
  <2> QED
    BY <1>3, <1>4, <2>1, <2>2, <2>3, <2>4 DEF IInv
<1>18. CASE SetFormats
  <2>1. Types'
    BY <1>1, <1>18 DEF SetFormats, Types, Places, Waiting, Encoder, CameraUp, Streaming, Resources
  <2>2. Holdings'
    BY <1>1, <1>18 DEF SetFormats, Types, Holdings, Waiting, Encoder, CameraUp, Streaming, Resources
  <2>3. Leftovers'
    BY <1>1, <1>18 DEF SetFormats, Types, Leftovers, Free, Waiting, Encoder, CameraUp, Streaming, Resources
  <2>4. LastFrame' /\ Ending'
    BY <1>1, <1>18 DEF SetFormats, LastFrame, Ending
  <2> QED
    BY <1>3, <1>4, <2>1, <2>2, <2>3, <2>4 DEF IInv
<1>19. CASE QueueBufs
  <2>1. Types'
    BY <1>1, <1>19 DEF QueueBufs, Types, Places, Waiting, Encoder, CameraUp, Streaming, Resources
  <2>2. Holdings'
    BY <1>1, <1>19 DEF QueueBufs, Types, Holdings, Waiting, Encoder, CameraUp, Streaming, Resources
  <2>3. Leftovers'
    BY <1>1, <1>19 DEF QueueBufs, Types, Leftovers, Free, Waiting, Encoder, CameraUp, Streaming, Resources
  <2>4. LastFrame' /\ Ending'
    BY <1>1, <1>19 DEF QueueBufs, LastFrame, Ending
  <2> QED
    BY <1>3, <1>4, <2>1, <2>2, <2>3, <2>4 DEF IInv
<1>20. CASE StreamOn
  <2>1. Types'
    BY <1>1, <1>20 DEF StreamOn, Types, Places, Waiting, Encoder, CameraUp, Streaming, Resources
  <2>2. Holdings'
    BY <1>1, <1>20 DEF StreamOn, Types, Holdings, Waiting, Encoder, CameraUp, Streaming, Resources
  <2>3. Leftovers'
    BY <1>1, <1>20 DEF StreamOn, Types, Leftovers, Free, Waiting, Encoder, CameraUp, Streaming, Resources
  <2>4. LastFrame' /\ Ending'
    BY <1>1, <1>20 DEF StreamOn, LastFrame, Ending
  <2> QED
    BY <1>3, <1>4, <2>1, <2>2, <2>3, <2>4 DEF IInv
<1>21. CASE InitMD
  <2>1. Types'
    BY <1>1, <1>21 DEF InitMD, Types, Places, Waiting, Encoder, CameraUp, Streaming, Resources
  <2>2. Holdings'
    BY <1>1, <1>21 DEF InitMD, Types, Holdings, Waiting, Encoder, CameraUp, Streaming, Resources
  <2>3. Leftovers'
    BY <1>1, <1>21 DEF InitMD, Types, Leftovers, Free, Waiting, Encoder, CameraUp, Streaming, Resources
  <2>4. LastFrame' /\ Ending'
    BY <1>1, <1>21 DEF InitMD, LastFrame, Ending
  <2> QED
    BY <1>3, <1>4, <2>1, <2>2, <2>3, <2>4 DEF IInv
<1>22. CASE CheckWarnings
  <2>1. Types'
    BY <1>1, <1>22 DEF CheckWarnings, Types, Places, Waiting, Encoder, CameraUp, Streaming, Resources
  <2>2. Holdings'
    BY <1>1, <1>22 DEF CheckWarnings, Types, Holdings, Waiting, Encoder, CameraUp, Streaming, Resources
  <2>3. Leftovers'
    BY <1>1, <1>22 DEF CheckWarnings, Types, Leftovers, Free, Waiting, Encoder, CameraUp, Streaming, Resources
  <2>4. LastFrame' /\ Ending'
    BY <1>1, <1>22 DEF CheckWarnings, LastFrame, Ending
  <2> QED
    BY <1>3, <1>4, <2>1, <2>2, <2>3, <2>4 DEF IInv
<1>23. CASE InitPipeline
  <2>1. Types'
    BY <1>1, <1>23 DEF InitPipeline, Types, Places, Waiting, Encoder, CameraUp, Streaming, Resources
  <2>2. Holdings'
    BY <1>1, <1>23 DEF InitPipeline, Types, Holdings, Waiting, Encoder, CameraUp, Streaming, Resources
  <2>3. Leftovers'
    BY <1>1, <1>23 DEF InitPipeline, Types, Leftovers, Free, Waiting, Encoder, CameraUp, Streaming, Resources
  <2>4. LastFrame' /\ Ending'
    BY <1>1, <1>23 DEF InitPipeline, LastFrame, Ending
  <2> QED
    BY <1>3, <1>4, <2>1, <2>2, <2>3, <2>4 DEF IInv
<1> QED
  BY <1>11, <1>12, <1>13, <1>14, <1>15, <1>16, <1>17, <1>18, <1>19, <1>20, <1>21, <1>22, <1>23
-----------------------------------------------------------------------------
(* A piece of the area is written over, the rest stays as it is. *)
LEMMA OverlayWrites ==
  ASSUME NEW S, NEW new \in Seq(S), NEW old \in Seq(S), Len(new) <= Len(old)
  PROVE  /\ Overlay(new, old) \in Seq(S)
         /\ Len(Overlay(new, old)) = Len(old)
         /\ \A i \in 1 .. Len(old) : Overlay(new, old)[i] = IF i <= Len(new) THEN new[i] ELSE old[i]
BY DEF Overlay

LEMMA WriteHeadWrites ==
  ASSUME Types, NEW f \in Files, WriteHead(f)
  PROVE  /\ size' = Len(f) /\ size' \in 0 .. EeLen
         /\ eeprom' \in Seq(Lexemes) /\ Len(eeprom') = EeLen
         /\ \A i \in 1 .. EeLen : eeprom'[i] = IF i <= Len(f) /\ i <= Page THEN f[i] ELSE eeprom[i]
<1> DEFINE n == IF Len(f) < Page THEN Len(f) ELSE Page
           head == SubSeq(f, 1, n)
<1>1. f \in Seq(Lexemes) /\ Len(f) \in 0 .. EeLen /\ Page \in 1 .. EeLen /\ EeLen \in Nat
  BY BoardAssumption
<1>2. head \in Seq(Lexemes) /\ Len(head) = n /\ n <= EeLen /\ \A i \in 1 .. n : head[i] = f[i]
  BY <1>1
<1>3. eeprom \in Seq(Lexemes) /\ Len(eeprom) = EeLen /\ eeprom' = Overlay(head, eeprom) /\ size' = Len(f)
  BY DEF Types, WriteHead
<1> HIDE DEF head, n
<1>4. /\ eeprom' \in Seq(Lexemes) /\ Len(eeprom') = EeLen
      /\ \A i \in 1 .. EeLen : eeprom'[i] = IF i <= n THEN head[i] ELSE eeprom[i]
  <2>1. Len(head) <= Len(eeprom)
    BY <1>2, <1>3
  <2> QED
    BY <1>2, <1>3, <2>1, OverlayWrites
<1>5. ASSUME NEW i \in 1 .. EeLen
      PROVE  i <= n <=> i <= Len(f) /\ i <= Page
  BY <1>1 DEF n
<1>6. ASSUME NEW i \in 1 .. EeLen
      PROVE  eeprom'[i] = IF i <= Len(f) /\ i <= Page THEN f[i] ELSE eeprom[i]
  <2>1. eeprom'[i] = IF i <= n THEN head[i] ELSE eeprom[i]
    BY <1>4
  <2>2. i <= n => head[i] = f[i]
    BY <1>1, <1>2 DEF n
  <2> QED
    BY <1>5, <2>1, <2>2
<1> QED
  BY <1>1, <1>3, <1>4, <1>6

LEMMA WriteRestWrites ==
  ASSUME Types, NEW f \in Files, WriteRest(f)
  PROVE  /\ size' = size
         /\ eeprom' \in Seq(Lexemes) /\ Len(eeprom') = EeLen
         /\ \A i \in 1 .. EeLen : eeprom'[i] = IF i <= Len(f) /\ Page < i THEN f[i] ELSE eeprom[i]
<1> DEFINE rest == SubSeq(f, Page + 1, Len(f))
           tail == SubSeq(eeprom, Page + 1, EeLen)
           new  == Overlay(rest, tail)
<1>1. f \in Seq(Lexemes) /\ Len(f) \in 0 .. EeLen /\ Page \in 1 .. EeLen /\ EeLen \in Nat
  BY BoardAssumption
<1>2. /\ eeprom \in Seq(Lexemes) /\ Len(eeprom) = EeLen
      /\ eeprom' = SubSeq(eeprom, 1, Page) \o new /\ size' = size
  BY DEF Types, WriteRest
<1>3. /\ rest \in Seq(Lexemes) /\ Len(rest) = IF Page < Len(f) THEN Len(f) - Page ELSE 0
      /\ \A i \in 1 .. Len(rest) : rest[i] = f[Page + i]
  BY <1>1
<1>4. /\ tail \in Seq(Lexemes) /\ Len(tail) = EeLen - Page
      /\ \A i \in 1 .. EeLen - Page : tail[i] = eeprom[Page + i]
  <2>1. Page + 1 \in 1 .. Len(eeprom) + 1 /\ EeLen \in Page .. Len(eeprom)
    BY <1>1, <1>2
  <2>2. tail \in Seq(Lexemes)
    BY <1>1, <1>2, <2>1
  <2>3. Len(tail) = EeLen - Page
    BY <1>1, <1>2, <2>1
  <2>4. \A i \in 1 .. EeLen - Page : tail[i] = eeprom[Page + i]
    BY <1>1, <1>2, <2>1
  <2> QED
    BY <2>2, <2>3, <2>4
<1> HIDE DEF rest, tail
<1>5. /\ new \in Seq(Lexemes) /\ Len(new) = EeLen - Page
      /\ \A i \in 1 .. EeLen - Page : new[i] = IF i <= Len(rest) THEN rest[i] ELSE tail[i]
  <2>1. Len(rest) <= Len(tail)
    BY <1>1, <1>3, <1>4
  <2>2. /\ new \in Seq(Lexemes) /\ Len(new) = Len(tail)
        /\ \A i \in 1 .. Len(tail) : new[i] = IF i <= Len(rest) THEN rest[i] ELSE tail[i]
    BY <1>3, <1>4, <2>1, OverlayWrites
  <2> QED
    BY <1>4, <2>2
<1> HIDE DEF new
<1>6. /\ SubSeq(eeprom, 1, Page) \in Seq(Lexemes) /\ Len(SubSeq(eeprom, 1, Page)) = Page
      /\ \A i \in 1 .. Page : SubSeq(eeprom, 1, Page)[i] = eeprom[i]
  BY <1>1, <1>2
<1>7. eeprom' \in Seq(Lexemes) /\ Len(eeprom') = EeLen
  BY <1>1, <1>2, <1>5, <1>6
<1>8. ASSUME NEW i \in 1 .. EeLen
      PROVE  eeprom'[i] = IF i <= Len(f) /\ Page < i THEN f[i] ELSE eeprom[i]
  <2>1. CASE i <= Page
    BY <1>1, <1>2, <1>5, <1>6, <2>1
  <2>2. CASE Page < i
    <3>1. i - Page \in 1 .. EeLen - Page /\ eeprom'[i] = new[i - Page]
      BY <1>1, <1>2, <1>5, <1>6, <2>2
    <3>2. Page + (i - Page) = i
      BY <1>1
    <3> QED
      BY <1>1, <1>3, <1>4, <1>5, <2>2, <3>1, <3>2
  <2> QED
    BY <1>1, <2>1, <2>2
<1> QED
  BY <1>2, <1>7, <1>8

(* Two pieces of a configuration are the whole. *)
LEMMA TwoPieces ==
  ASSUME NEW S, NEW s \in Seq(S), NEW m \in Nat, NEW n \in Nat, m <= n, n <= Len(s)
  PROVE  SubSeq(s, 1, m) \o SubSeq(s, m + 1, n) = SubSeq(s, 1, n)
OBVIOUS

-----------------------------------------------------------------------------
(* Each step of the frame loop keeps the invariant. *)
LEMMA LoopKeeps ==
  ASSUME IInv, Test \/ Frame \/ Gpio
  PROVE  IInv'
<1> USE BoardAssumption DEF store, host, flags, leaks, input, history
<1>1. Types /\ Holdings /\ Leftovers /\ LastFrame /\ Ending /\ Area /\ Reading
  BY DEF IInv
<1>2. /\ UNCHANGED <<store, upload, torn, fresh>>
      /\ pc # "default_rest" /\ pc' \notin {"rest", "default_rest", "enc", "load"}
  BY DEF Test, Frame, Gpio
<1>3. Area'
  BY <1>1, <1>2 DEF Area, WrittenSoFar, Stored
<1>4. Reading'
  BY <1>2 DEF Reading
<1>11. CASE Test
  <2>0. /\ pc = "test" /\ (stop => pc' = "stream_off") /\ pc' \in {"frame", "stream_off"}
        /\ UNCHANGED <<flags, store, host, input, thrown, res, leaks, mdOk, throws, since, history>>
    BY <1>11 DEF Test
  <2>1. Types'
    BY <1>1, <2>0 DEF Types, Places, Streaming
  <2>2. Holdings'
    BY <1>1, <2>0 DEF Holdings, Waiting, Encoder, CameraUp, Streaming
  <2>3. Leftovers'
    BY <1>1, <2>0 DEF Leftovers, Free, Waiting, CameraUp, Streaming
  <2>4. LastFrame' /\ Ending'
    BY <1>1, <2>0 DEF Types, LastFrame, Ending
  <2> QED
    BY <1>3, <1>4, <2>1, <2>2, <2>3, <2>4 DEF IInv
<1>12. CASE Frame
  <2>1. Types'
    BY <1>1, <1>12 DEF Frame, Types, LastFrame, Places, Waiting, Encoder, CameraUp, Streaming, Resources
  <2>2. Holdings'
    BY <1>1, <1>12 DEF Frame, Types, Holdings, Waiting, Encoder, CameraUp, Streaming, Resources
  <2>3. Leftovers'
    BY <1>1, <1>12 DEF Frame, Types, Leftovers, Free, Waiting, Encoder, CameraUp, Streaming, Resources
  <2>4. LastFrame' /\ Ending'
    BY <1>1, <1>12 DEF Frame, Types, LastFrame, Ending
  <2> QED
    BY <1>3, <1>4, <2>1, <2>2, <2>3, <2>4 DEF IInv
<1>13. CASE Gpio
  <2>1. Types'
    BY <1>1, <1>13 DEF Gpio, Types, Places, Waiting, Encoder, CameraUp, Streaming, Resources
  <2>2. Holdings'
    BY <1>1, <1>13 DEF Gpio, Types, Holdings, Waiting, Encoder, CameraUp, Streaming, Resources
  <2>3. Leftovers'
    BY <1>1, <1>13 DEF Gpio, Types, Leftovers, Free, Waiting, Encoder, CameraUp, Streaming, Resources
  <2>4. LastFrame' /\ Ending'
    BY <1>1, <1>13 DEF Gpio, Types, LastFrame, Ending
  <2> QED
    BY <1>3, <1>4, <2>1, <2>2, <2>3, <2>4 DEF IInv
<1> QED
  BY <1>11, <1>12, <1>13
-----------------------------------------------------------------------------
(* What the objects may hold when a step throws. *)
PartialFits(r) ==
  /\ r \in Resources /\ r.on = res.on
  /\ r.enc - res.enc + r.cap - res.cap <= Free
  /\ pc \in {"enc", "create", "check", "mem", "setparams"} => r.cap = 0 /\ ~r.fds
  /\ pc \in {"enc", "create", "check", "mem", "setparams", "cap"} => ~r.queued
  /\ pc = "enc" => ~r.handle /\ r.enc = 0 /\ (r.assigned => "rman" \in mishaps)
  /\ pc \in {"links", "pipeline", "formats", "queue", "on", "md", "frame"} => r.cap = CapBufs /\ r.fds
  /\ pc \in {"on", "md", "frame"} => r.links

LEMMA ResFits ==
  ASSUME Types, Holdings, Leftovers, pc \in Faulty
  PROVE  PartialFits(res)
<1>1. res \in Resources /\ res.enc - res.enc + res.cap - res.cap <= Free
  BY BoardAssumption DEF Types, Leftovers, Free, Resources
<1>2. /\ pc \in {"enc", "create", "check", "mem", "setparams"} => res.cap = 0 /\ ~res.fds
      /\ pc \in {"enc", "create", "check", "mem", "setparams", "cap"} => ~res.queued
      /\ pc = "enc" => ~res.handle /\ res.enc = 0 /\ (res.assigned => "rman" \in mishaps)
      /\ pc \in {"links", "pipeline", "formats", "queue", "on", "md", "frame"} => res.cap = CapBufs /\ res.fds
      /\ pc \in {"on", "md", "frame"} => res.links
  BY DEF Holdings, Faulty, Waiting, Encoder, CameraUp, Streaming
<1> QED
  BY <1>1, <1>2 DEF PartialFits

LEMMA PartialHolds ==
  ASSUME Types, Holdings, Leftovers, pc \in Faulty, NEW r \in Partial(pc)
  PROVE  PartialFits(r)
<1> USE BoardAssumption
<1>1. /\ res \in Resources /\ Free \in Int /\ Free >= 0
      /\ res.enc \in 0 .. EncBufs /\ res.cap \in 0 .. CapBufs
  BY DEF Types, Leftovers, Free, Resources
<1>2. PartialFits(res)
  BY ResFits
<1>3. CASE pc = "enc"
  <2>1. r = res \/ r = [res EXCEPT !.edma = TRUE]
    BY <1>3 DEF Partial, EncPartial
  <2>2. PartialFits([res EXCEPT !.edma = TRUE])
    BY <1>1, <1>2, <1>3 DEF PartialFits, Resources
  <2> QED
    BY <1>2, <2>1, <2>2
<1>4. CASE pc = "create"
  <2>1. r = res \/ r = [res EXCEPT !.handle = TRUE] \/ r = [res EXCEPT !.handle = TRUE, !.assigned = TRUE]
    BY <1>4 DEF Partial, EncPartial
  <2>2. PartialFits([res EXCEPT !.handle = TRUE])
    BY <1>1, <1>2, <1>4 DEF PartialFits, Resources
  <2>3. PartialFits([res EXCEPT !.handle = TRUE, !.assigned = TRUE])
    BY <1>1, <1>2, <1>4 DEF PartialFits, Resources
  <2> QED
    BY <1>2, <2>1, <2>2, <2>3
<1>5. CASE pc = "mem"
  <2>1. PICK n \in 0 .. EncBufs : r = [res EXCEPT !.enc = n] /\ n <= Free
    BY <1>5 DEF Partial, EncPartial
  <2>2. r \in Resources /\ r.enc = n /\ r.cap = res.cap
    BY <1>1, <2>1 DEF Resources
  <2>3. r.enc - res.enc + r.cap - res.cap <= Free
    BY <1>1, <2>1, <2>2
  <2> QED
    BY <1>1, <1>2, <1>5, <2>1, <2>2, <2>3 DEF PartialFits, Resources
<1>6. CASE pc = "cap"
  <2>1. r = res \/ \E b \in BreakLinks(res), n \in 0 .. CapBufs : r = [b EXCEPT !.cap = n, !.fds = TRUE] /\ n <= Free
    <3>1. Partial(pc) = {res} \union UNION {CapHeld(b) : b \in BreakLinks(res)}
      BY <1>6 DEF Partial, CapPartial
    <3>2. r = res \/ \E b \in BreakLinks(res) : r \in CapHeld(b)
      BY <3>1
    <3>3. ASSUME NEW b \in BreakLinks(res), r \in CapHeld(b)
          PROVE  \E n \in 0 .. CapBufs : r = [b EXCEPT !.cap = n, !.fds = TRUE] /\ n <= Free
      BY <3>3 DEF CapHeld
    <3> QED
      BY <3>2, <3>3
  <2>2. ASSUME NEW b \in BreakLinks(res), NEW n \in 0 .. CapBufs, r = [b EXCEPT !.cap = n, !.fds = TRUE], n <= Free
        PROVE  PartialFits(r)
    <3>0. b \in Resources /\ b.enc = res.enc /\ b.on = res.on /\ b.queued = res.queued
      BY <1>1, BrokenLinks
    <3>1. r \in Resources /\ r.cap = n /\ r.enc = res.enc /\ r.on = res.on /\ r.queued = res.queued
      BY <2>2, <3>0 DEF Resources
    <3>2. r.enc - res.enc + r.cap - res.cap <= Free
      BY <1>1, <2>2, <3>1
    <3> QED
      BY <1>1, <1>2, <1>6, <3>1, <3>2 DEF PartialFits
  <2> QED
    BY <1>2, <2>1, <2>2
<1>8. CASE pc = "queue"
  <2>1. r = res \/ r = [res EXCEPT !.queued = TRUE]
    BY <1>8 DEF Partial, CapPartial
  <2>2. PartialFits([res EXCEPT !.queued = TRUE])
    BY <1>1, <1>2, <1>8 DEF PartialFits, Resources
  <2> QED
    BY <1>2, <2>1, <2>2
<1>9. CASE pc \in {"check", "setparams", "links", "pipeline", "formats", "on", "md", "frame"}
  <2>1. CASE pc \in {"check", "setparams"}
    BY <1>2, <2>1 DEF Partial, EncPartial
  <2>2. CASE pc \in {"links", "pipeline", "formats", "on", "md", "frame"}
    <3>1. pc \notin {"enc", "create", "check", "mem", "setparams"} /\ pc # "cap" /\ pc # "queue"
      BY <2>2
    <3> QED
      BY <1>2, <3>1 DEF Partial, CapPartial
  <2> QED
    BY <1>9, <2>1, <2>2
<1> QED
  BY <1>3, <1>4, <1>5, <1>6, <1>8, <1>9 DEF Faulty

(* An exception, wherever it comes from, keeps the invariant. *)
LEMMA RaiseKeeps ==
  ASSUME IInv, pc \in Faulty, NEW e \in {"ex", "again"}, NEW r, PartialFits(r), NEW n \in 0 .. 1,
         n > 0 => MayLose(pc, r), throws' \in 0 .. MaxThrows, throws' >= throws + n,
         Raise(pc, e, r, n)
  PROVE  IInv'
<1> USE BoardAssumption DEF store, host, flags, leaks, input, history
<1>1. Types /\ Holdings /\ Leftovers /\ LastFrame /\ Ending /\ Area /\ Reading
  BY DEF IInv
<1>2. PartialFits(r)
  OBVIOUS
<1>3. /\ thrown' = e /\ res' = r /\ lost' = lost + n
      /\ UNCHANGED <<stop, shutdown, gpio, size, eeprom, upload, read, maps, mdOk, since, fresh, torn>>
  BY DEF Raise
<1>4. /\ pc = "enc" => pc' = "catch"
      /\ pc \in {"create", "check", "mem", "setparams"} => pc' = "end_encoder"
      /\ pc \in {"cap", "links", "pipeline", "formats", "queue"} => pc' = "close"
      /\ pc \in {"on", "md", "frame"} => pc' = "stream_off"
  BY DEF Raise, UnwindFrom
<1>5. /\ mishaps \subseteq mishaps'
      /\ r.edma /\ pc = "enc" => "edma" \in mishaps'
      /\ n > 0 => "buffer" \in mishaps'
  BY DEF Raise
<1>6. Types'
  BY <1>1, <1>2, <1>3, <1>4 DEF Types, PartialFits, Faulty, Places, Waiting, Encoder, Streaming
<1>7. Holdings'
  BY <1>1, <1>2, <1>3, <1>4, <1>5 DEF Holdings, PartialFits, Faulty, Waiting, Encoder, CameraUp, Streaming
<1>8. Leftovers'
  <2>1. Free' = Free - (r.enc - res.enc + r.cap - res.cap) - n
    <3>1. /\ r.enc \in Int /\ r.cap \in Int /\ res.enc \in Int /\ res.cap \in Int /\ lost \in Int
          /\ res' = r /\ lost' = lost + n
      BY <1>1, <1>2, <1>3 DEF Types, PartialFits, Resources
    <3>2. Free' = EncBufs + CapBufs + Spare - r.enc - r.cap - (lost + n)
      BY <3>1 DEF Free
    <3>3. Free = EncBufs + CapBufs + Spare - res.enc - res.cap - lost
      BY DEF Free
    <3>4. EncBufs + CapBufs + Spare - r.enc - r.cap - (lost + n)
            = (EncBufs + CapBufs + Spare - res.enc - res.cap - lost) - (r.enc - res.enc + r.cap - res.cap) - n
      <4>1. r.enc \in Int /\ r.cap \in Int /\ res.enc \in Int /\ res.cap \in Int /\ lost \in Int
        BY <3>1
      <4>2. n \in Int /\ EncBufs \in Int /\ CapBufs \in Int /\ Spare \in Int
        OBVIOUS
      <4> QED
        BY ONLY <4>1, <4>2
    <3> QED
      BY <3>2, <3>3, <3>4
  <2>2. n = 0 \/ r.enc - res.enc + r.cap - res.cap < Free
    BY DEF MayLose
  <2>3. Free \in Int /\ r.enc - res.enc + r.cap - res.cap \in Int /\ lost \in Nat
    BY <1>1, <1>2, SMTT(30) DEF Free, Types, PartialFits, Resources
  <2>4. Free' >= 0
    BY <1>2, <2>1, <2>2, <2>3 DEF PartialFits
  <2>5. lost' > 0 => "buffer" \in mishaps'
    BY <1>1, <1>3, <1>5, <2>3 DEF Leftovers
  <2>7. pc' \in Waiting /\ r.edma => {"edma", "rman"} \cap mishaps' # {}
    BY <1>4, <1>5 DEF Faulty, Waiting
  <2> QED
    BY <1>1, <1>3, <2>4, <2>5, <2>7 DEF Leftovers
<1>9. LastFrame' /\ Ending'
  BY <1>1, <1>3, <1>4 DEF LastFrame, Ending, Faulty, Types
<1>10. Area' /\ Reading'
  BY <1>1, <1>3, <1>4 DEF Area, Reading, WrittenSoFar, Stored, Faulty
<1> QED
  BY <1>6, <1>7, <1>8, <1>9, <1>10 DEF IInv

LEMMA FaultKeeps ==
  ASSUME IInv, Throw \/ OutOf
  PROVE  IInv'
<1>1. CASE Throw
  <2>1. PICK r \in Partial(pc), n \in 0 .. 1 :
          (n > 0 => MayLose(pc, r)) /\ Raise(pc, IF pc = "setparams" THEN "again" ELSE "ex", r, n)
    BY <1>1 DEF Throw
  <2>2. throws' = throws + 1 /\ throws < MaxThrows /\ throws \in 0 .. MaxThrows /\ pc \in Faulty
    BY <1>1 DEF Throw, IInv, Types
  <2>3. throws' \in 0 .. MaxThrows /\ throws' >= throws + n
    BY <2>2, BoardAssumption
  <2>4. PartialFits(r)
    BY <2>2, PartialHolds DEF IInv
  <2> QED
    BY <2>1, <2>2, <2>3, <2>4, RaiseKeeps
<1>2. CASE OutOf
  <2>1. pc \in {"mem", "cap"} /\ Raise(pc, "ex", res, 0) /\ throws' = throws
    BY <1>2 DEF OutOf
  <2>2. throws' \in 0 .. MaxThrows /\ throws' >= throws + 0 /\ pc \in Faulty
    BY <2>1 DEF IInv, Types, Faulty
  <2>3. PartialFits(res)
    BY <2>2, ResFits DEF IInv
  <2> QED
    BY <2>1, <2>2, <2>3, RaiseKeeps
<1> QED
  BY <1>1, <1>2
-----------------------------------------------------------------------------
(* Each step of the unwinding keeps the invariant. *)
LEMMA UnwindKeeps ==
  ASSUME IInv, StreamOff \/ Terminate \/ CloseFds \/ FreeBufs \/ EndEncoder \/ RmanKeeps \/ Catch
  PROVE  IInv'
<1> USE BoardAssumption DEF Release, store, host, flags, leaks, input, history
<1>1. Types /\ Holdings /\ Leftovers /\ LastFrame /\ Ending /\ Area /\ Reading
  BY DEF IInv
<1>2. /\ UNCHANGED <<store, upload, torn, fresh>>
      /\ pc # "default_rest" /\ pc' \notin {"rest", "default_rest", "enc", "load"}
  BY DEF StreamOff, Terminate, CloseFds, FreeBufs, EndEncoder, RmanKeeps, DeleteEnc, Catch
<1>3. Area'
  BY <1>1, <1>2 DEF Area, WrittenSoFar, Stored
<1>4. Reading'
  BY <1>2 DEF Reading
<1>11. CASE StreamOff
  <2>0. PICK b \in BreakLinks(res) : Release("stream_off", "close", [b EXCEPT !.on = FALSE, !.queued = FALSE])
    BY <1>11 DEF StreamOff
  <2>a. b \in Resources /\ b.enc = res.enc /\ b.cap = res.cap /\ b.fds = res.fds /\ b.edma = res.edma
    BY <1>1, BrokenLinks DEF Types
  <2>b. /\ pc = "stream_off" /\ pc' = "close" /\ res' = [b EXCEPT !.on = FALSE, !.queued = FALSE]
        /\ UNCHANGED <<flags, store, host, input, thrown, leaks, mdOk, throws, since, history>>
    BY <2>0
  <2>c. /\ res' \in Resources /\ res'.enc = res.enc /\ res'.cap = res.cap /\ res'.fds = res.fds
        /\ ~res'.on /\ ~res'.queued
    BY <2>a, <2>b DEF Resources
  <2>1. Types'
    BY <1>1, <2>b, <2>c DEF Types, Places
  <2>2. Holdings'
    BY <1>1, <2>b, <2>c DEF Types, Holdings, Waiting, Encoder, CameraUp, Streaming, Resources
  <2>3. Leftovers'
    BY <1>1, <2>b, <2>c DEF Types, Leftovers, Free, Waiting
  <2>4. LastFrame' /\ Ending'
    BY <1>1, <2>b DEF Types, LastFrame, Ending
  <2> QED
    BY <1>3, <1>4, <2>1, <2>2, <2>3, <2>4 DEF IInv
<1>12. CASE Terminate
  <2>1. Types'
    BY <1>1, <1>12 DEF Terminate, Types, Places, Waiting, Encoder, CameraUp, Streaming, Resources
  <2>2. Holdings'
    BY <1>1, <1>12 DEF Terminate, Types, Holdings, Waiting, Encoder, CameraUp, Streaming, Resources
  <2>3. Leftovers'
    BY <1>1, <1>12 DEF Terminate, Types, Holdings, Leftovers, Free, Waiting, Encoder, CameraUp, Streaming, Resources
  <2>4. LastFrame' /\ Ending'
    BY <1>1, <1>12 DEF Terminate, Types, LastFrame, Ending
  <2> QED
    BY <1>3, <1>4, <2>1, <2>2, <2>3, <2>4 DEF IInv
<1>13. CASE CloseFds
  <2>1. Types'
    BY <1>1, <1>13, ZenonT(40) DEF CloseFds, Types, Places, Waiting, Encoder, CameraUp, Streaming, Resources
  <2>2. Holdings'
    BY <1>1, <1>13 DEF CloseFds, Types, Holdings, Waiting, Encoder, CameraUp, Streaming, Resources
  <2>3. Leftovers'
    BY <1>1, <1>13 DEF CloseFds, Types, Holdings, Leftovers, Free, Waiting, Encoder, CameraUp, Streaming, Resources
  <2>4. LastFrame' /\ Ending'
    BY <1>1, <1>13 DEF CloseFds, Types, LastFrame, Ending
  <2> QED
    BY <1>3, <1>4, <2>1, <2>2, <2>3, <2>4 DEF IInv
<1>14. CASE FreeBufs
  <2>1. Types'
    <3>1. 0 \in 0 .. CapBufs /\ res' = [res EXCEPT !.cap = 0] /\ res \in Resources
      BY <1>1, <1>14 DEF FreeBufs, Types
    <3>2. res' \in Resources
      BY <3>1 DEF Resources
    <3> QED
      BY <1>1, <1>14, <3>2 DEF FreeBufs, Types, Places, Encoder
  <2>2. Holdings'
    BY <1>1, <1>14 DEF FreeBufs, Types, Holdings, Waiting, Encoder, CameraUp, Streaming, Resources
  <2>3. Leftovers'
    <3>1. /\ pc = "free" /\ pc' = "end_encoder" /\ res' = [res EXCEPT !.cap = 0]
          /\ UNCHANGED <<lost, maps, mishaps, mdOk>>
      BY <1>14 DEF FreeBufs
    <3>2. /\ res'.enc = res.enc /\ res'.cap = 0 /\ res'.links = res.links
          /\ res.enc \in Nat /\ res.cap \in Nat /\ lost \in Nat
      BY <1>1, <3>1 DEF Types, Resources
    <3>3. Free' >= 0
      <4>1. Free >= 0 /\ lost' = lost
        BY <1>1, <3>1 DEF Leftovers
      <4> QED
        BY <3>2, <4>1 DEF Free
    <3> QED
      BY <1>1, <3>1, <3>2, <3>3 DEF Leftovers, Waiting, CameraUp, Streaming
  <2>4. LastFrame' /\ Ending'
    BY <1>1, <1>14 DEF FreeBufs, Types, LastFrame, Ending
  <2> QED
    BY <1>3, <1>4, <2>1, <2>2, <2>3, <2>4 DEF IInv
<1>15. CASE EndEncoder \/ RmanKeeps
  <2>0. PICK k : /\ DeleteEnc(k)
                 /\ \/ k = {} /\ UNCHANGED <<mishaps, throws>>
                    \/ throws < MaxThrows /\ throws' = throws + 1 /\ mishaps' = mishaps \union {"rman"}
    BY <1>15 DEF EndEncoder, RmanKeeps
  <2>a. /\ pc = "end_encoder" /\ pc' \in {"catch", "exited", "hold"} /\ (pc' = "exited" => shutdown)
        /\ res' = [res EXCEPT !.handle = FALSE, !.enc = 0,
                              !.assigned = @ /\ "assigned" \in k, !.edma = @ /\ "edma" \in k]
        /\ UNCHANGED <<flags, store, host, input, thrown, lost, maps, mdOk, since, history>>
    BY <2>0 DEF DeleteEnc
  <2>b. res \in Resources /\ 0 \in 0 .. EncBufs
    BY <1>1 DEF Types
  <2>c. /\ res' \in Resources /\ ~res'.handle /\ res'.enc = 0
        /\ res'.cap = res.cap /\ res'.fds = res.fds /\ res'.queued = res.queued /\ res'.on = res.on
        /\ res.enc \in Nat /\ res.cap \in Nat
    <3>1. PICK a, e \in BOOLEAN : res' = [res EXCEPT !.handle = FALSE, !.enc = 0, !.assigned = a, !.edma = e]
      <4>1. (res.assigned /\ "assigned" \in k) \in BOOLEAN /\ (res.edma /\ "edma" \in k) \in BOOLEAN
        OBVIOUS
      <4> QED
        BY <2>a, <4>1
    <3>2. res' \in Resources
      BY <2>b, <3>1 DEF Resources
    <3>3. ~res'.handle /\ res'.enc = 0
      BY <2>b, <3>1 DEF Resources
    <3>4. res'.cap = res.cap /\ res'.fds = res.fds /\ res'.queued = res.queued /\ res'.on = res.on
      BY <2>b, <3>1 DEF Resources
    <3> QED
      BY <2>b, <3>2, <3>3, <3>4 DEF Resources
  <2>d. (res'.assigned => "assigned" \in k) /\ (res'.edma => "edma" \in k)
    BY <2>a, <2>b DEF Resources
  <2>e. /\ mishaps \subseteq mishaps' /\ (res'.assigned \/ res'.edma => "rman" \in mishaps')
        /\ throws' \in 0 .. MaxThrows /\ throws' >= throws
    BY <1>1, <2>0, <2>d DEF Types
  <2>1. Types'
    BY <1>1, <2>a, <2>c, <2>e DEF Types, Places, Waiting
  <2>2. Holdings'
    BY <1>1, <2>a, <2>c, <2>e DEF Holdings, Waiting, Encoder, CameraUp, Streaming
  <2>3. Leftovers'
    <3>1. Free' >= 0
      <4>1. Free >= 0 /\ lost \in Nat /\ lost' = lost
        BY <1>1, <2>a DEF Leftovers, Types
      <4> QED
        BY <2>c, <4>1 DEF Free
    <3> QED
      BY <1>1, <2>a, <2>c, <2>e, <3>1 DEF Leftovers, Waiting
  <2>4. LastFrame' /\ Ending'
    BY <1>1, <2>a DEF Types, LastFrame, Ending
  <2> QED
    BY <1>3, <1>4, <2>1, <2>2, <2>3, <2>4 DEF IInv
<1>16. CASE Catch
  <2>1. Types'
    BY <1>1, <1>16 DEF Catch, Types, Places, Waiting, Encoder, CameraUp, Streaming, Resources
  <2>2. Holdings'
    BY <1>1, <1>16 DEF Catch, Types, Holdings, Waiting, Encoder, CameraUp, Streaming, Resources
  <2>3. Leftovers'
    BY <1>1, <1>16 DEF Catch, Types, Holdings, Leftovers, Free, Waiting, Encoder, CameraUp, Streaming, Resources
  <2>4. LastFrame' /\ Ending'
    BY <1>1, <1>16 DEF Catch, Types, LastFrame, Ending
  <2> QED
    BY <1>3, <1>4, <2>1, <2>2, <2>3, <2>4 DEF IInv
<1> QED
  BY <1>11, <1>12, <1>13, <1>14, <1>15, <1>16
-----------------------------------------------------------------------------
(* What run() waits for and what it reads keep the invariant. *)
LEMMA HoldKeeps ==
  ASSUME IInv, Hold \/ ReadHead \/ ReadNothing \/ ReadRest
  PROVE  IInv'
<1> USE BoardAssumption DEF store, host, flags, leaks, input, history
<1>1. Types /\ Holdings /\ Leftovers /\ LastFrame /\ Ending /\ Area /\ Reading
  BY DEF IInv
<1>2. /\ UNCHANGED <<store, upload, torn>> /\ (fresh' => upload = <<>>)
      /\ pc # "default_rest" /\ pc' # "default_rest"
  <2>1. CASE Hold
    BY <2>1 DEF Hold
  <2>2. CASE ReadHead
    BY <1>1, <2>2 DEF ReadHead, Area
  <2>3. CASE ReadRest
    BY <1>1, <2>3 DEF ReadRest, Area
  <2>4. CASE ReadNothing
    BY <1>1, <2>4 DEF ReadNothing, Area
  <2> QED
    BY <2>1, <2>2, <2>3, <2>4
<1>3. Area'
  BY <1>1, <1>2 DEF Area, WrittenSoFar, Stored
<1>4. Reading'
  <2>1. CASE Hold
    BY <2>1 DEF Hold, Reading
  <2>2. CASE ReadHead
    <3>1. /\ read' = (IF size > EeLen THEN [want |-> 0, got |-> <<>>]
                      ELSE [want |-> size, got |-> SubSeq(eeprom, 1, IF size < Page THEN size ELSE Page)])
          /\ pc' = (IF size \in Page + 1 .. EeLen THEN "rest" ELSE "enc") /\ size' = size /\ eeprom' = eeprom
          /\ size \in Nat /\ Page \in Nat /\ EeLen \in Nat
      BY <1>1, <2>2 DEF ReadHead, Types
    <3>2. CASE size \in Page + 1 .. EeLen
      <4>0. ~(size > EeLen) /\ ~(size < Page)
        BY <3>1, <3>2
      <4>1. pc' = "rest" /\ read' = [want |-> size, got |-> SubSeq(eeprom, 1, Page)]
        BY <3>1, <3>2, <4>0
      <4> QED
        BY <3>1, <3>2, <4>1 DEF Reading
    <3>3. CASE size <= Page
      <4>1. pc' = "enc" /\ (IF size < Page THEN size ELSE Page) = size /\ ~(size > EeLen)
        BY <3>1, <3>3
      <4> QED
        BY <3>1, <4>1 DEF Reading
    <3>4. CASE size > EeLen
      <4>1. pc' = "enc"
        BY <3>1, <3>4
      <4> QED
        BY <3>1, <3>4, <4>1 DEF Reading
    <3> QED
      BY <3>1, <3>2, <3>3, <3>4
  <2>3. CASE ReadRest
    <3>1. /\ pc = "rest" /\ pc' = "enc" /\ fresh' = fresh /\ size' = size /\ eeprom' = eeprom
          /\ read' = [read EXCEPT !.got = @ \o SubSeq(eeprom, Page + 1, read.want)]
      BY <2>3 DEF ReadRest
    <3>2. SUFFICES ASSUME fresh
                   PROVE  read' = [want |-> size, got |-> SubSeq(eeprom, 1, size)]
      BY <3>1 DEF Reading
    <3>3. read = [want |-> size, got |-> SubSeq(eeprom, 1, Page)] /\ size \in Page + 1 .. EeLen
      BY <1>1, <3>1, <3>2 DEF Reading
    <3>4. SubSeq(eeprom, 1, Page) \o SubSeq(eeprom, Page + 1, size) = SubSeq(eeprom, 1, size)
      <4>1. eeprom \in Seq(Lexemes) /\ Page \in Nat /\ size \in Nat /\ Page <= size /\ size <= Len(eeprom)
        BY <1>1, <3>3 DEF Types
      <4> QED
        BY <4>1, TwoPieces
    <3> QED
      BY <3>1, <3>3, <3>4
  <2>4. CASE ReadNothing
    BY <2>4 DEF ReadNothing, Reading
  <2> QED
    BY <2>1, <2>2, <2>3, <2>4
<1>11. CASE Hold
  <2>1. Types'
    BY <1>1, <1>11 DEF Hold, Types, Places, Waiting, Encoder, CameraUp, Streaming, Resources
  <2>2. Holdings'
    BY <1>1, <1>11 DEF Hold, Types, Holdings, Waiting, Encoder, CameraUp, Streaming, Resources
  <2>3. Leftovers'
    BY <1>1, <1>11 DEF Hold, Types, Holdings, Leftovers, Free, Waiting, Encoder, CameraUp, Streaming, Resources
  <2>4. LastFrame' /\ Ending'
    BY <1>1, <1>11 DEF Hold, Types, LastFrame, Ending
  <2> QED
    BY <1>3, <1>4, <2>1, <2>2, <2>3, <2>4 DEF IInv
<1>12. CASE ReadHead
  <2>1. Types'
    BY <1>1, <1>12 DEF ReadHead, Types, Places, Waiting, Encoder, CameraUp, Streaming, Resources
  <2>2. Holdings'
    BY <1>1, <1>12 DEF ReadHead, Types, Holdings, Waiting, Encoder, CameraUp, Streaming, Resources
  <2>3. Leftovers'
    BY <1>1, <1>12 DEF ReadHead, Types, Holdings, Leftovers, Free, Waiting, Encoder, CameraUp, Streaming, Resources
  <2>4. LastFrame' /\ Ending'
    BY <1>1, <1>12 DEF ReadHead, Types, LastFrame, Ending
  <2> QED
    BY <1>3, <1>4, <2>1, <2>2, <2>3, <2>4 DEF IInv
<1>13. CASE ReadRest
  <2>1. Types'
    BY <1>1, <1>13 DEF ReadRest, Types, Places, Waiting, Encoder, CameraUp, Streaming, Resources
  <2>2. Holdings'
    BY <1>1, <1>13 DEF ReadRest, Types, Holdings, Waiting, Encoder, CameraUp, Streaming, Resources
  <2>3. Leftovers'
    BY <1>1, <1>13 DEF ReadRest, Types, Holdings, Leftovers, Free, Waiting, Encoder, CameraUp, Streaming, Resources
  <2>4. LastFrame' /\ Ending'
    BY <1>1, <1>13 DEF ReadRest, Types, LastFrame, Ending
  <2> QED
    BY <1>3, <1>4, <2>1, <2>2, <2>3, <2>4 DEF IInv
<1>14. CASE ReadNothing
  <2>1. Types'
    <3>1. /\ throws' \in 0 .. MaxThrows /\ lost' \in 0 .. throws' /\ pc' = "enc" /\ fresh' = FALSE
          /\ UNCHANGED <<flags, store, host, thrown, res, maps, mdOk, since, torn>>
      BY <1>1, <1>14 DEF ReadNothing, Types
    <3> QED
      BY <1>1, <3>1 DEF Types, Places, Waiting
  <2>2. Holdings'
    BY <1>1, <1>14 DEF ReadNothing, Types, Holdings, Waiting, Encoder, CameraUp, Streaming, Resources
  <2>3. Leftovers'
    BY <1>1, <1>14 DEF ReadNothing, Types, Holdings, Leftovers, Free, Waiting, Encoder, CameraUp, Streaming, Resources
  <2>4. LastFrame' /\ Ending'
    BY <1>1, <1>14 DEF ReadNothing, Types, LastFrame, Ending
  <2> QED
    BY <1>3, <1>4, <2>1, <2>2, <2>3, <2>4 DEF IInv
<1> QED
  BY <1>11, <1>12, <1>13, <1>14
-----------------------------------------------------------------------------
(* The two pieces of a configuration, written with nothing in between, are *)
(* the configuration.                                                      *)
LEMMA HeadStores ==
  ASSUME Types, NEW f \in Files, WriteHead(f)
  PROVE  /\ size' = Len(f)
         /\ \A i \in 1 .. Len(f) : i <= Page => eeprom'[i] = f[i]
<1>1. Len(f) \in Nat /\ Len(f) <= EeLen /\ EeLen \in Nat
  BY BoardAssumption
<1> QED
  BY <1>1, WriteHeadWrites

LEMMA RestStores ==
  ASSUME Types, NEW f \in Files, WriteRest(f), WrittenSoFar(f)
  PROVE  size' = Len(f) /\ \A i \in 1 .. Len(f) : eeprom'[i] = f[i]
<1>1. Len(f) \in Nat /\ Len(f) <= EeLen /\ EeLen \in Nat /\ Page \in Nat
  BY BoardAssumption
<1>2. size' = Len(f)
  BY WriteRestWrites DEF WrittenSoFar
<1>3. ASSUME NEW i \in 1 .. Len(f)
      PROVE  eeprom'[i] = f[i]
  <2>1. i \in 1 .. EeLen
    BY <1>1
  <2>2. eeprom'[i] = IF i <= Len(f) /\ Page < i THEN f[i] ELSE eeprom[i]
    BY <2>1, WriteRestWrites
  <2> QED
    BY <1>1, <2>2 DEF WrittenSoFar
<1> QED
  BY <1>2, <1>3

(* main() storing the program's own configuration keeps the invariant. *)
LEMMA WriteDefaultKeeps ==
  ASSUME IInv, WriteDefault
  PROVE  IInv'
<1> USE DEF store, host, flags, leaks, input, history
<1>1. Types /\ Holdings /\ Leftovers /\ LastFrame /\ Ending /\ Area /\ Reading
  BY DEF IInv
<1>2. /\ pc \in {"default", "default_rest"}
      /\ pc' = "default_rest" \/ pc' = "hold" \/ (pc' = "exited" /\ shutdown)
      /\ torn' = (torn \/ upload # <<>>)
      /\ UNCHANGED <<flags, host, input, thrown, res, leaks, mdOk, throws, since, fresh>>
  BY DEF WriteDefault
<1>3. DefaultEncCfg \in Files
  BY BoardAssumption
<1>4. size' \in 0 .. EeLen + 1 /\ eeprom' \in Seq(Lexemes) /\ Len(eeprom') = EeLen
  <2>1. ASSUME WriteHead(DefaultEncCfg)
        PROVE  size' \in 0 .. EeLen /\ eeprom' \in Seq(Lexemes) /\ Len(eeprom') = EeLen
    BY <1>1, <1>3, <2>1, WriteHeadWrites
  <2>2. ASSUME WriteRest(DefaultEncCfg)
        PROVE  size' = size /\ eeprom' \in Seq(Lexemes) /\ Len(eeprom') = EeLen
    BY <1>1, <1>3, <2>2, WriteRestWrites
  <2>3. size \in 0 .. EeLen + 1 /\ EeLen \in Nat
    BY <1>1, BoardAssumption DEF Types
  <2>4. WriteHead(DefaultEncCfg) \/ WriteRest(DefaultEncCfg)
    BY DEF WriteDefault
  <2> QED
    BY <2>1, <2>2, <2>3, <2>4
<1>5. Types'
  BY <1>1, <1>2, <1>4 DEF Types, Places, Waiting
<1>6. Holdings' /\ Leftovers'
  BY <1>1, <1>2 DEF Holdings, Leftovers, Free, Waiting, Encoder, CameraUp, Streaming
<1>7. LastFrame' /\ Ending' /\ Reading'
  BY <1>1, <1>2 DEF LastFrame, Ending, Reading
<1>8. Area'
  <2>1. upload # <<>> => torn'
    BY <1>2
  <2>2. fresh' => upload' = <<>>
    BY <1>1, <1>2 DEF Area
  <2>3. ASSUME upload = <<>>, ~torn
        PROVE  \/ pc' = "default_rest" /\ WrittenSoFar(DefaultEncCfg)'
               \/ pc' # "default_rest" /\ \E f \in Files : Stored(f)'
    <3>1. CASE pc = "default"
      BY <1>1, <1>3, <3>1, HeadStores DEF WriteDefault, WrittenSoFar
    <3>2. CASE pc = "default_rest"
      <4>1. WrittenSoFar(DefaultEncCfg) /\ WriteRest(DefaultEncCfg) /\ pc' # "default_rest"
        BY <1>1, <2>3, <3>2 DEF Area, WriteDefault
      <4>2. Stored(DefaultEncCfg)'
        BY <1>1, <1>3, <4>1, RestStores DEF Stored
      <4> QED
        BY <1>3, <4>1, <4>2
    <3> QED
      BY <1>2, <3>1, <3>2
  <2>4. torn' \/ (upload = <<>> /\ ~torn)
    BY <1>2
  <2>5. upload' = upload
    BY <1>2
  <2> QED
    BY <2>1, <2>2, <2>3, <2>4, <2>5 DEF Area
<1> QED
  BY <1>5, <1>6, <1>7, <1>8 DEF IInv

LEMMA UnwrittenKeeps ==
  ASSUME IInv, DefaultUnwritten
  PROVE  IInv'
<1> USE BoardAssumption DEF store, host, flags, leaks, input, history
<1>1. Types /\ Holdings /\ Leftovers /\ LastFrame /\ Ending /\ Area /\ Reading
  BY DEF IInv
<1>2. /\ pc = "default" /\ pc' \in {"hold", "exited"} /\ (pc' = "exited" => shutdown)
      /\ throws < MaxThrows /\ throws' = throws + 1
      /\ UNCHANGED <<flags, store, host, input, thrown, res, leaks, mdOk, since, history>>
  BY DEF DefaultUnwritten
<1>3. Types'
  BY <1>1, <1>2 DEF Types, Places, Waiting
<1>4. Holdings' /\ Leftovers'
  BY <1>1, <1>2 DEF Holdings, Leftovers, Free, Waiting, Encoder, CameraUp, Streaming
<1>5. LastFrame' /\ Ending' /\ Reading'
  BY <1>1, <1>2 DEF LastFrame, Ending, Reading
<1>6. Area'
  BY <1>1, <1>2 DEF Area, WrittenSoFar, Stored
<1> QED
  BY <1>3, <1>4, <1>5, <1>6 DEF IInv

(* A command of the host keeps the invariant. *)
LEMMA CommandKeeps ==
  ASSUME IInv, Command
  PROVE  IInv'
<1> USE DEF store, host, flags, leaks, input, history
<1>1. Types /\ Holdings /\ Leftovers /\ LastFrame /\ Ending /\ Area /\ Reading
  BY DEF IInv
<1>2. /\ upload = <<>>
      /\ UNCHANGED <<pc, shutdown, gpio, input, thrown, res, leaks, mdOk, throws, behind>>
  BY DEF Command
<1>3. Holdings' /\ Leftovers' /\ Ending'
  BY <1>1, <1>2 DEF Holdings, Leftovers, Ending, Free
<1>4. CASE Stop \/ Start \/ SetBitrate
  <2>1. /\ (stop' = TRUE /\ since' = 0) \/ (stop' = FALSE /\ since' = -1)
        /\ UNCHANGED <<store, upload, fresh, torn>>
    BY <1>4 DEF Stop, Start, SetBitrate
  <2>2. since' \in -1 .. 1 /\ stop' \in BOOLEAN /\ (since' >= 0 => stop') /\ since' # 1
    <3>1. CASE stop' = TRUE /\ since' = 0
      BY <3>1
    <3>2. CASE stop' = FALSE /\ since' = -1
      <4>1. since' \in -1 .. 1 /\ ~(since' >= 0) /\ since' # 1
        BY ONLY <3>2
      <4>2. stop' \in BOOLEAN
        BY ONLY <3>2
      <4> QED
        BY <4>1, <4>2
    <3> QED
      BY <2>1, <3>1, <3>2
  <2>a. Types' /\ LastFrame'
    BY <1>1, <1>2, <2>1, <2>2 DEF Types, LastFrame
  <2>3. Area' /\ Reading'
    BY <1>1, <1>2, <2>1 DEF Area, Reading, WrittenSoFar, Stored
  <2> QED
    BY <1>3, <2>a, <2>3 DEF IInv
<1>5. CASE SetEncCfg
  <2>1. PICK f \in Files : /\ WriteHead(f)
                           /\ upload' = (IF Len(f) > Page THEN f ELSE <<>>)
                           /\ fresh' = FALSE
                           /\ torn' = (IF pc = "default_rest" THEN TRUE ELSE torn /\ Len(f) > Page)
                           /\ UNCHANGED <<stop, since>>
    BY <1>5 DEF SetEncCfg
  <2>2. /\ size' \in 0 .. EeLen /\ eeprom' \in Seq(Lexemes) /\ Len(eeprom') = EeLen
        /\ WrittenSoFar(f)'
    BY <1>1, <2>1, WriteHeadWrites, HeadStores DEF WrittenSoFar
  <2>3. torn' \in BOOLEAN /\ (pc = "default_rest" => torn')
    BY <1>1, <2>1 DEF Types
  <2>4. Types' /\ LastFrame'
    <3>1. size' \in 0 .. EeLen + 1
      BY <2>2, BoardAssumption
    <3> QED
      BY <1>1, <1>2, <2>1, <2>2, <2>3, <3>1 DEF Types, LastFrame
  <2>5. Reading'
    BY <2>1 DEF Reading
  <2>6. Area'
    <3>1. Len(f) \in Nat /\ Page \in Nat
      BY BoardAssumption
    <3>2. CASE Len(f) > Page
      <4>1. upload' = f /\ f # <<>>
        BY <2>1, <3>1, <3>2
      <4> QED
        BY <2>1, <2>2, <4>1 DEF Area
    <3>3. CASE ~(Len(f) > Page)
      <4>1. upload' = <<>>
        BY <2>1, <3>3
      <4>2. Stored(f)'
        BY <2>2, <3>1, <3>3 DEF WrittenSoFar, Stored
      <4> QED
        BY <1>2, <2>1, <2>3, <4>1, <4>2 DEF Area
    <3> QED
      BY <3>2, <3>3
  <2> QED
    BY <1>3, <2>4, <2>5, <2>6 DEF IInv
<1> QED
  BY <1>4, <1>5 DEF Command

(* The rest of an upload keeps the invariant. *)
LEMMA UploadKeeps ==
  ASSUME IInv, SetEncCfgRest
  PROVE  IInv'
<1> USE DEF store, host, flags, leaks, input, history
<1>1. Types /\ Holdings /\ Leftovers /\ LastFrame /\ Ending /\ Area /\ Reading
  BY DEF IInv
<1>2. /\ upload # <<>> /\ WriteRest(upload) /\ upload' = <<>> /\ fresh' = FALSE
      /\ torn' = (torn \/ pc = "default_rest")
      /\ UNCHANGED <<pc, flags, cmds, input, thrown, res, leaks, mdOk, throws, since, behind>>
  BY DEF SetEncCfgRest
<1>3. upload \in Files
  BY <1>1, <1>2 DEF Types
<1>4. size' = size /\ eeprom' \in Seq(Lexemes) /\ Len(eeprom') = EeLen
  BY <1>1, <1>2, <1>3, WriteRestWrites
<1>5. Types'
  BY <1>1, <1>2, <1>4 DEF Types
<1>6. Holdings' /\ Leftovers' /\ LastFrame' /\ Ending' /\ Reading'
  BY <1>1, <1>2 DEF Holdings, Leftovers, LastFrame, Ending, Reading, Free
<1>7. Area'
  <2>1. CASE torn \/ pc = "default_rest"
    BY <1>2, <2>1 DEF Area
  <2>2. CASE ~torn /\ pc # "default_rest"
    <3>1. WrittenSoFar(upload)
      BY <1>1, <1>2, <2>2 DEF Area
    <3>2. size' = Len(upload) /\ \A i \in 1 .. Len(upload) : eeprom'[i] = upload[i]
      BY <1>1, <1>2, <1>3, <3>1, RestStores
    <3>3. \E f \in Files : Stored(f)'
      BY <1>3, <3>2 DEF Stored
    <3> QED
      BY <1>2, <2>2, <3>3 DEF Area
  <2> QED
    BY <2>1, <2>2
<1> QED
  BY <1>5, <1>6, <1>7 DEF IInv

LEMMA ButtonKeeps ==
  ASSUME IInv, Button
  PROVE  IInv'
BY DEF IInv, Button, Types, Holdings, Leftovers, LastFrame, Ending, Area, Reading, WrittenSoFar, Stored, Free,
       store, host, leaks, input, history

LEMMA StutterKeeps ==
  ASSUME IInv, UNCHANGED vars
  PROVE  IInv'
BY DEF IInv, vars, Types, Holdings, Leftovers, LastFrame, Ending, Area, Reading, WrittenSoFar, Stored, Free,
       flags, store, host, leaks, input, history

LEMMA InitIInv == Init => IInv
<1> SUFFICES ASSUME Init PROVE IInv
  OBVIOUS
<1> USE BoardAssumption DEF Init
<1>1. DefaultEncCfg \in Seq(Lexemes) /\ Len(DefaultEncCfg) \in 0 .. EeLen
  OBVIOUS
<1>2. Erased \in Seq(Lexemes) /\ Len(Erased) = EeLen
  <2>1. "ff" \in Lexemes /\ EeLen \in Nat
    OBVIOUS
  <2>2. Erased \in [1 .. EeLen -> Lexemes]
    BY <2>1 DEF Erased
  <2>3. Erased \in Seq(Lexemes)
    BY <2>1, <2>2, SeqDef
  <2>4. Len(Erased) = EeLen
    BY <2>1 DEF Erased
  <2> QED
    BY <2>3, <2>4
<1>3. \/ size = Len(DefaultEncCfg) /\ eeprom = Overlay(DefaultEncCfg, Erased)
      \/ size = EeLen + 1 /\ eeprom = Erased
  OBVIOUS
<1>4. Len(DefaultEncCfg) <= Len(Erased)
  BY <1>1, <1>2
<1>5. LET new == Overlay(DefaultEncCfg, Erased)
      IN  /\ new \in Seq(Lexemes) /\ Len(new) = Len(Erased)
          /\ \A i \in 1 .. Len(Erased) : new[i] = IF i <= Len(DefaultEncCfg) THEN DefaultEncCfg[i] ELSE Erased[i]
  BY ONLY <1>1, <1>2, <1>4, OverlayWrites
<1>6. Nothing \in Resources
  BY DEF Nothing, Resources
<1>7. Types
  <2>1. size \in 0 .. EeLen + 1 /\ eeprom \in Seq(Lexemes) /\ Len(eeprom) = EeLen
    BY <1>1, <1>2, <1>3, <1>5
  <2>2. since \in -1 .. 1 /\ lost \in 0 .. throws /\ throws \in 0 .. MaxThrows /\ maps \in 0 .. MaxFds
    OBVIOUS
  <2> QED
    BY <1>6, <2>1, <2>2 DEF Types, Places, Waiting
<1>8. Holdings /\ Leftovers
  BY DEF Holdings, Leftovers, Nothing, Free, Waiting, Encoder, CameraUp, Streaming
<1>9. LastFrame /\ Ending /\ Reading
  BY DEF LastFrame, Ending, Reading
<1>10. Area
  <2>1. size <= EeLen => Stored(DefaultEncCfg)
    BY <1>1, <1>2, <1>3, <1>5 DEF Stored
  <2> QED
    BY <2>1 DEF Area
<1> QED
  BY <1>7, <1>8, <1>9, <1>10 DEF IInv

-----------------------------------------------------------------------------
(* The invariant of the program: what the objects of run() hold at each    *)
(* place, what was left behind, what is stored and what was read of it.    *)
THEOREM Invariant == Spec => []IInv
<1>1. ASSUME IInv, [Next]_vars
      PROVE  IInv'
  <2>1. CASE Hold \/ ReadHead \/ ReadNothing \/ ReadRest
    BY <1>1, <2>1, HoldKeeps
  <2>2. CASE NewEnc \/ LoadParams \/ Create \/ CheckWarnings \/ MemInit \/ SetParams \/ NewCap \/ EnableLinks \/ InitPipeline \/ SetFormats
               \/ QueueBufs \/ StreamOn \/ InitMD
    BY <1>1, <2>2, SetUpKeeps
  <2>3. CASE Test \/ Frame \/ Gpio
    BY <1>1, <2>3, LoopKeeps
  <2>4. CASE Throw \/ OutOf
    BY <1>1, <2>4, FaultKeeps
  <2>5. CASE StreamOff \/ Terminate \/ CloseFds \/ FreeBufs \/ EndEncoder \/ RmanKeeps \/ Catch
    BY <1>1, <2>5, UnwindKeeps
  <2>6. CASE WriteDefault
    BY <1>1, <2>6, WriteDefaultKeeps
  <2>7. CASE Command
    BY <1>1, <2>7, CommandKeeps
  <2>8. CASE SetEncCfgRest
    BY <1>1, <2>8, UploadKeeps
  <2>9. CASE Button
    BY <1>1, <2>9, ButtonKeeps
  <2>10. CASE DefaultUnwritten
    BY <1>1, <2>10, UnwrittenKeeps
  <2>11. CASE UNCHANGED vars
    BY <1>1, <2>11, StutterKeeps
  <2> QED
    BY <1>1, <2>1, <2>2, <2>3, <2>4, <2>5, <2>6, <2>7, <2>8, <2>9, <2>10, <2>11
       DEF Next, Main, Other, SetUp, Unwind
<1> QED
  BY <1>1, InitIInv, PTL DEF Spec

(* Every variable keeps its type, and no buffer is counted twice: what the *)
(* encoder, the camera and nobody holds never exceeds the CMEM pool.       *)
THEOREM Typed == Spec => []TypeOK
<1>1. IInv => TypeOK
  <2> SUFFICES ASSUME IInv PROVE TypeOK
    OBVIOUS
  <2>1. DOMAIN res = DOMAIN Nothing
    BY DEF IInv, Types, Resources, Nothing
  <2>2. lost \in 0 .. MaxThrows /\ since \in -1 .. 3
    BY BoardAssumption DEF IInv, Types
  <2> QED
    BY <2>1, <2>2 DEF IInv, Types, Leftovers, TypeOK
<1> QED
  BY <1>1, Invariant, PTL

(* After a Stop at most one frame is sent until the host says Start or     *)
(* changes the bitrate, for any number of commands and faults.             *)
THEOREM OneFrameAfterStop == Spec => []StopsSoon
<1>1. IInv => StopsSoon
  BY DEF IInv, Types, StopsSoon
<1> QED
  BY <1>1, Invariant, PTL

(* The capture driver owns buffers only while they are allocated and its   *)
(* descriptors open, from whatever step an exception came, and streams     *)
(* only while the links are enabled.                                       *)
THEOREM DriverSafe == Spec => []DriverOwnsMemory
<1>1. IInv => DriverOwnsMemory
  BY DEF IInv, Types, Holdings, DriverOwnsMemory, Places, Waiting, Encoder, CameraUp, Streaming
<1> QED
  BY <1>1, Invariant, PTL

(* A run() that waits holds nothing of the ones before (links apart), but  *)
(* what a mishap left behind: Enc() that threw, RMAN that kept resources,  *)
(* a buffer without a physical address; a readable detector configuration  *)
(* costs no descriptor.                                                    *)
THEOREM NothingKept == Spec => []Released
<1>1. IInv => Released
  BY DEF IInv, Types, Holdings, Leftovers, Released, Waiting, CameraUp, Streaming
<1> QED
  BY <1>1, Invariant, PTL

-----------------------------------------------------------------------------
(* The area holds one of the configurations from end to end, unless one is *)
(* being written, two threads wrote at once, or nothing was ever stored.   *)
AreaWhole == upload = <<>> /\ ~torn /\ pc # "default_rest" /\ size <= EeLen => SubSeq(eeprom, 1, size) \in Files

(* What load_params() is given is a configuration somebody stored, as a    *)
(* whole, unless the area could not be read, was written since run()       *)
(* waited, or by two threads at once, or nothing was ever stored.          *)
LoadsWhole == pc = "load" /\ fresh /\ ~torn /\ size <= EeLen => read.got \in Files /\ read.got = SubSeq(eeprom, 1, size)

LEMMA StoredIsFile ==
  ASSUME Types, NEW f \in Files, Stored(f)
  PROVE  SubSeq(eeprom, 1, size) = f
<1>1. f \in Seq(Lexemes) /\ Len(f) \in Nat /\ Len(f) <= Len(eeprom) /\ eeprom \in Seq(Lexemes)
  BY BoardAssumption DEF Types
<1>2. SubSeq(eeprom, 1, Len(f)) \in Seq(Lexemes) /\ Len(SubSeq(eeprom, 1, Len(f))) = Len(f)
  BY <1>1
<1>3. \A i \in 1 .. Len(f) : SubSeq(eeprom, 1, Len(f))[i] = f[i]
  BY <1>1 DEF Stored
<1>4. SubSeq(eeprom, 1, Len(f)) = f
  BY <1>1, <1>2, <1>3, SeqEqual
<1> QED
  BY <1>4 DEF Stored

(* The two writers, in pieces and without a lock, leave whole              *)
(* configurations behind.                                                  *)
THEOREM WritersLeaveWhole == Spec => []AreaWhole
<1>1. IInv => AreaWhole
  BY StoredIsFile DEF IInv, Area, AreaWhole
<1> QED
  BY <1>1, Invariant, PTL

(* GetEncCfg() of run(), in pieces and without a lock, hands a whole       *)
(* configuration to the parser.                                            *)
THEOREM ReaderGetsWhole == Spec => []LoadsWhole
<1>1. ASSUME IInv, pc = "load", fresh, ~torn, size <= EeLen
      PROVE  read.got \in Files /\ read.got = SubSeq(eeprom, 1, size)
  <2>1. read = [want |-> size, got |-> SubSeq(eeprom, 1, size)]
    BY <1>1 DEF IInv, Reading
  <2>2. PICK f \in Files : Stored(f)
    BY <1>1 DEF IInv, Area
  <2>3. SubSeq(eeprom, 1, size) = f
    BY <1>1, <2>2, StoredIsFile DEF IInv
  <2> QED
    BY <2>1, <2>2, <2>3
<1>2. IInv => LoadsWhole
  BY <1>1 DEF LoadsWhole
<1> QED
  BY <1>2, Invariant, PTL
-----------------------------------------------------------------------------
(* Every set of natural numbers has a least one. *)
Less == {ss \in Nat \X Nat : ss[1] < ss[2]}

LEMMA Least == ASSUME NEW T \in SUBSET Nat, T # {} PROVE \E x \in T : \A y \in T : x <= y
<1>1. IsWellFoundedOn(Less, Nat)
  BY NatLessThanWellFounded, Zenon DEF OpToRel, Less
<1>2. T \subseteq Nat
  OBVIOUS
<1>3. PICK x \in T : \A y \in T : ~(<<y, x>> \in Less)
  BY ONLY <1>1, <1>2, WFMin, T # {}, Zenon
<1>4. ASSUME NEW y \in T PROVE x <= y
  <2>1. x \in Nat /\ y \in Nat /\ ~(<<y, x>> \in Less)
    BY <1>3
  <2> QED
    BY <2>1 DEF Less
<1> QED
  BY <1>4

(* What holds at 0, and from one number to the next, holds up to N. *)
LEMMA UpToN ==
  ASSUME NEW N \in Nat, NEW T \in SUBSET Nat, 0 \in T,
         ASSUME NEW n \in T, n < N PROVE n + 1 \in T
  PROVE  \A n \in 0 .. N : n \in T
<1> DEFINE U == {n \in Nat : n <= N /\ n \notin T}
<1>1. SUFFICES ASSUME U # {} PROVE FALSE
  OBVIOUS
<1>2. U \in SUBSET Nat
  OBVIOUS
<1>3. PICK x \in U : \A y \in U : x <= y
  BY <1>1, <1>2, Least
<1>4. x \in Nat /\ x <= N /\ x \notin T /\ x # 0
  BY <1>3
<1>5. x - 1 \in Nat /\ x - 1 < N /\ x - 1 + 1 = x /\ ~(x <= x - 1)
  BY <1>4
<1>6. x - 1 \in T
  BY <1>3, <1>5
<1> QED
  BY <1>4, <1>5, <1>6
-----------------------------------------------------------------------------
(* The parser: what its scan is at, on a text of characters of C. *)
ScanState(C) == [items : Seq(Seq(C)), open : SUBSET Nat, buf : Seq(C),
                 inItem : BOOLEAN, inString : BOOLEAN, comment : BOOLEAN]

LEMMA KeepIs ==
  ASSUME NEW C, NEW s \in ScanState(C), NEW c \in C
  PROVE  /\ Keep(s, c) \in ScanState(C)
         /\ Keep(s, c).buf = Append(s.buf, c)
         /\ Keep(s, c).open = s.open /\ Keep(s, c).inItem = s.inItem
         /\ Keep(s, c).inString = s.inString /\ Keep(s, c).comment = s.comment
         /\ Len(Keep(s, c).items) = Len(s.items)
         /\ \A i \in 1 .. Len(s.items) : i \notin s.open => Keep(s, c).items[i] = s.items[i]
<1> DEFINE it == s.items
           new == [i \in DOMAIN it |-> IF i \in s.open THEN Append(it[i], c) ELSE it[i]]
<1>1. s.items \in Seq(Seq(C)) /\ s.buf \in Seq(C)
  BY DEF ScanState
<1>2. Keep(s, c) = [s EXCEPT !.buf = Append(s.buf, c), !.items = new]
  BY DEF Keep, ScanState
<1>3. Len(it) \in Nat /\ DOMAIN it = 1 .. Len(it)
  BY <1>1, LenProperties
<1>4. \A i \in 1 .. Len(it) : it[i] \in Seq(C)
  BY <1>1, ElementOfSeq
<1>5. \A i \in 1 .. Len(it) : Append(it[i], c) \in Seq(C)
  BY <1>4, AppendProperties
<1>6. new \in [1 .. Len(it) -> Seq(C)]
  BY ONLY <1>3, <1>4, <1>5
<1>7. new \in Seq(Seq(C)) /\ Len(new) = Len(it)
  <2>1. new \in Seq(Seq(C))
    BY ONLY <1>3, <1>6, SeqDef
  <2>2. DOMAIN new = 1 .. Len(it) /\ DOMAIN new = 1 .. Len(new) /\ Len(new) \in Nat
    BY ONLY <1>6, <2>1, LenProperties
  <2> QED
    BY ONLY <1>3, <2>1, <2>2
<1>8. \A i \in 1 .. Len(it) : i \notin s.open => new[i] = it[i]
  BY <1>3
<1>9. Append(s.buf, c) \in Seq(C)
  BY <1>1, AppendProperties
<1> HIDE DEF new
<1> QED
  BY <1>2, <1>7, <1>8, <1>9 DEF ScanState

LEMMA KeepOthers ==
  ASSUME NEW C, NEW s \in ScanState(C), NEW c \in C, NEW i \in 1 .. Len(s.items), i \notin s.open
  PROVE  Keep(s, c).items[i] = s.items[i]
BY KeepIs

LEMMA NewItemIs ==
  ASSUME NEW C, NEW s \in ScanState(C)
  PROVE  /\ NewItem(s) \in ScanState(C)
         /\ NewItem(s).buf = s.buf /\ NewItem(s).open = s.open \union {Len(s.items) + 1}
         /\ NewItem(s).items = Append(s.items, <<>>)
         /\ NewItem(s).inItem = ~s.inItem
         /\ NewItem(s).inString = s.inString /\ NewItem(s).comment = s.comment
<1>1. s.items \in Seq(Seq(C)) /\ <<>> \in Seq(C) /\ Len(s.items) \in Nat
  BY LenProperties DEF ScanState
<1>2. Append(s.items, <<>>) \in Seq(Seq(C))
  BY <1>1, AppendProperties
<1>3. s.open \union {Len(s.items) + 1} \in SUBSET Nat
  BY <1>1 DEF ScanState
<1>4. NewItem(s) = [s EXCEPT !.items = Append(s.items, <<>>), !.open = s.open \union {Len(s.items) + 1},
                             !.inItem = ~s.inItem]
  BY DEF NewItem, ScanState
<1> QED
  BY <1>1, <1>2, <1>3, <1>4, Zenon DEF ScanState
(* One character more: it is in the buffer afterwards, or a NUL in its     *)
(* place, which the end of a line always leaves.                           *)
LEMMA ScanCharTypes ==
  ASSUME NEW C, Nul \in C, NEW s \in ScanState(C), NEW c \in C
  PROVE  /\ ScanChar(s, c) \in ScanState(C)
         /\ \E e \in {c, Nul} : ScanChar(s, c).buf = Append(s.buf, e) /\ (c = "nl" => e = Nul)
<1>0. s.inItem \in BOOLEAN /\ s.inString \in BOOLEAN /\ s.comment \in BOOLEAN /\ Nul # "nl"
  BY DEF ScanState, Nul
<1>a. Append(s.buf, Nul) \in Seq(C)
  BY AppendProperties DEF ScanState
<1>1. CASE s.comment /\ c # "nl"
  BY <1>1, KeepIs DEF ScanChar
<1>2. CASE ~(s.comment /\ c # "nl") /\ c = "cr"
  BY <1>2, KeepIs DEF ScanChar
<1>3. CASE ~(s.comment /\ c # "nl") /\ c = "#"
  <2>1. ScanChar(s, c) = [Cut(s) EXCEPT !.comment = TRUE, !.inString = FALSE, !.inItem = FALSE]
    BY <1>3 DEF ScanChar
  <2>2. ScanChar(s, c) = [s EXCEPT !.buf = Append(s.buf, Nul), !.open = {},
                                   !.comment = TRUE, !.inString = FALSE, !.inItem = FALSE]
    BY <2>1 DEF Cut, ScanState
  <2>3. ScanChar(s, c) \in ScanState(C) /\ ScanChar(s, c).buf = Append(s.buf, Nul)
    BY <1>a, <2>2 DEF ScanState
  <2> QED
    BY <1>3, <2>3
<1>4. CASE c = "nl"
  <2>1. ScanChar(s, c) = [Cut(s) EXCEPT !.comment = FALSE, !.inString = FALSE, !.inItem = FALSE]
    BY <1>4 DEF ScanChar
  <2>2. ScanChar(s, c) = [s EXCEPT !.buf = Append(s.buf, Nul), !.open = {},
                                   !.comment = FALSE, !.inString = FALSE, !.inItem = FALSE]
    BY <2>1 DEF Cut, ScanState
  <2>3. ScanChar(s, c) \in ScanState(C) /\ ScanChar(s, c).buf = Append(s.buf, Nul)
    BY <1>a, <2>2 DEF ScanState
  <2> QED
    BY <1>4, <2>3
<1>5. CASE ~(s.comment /\ c # "nl") /\ c = "sp"
  <2>1. ScanChar(s, c) = IF s.inString THEN Keep(s, c) ELSE [Cut(s) EXCEPT !.inItem = FALSE]
    BY <1>5 DEF ScanChar
  <2>2. [Cut(s) EXCEPT !.inItem = FALSE] = [s EXCEPT !.buf = Append(s.buf, Nul), !.open = {}, !.inItem = FALSE]
    BY DEF Cut, ScanState
  <2>3. /\ [Cut(s) EXCEPT !.inItem = FALSE] \in ScanState(C)
        /\ [Cut(s) EXCEPT !.inItem = FALSE].buf = Append(s.buf, Nul)
    BY <1>a, <2>2 DEF ScanState
  <2> QED
    <3>1. Keep(s, c) \in ScanState(C) /\ Keep(s, c).buf = Append(s.buf, c)
      BY KeepIs
    <3>2. /\ ScanChar(s, c) \in ScanState(C)
          /\ ScanChar(s, c).buf = Append(s.buf, c) \/ ScanChar(s, c).buf = Append(s.buf, Nul)
      BY ONLY <2>1, <2>2, <2>3, <3>1, Zenon
    <3> QED
      BY <1>5, <3>2
<1>6. CASE ~(s.comment /\ c # "nl") /\ c = "quote"
  <2> DEFINE u == [Cut(s) EXCEPT !.inItem = FALSE]
             v == NewItem(Cut(s))
             t == IF s.inString THEN u ELSE v
  <2>1. ScanChar(s, c) = [t EXCEPT !.inString = ~t.inString]
    BY <1>6 DEF ScanChar
  <2>2. Cut(s) = [s EXCEPT !.buf = Append(s.buf, Nul), !.open = {}]
    BY DEF Cut
  <2>3. Cut(s) \in ScanState(C) /\ Cut(s).buf = Append(s.buf, Nul)
    BY <1>a, <2>2 DEF ScanState
  <2>4. u \in ScanState(C) /\ u.buf = Append(s.buf, Nul)
    BY <2>3 DEF ScanState
  <2>5. v \in ScanState(C) /\ v.buf = Append(s.buf, Nul)
    BY <2>3, NewItemIs
  <2>6. t \in ScanState(C) /\ t.buf = Append(s.buf, Nul)
    BY <2>4, <2>5
  <2> HIDE DEF t
  <2>7. ScanChar(s, c) \in ScanState(C) /\ ScanChar(s, c).buf = Append(s.buf, Nul)
    BY <2>1, <2>6 DEF ScanState
  <2> QED
    BY <1>6, <2>7
<1>7. CASE ~(s.comment /\ c # "nl") /\ c \notin {"cr", "#", "nl", "sp", "quote"}
  <2>1. ScanChar(s, c) = IF s.inItem THEN Keep(s, c) ELSE Keep(NewItem(s), c)
    BY <1>7 DEF ScanChar
  <2>2. NewItem(s) \in ScanState(C) /\ NewItem(s).buf = s.buf
    BY NewItemIs
  <2>3. /\ Keep(s, c) \in ScanState(C) /\ Keep(s, c).buf = Append(s.buf, c)
        /\ Keep(NewItem(s), c) \in ScanState(C) /\ Keep(NewItem(s), c).buf = Append(s.buf, c)
    BY <2>2, KeepIs
  <2> QED
    BY <1>7, <2>1, <2>3
<1> QED
  BY <1>1, <1>2, <1>3, <1>4, <1>5, <1>6, <1>7

(* The end of a line ends whatever the scan was in. *)
LEMMA AtLineEnd ==
  ASSUME NEW C, Nul \in C, NEW s \in ScanState(C)
  PROVE  LET t == ScanChar(s, "nl")
         IN  t.open = {} /\ ~t.comment /\ ~t.inString /\ ~t.inItem
<1>1. ScanChar(s, "nl") = [Cut(s) EXCEPT !.comment = FALSE, !.inString = FALSE, !.inItem = FALSE]
  BY DEF ScanChar
<1> QED
  BY <1>1 DEF Cut, ScanState

(* Characters that neither separate nor quote: they stay in the item they  *)
(* are in, or begin one.                                                   *)
Plain(c) == c \notin {"sp", "quote", "#", "nl"}

(* The scan has found no more than one item behind those of s. *)
OneMore(s, t) ==
  /\ ~t.comment /\ ~t.inString
  /\ t.open \subseteq {Len(s.items) + 1}
  /\ Len(t.items) = IF t.inItem THEN Len(s.items) + 1 ELSE Len(s.items)
  /\ \A i \in 1 .. Len(s.items) : t.items[i] = s.items[i]

LEMMA PlainChar ==
  ASSUME NEW C, Nul \in C, NEW s \in ScanState(C), NEW t \in ScanState(C), NEW c \in C,
         Plain(c), OneMore(s, t)
  PROVE  OneMore(s, ScanChar(t, c))
<1> DEFINE n == Len(s.items)
<1>1. n \in Nat /\ Len(t.items) \in Nat /\ t.items \in Seq(Seq(C)) /\ t.inItem \in BOOLEAN
  BY LenProperties DEF ScanState
<1>2. /\ ~t.comment /\ ~t.inString /\ t.open \subseteq {n + 1}
      /\ Len(t.items) = (IF t.inItem THEN n + 1 ELSE n)
      /\ \A i \in 1 .. n : t.items[i] = s.items[i]
  BY DEF OneMore
<1>3. \A i \in 1 .. n : i \in 1 .. Len(t.items) /\ i # n + 1
  BY <1>1, <1>2
<1>4. CASE c = "cr" \/ t.inItem
  <2>1. ScanChar(t, c) = Keep(t, c)
    BY <1>2, <1>4 DEF ScanChar, Plain
  <2>2. \A i \in 1 .. n : Keep(t, c).items[i] = t.items[i]
    <3>1. t \in ScanState(C) /\ c \in C
      OBVIOUS
    <3> QED
      BY ONLY <1>2, <1>3, <3>1, KeepIs, SMTT(20)
  <2>3. /\ Keep(t, c).open = t.open /\ Keep(t, c).inItem = t.inItem /\ Keep(t, c).inString = t.inString
        /\ Keep(t, c).comment = t.comment /\ Len(Keep(t, c).items) = Len(t.items)
    BY KeepIs
  <2> QED
    BY <1>2, <2>1, <2>2, <2>3 DEF OneMore
<1>5. CASE c # "cr" /\ ~t.inItem
  <2> DEFINE u == NewItem(t)
  <2>1. ScanChar(t, c) = Keep(u, c)
    BY <1>2, <1>5 DEF ScanChar, Plain
  <2>2. /\ u \in ScanState(C) /\ u.open = t.open \union {Len(t.items) + 1}
        /\ u.items = Append(t.items, <<>>) /\ u.inItem = TRUE
        /\ u.inString = t.inString /\ u.comment = t.comment
    BY <1>5, NewItemIs
  <2>3. Len(t.items) = n
    BY <1>2, <1>5
  <2>4. Len(u.items) = n + 1 /\ \A i \in 1 .. n : u.items[i] = t.items[i]
    <3>1. <<>> \in Seq(C)
      OBVIOUS
    <3>2. Len(Append(t.items, <<>>)) = n + 1 /\ \A i \in 1 .. n : Append(t.items, <<>>)[i] = t.items[i]
      BY ONLY <1>1, <2>3, <3>1, AppendProperties
    <3> QED
      BY <2>2, <3>2
  <2> HIDE DEF u
  <2>5. /\ Keep(u, c).open = u.open /\ Keep(u, c).inItem = u.inItem /\ Keep(u, c).inString = u.inString
        /\ Keep(u, c).comment = u.comment /\ Len(Keep(u, c).items) = Len(u.items)
    BY ONLY <2>2, c \in C, KeepIs, SMTT(20)
  <2>6. \A i \in 1 .. n : Keep(u, c).items[i] = u.items[i]
    <3>1. \A i \in 1 .. n : i \in 1 .. Len(u.items) /\ i \notin u.open
      BY <1>1, <1>2, <1>3, <2>2, <2>3, <2>4
    <3> QED
      BY ONLY <2>2, <3>1, c \in C, KeepOthers
  <2>7. u.open \subseteq {n + 1}
    BY <1>2, <2>2, <2>3
  <2> QED
    BY <1>2, <2>1, <2>2, <2>4, <2>5, <2>6, <2>7 DEF OneMore
<1> QED
  BY <1>4, <1>5
-----------------------------------------------------------------------------
(* Scanned() character by character. *)
ScanStep(f, text, n) == IF n = 0 THEN Scan ELSE ScanChar(f[n - 1], text[n])

LEMMA ScanStepAgrees ==
  ASSUME NEW f, NEW g, NEW text, NEW n, n # 0 => f[n - 1] = g[n - 1]
  PROVE  ScanStep(f, text, n) = ScanStep(g, text, n)
BY DEF ScanStep

LEMMA ScannedIs ==
  ASSUME NEW text, Len(text) \in Nat
  PROVE  \E f : /\ \A n \in 0 .. Len(text) : f[n] = ScanStep(f, text, n)
                /\ Scanned(text) = f[Len(text)]
<1> DEFINE N == Len(text)
           Good(f, m) == f = [n \in 0 .. N |-> f[n]] /\ \A n \in 0 .. N : n <= m => f[n] = ScanStep(f, text, n)
           T == {m \in Nat : \E f : Good(f, m)}
           P == CHOOSE f : f = [n \in 0 .. N |-> ScanStep(f, text, n)]
<1>1. N \in Nat /\ T \in SUBSET Nat
  OBVIOUS
<1>2. 0 \in T
  <2> DEFINE e == [n \in 0 .. N |-> Scan]
  <2>1. e = [n \in 0 .. N |-> e[n]]
    OBVIOUS
  <2>2. ASSUME NEW n \in 0 .. N, n <= 0 PROVE e[n] = ScanStep(e, text, n)
    BY <2>2 DEF ScanStep
  <2> HIDE DEF e
  <2> QED
    BY <2>1, <2>2
<1>3. ASSUME NEW m \in T, m < N PROVE m + 1 \in T
  <2>1. PICK f : Good(f, m)
    BY <1>3
  <2> DEFINE h == [n \in 0 .. N |-> IF n <= m THEN f[n] ELSE ScanStep(f, text, n)]
  <2>2. h = [n \in 0 .. N |-> h[n]]
    OBVIOUS
  <2>3. ASSUME NEW n \in 0 .. N, n <= m + 1 PROVE h[n] = ScanStep(h, text, n)
    <3>1. h[n] = ScanStep(f, text, n)
      BY <2>1
    <3>2. ASSUME n # 0 PROVE h[n - 1] = f[n - 1]
      <4>1. n - 1 \in 0 .. N /\ n - 1 <= m
        BY <1>1, <2>3, <3>2
      <4> QED
        BY <4>1
    <3> HIDE DEF h
    <3> QED
      BY <3>1, <3>2, ScanStepAgrees
  <2> HIDE DEF h
  <2>4. Good(h, m + 1) /\ m + 1 \in Nat
    BY <2>2, <2>3
  <2> QED
    BY <2>4
<1>4. N \in T
  <2>1. \A n \in 0 .. N : n \in T
    BY ONLY <1>1, <1>2, <1>3, UpToN
  <2>2. N \in 0 .. N
    BY <1>1
  <2> QED
    BY <2>1, <2>2
<1>5. PICK f : Good(f, N)
  BY <1>4
<1>6. f = [n \in 0 .. N |-> f[n]] /\ \A n \in 0 .. N : f[n] = ScanStep(f, text, n)
  BY <1>1, <1>5
<1>7. f = [n \in 0 .. N |-> ScanStep(f, text, n)]
  BY <1>6
<1>8. P = [n \in 0 .. N |-> ScanStep(P, text, n)]
  BY ONLY <1>7, Zenon
<1>9. Scanned(text) = P[N]
  BY Zenon DEF Scanned, ScanStep
<1> HIDE DEF P
<1>10. \A n \in 0 .. N : P[n] = ScanStep(P, text, n)
  BY ONLY <1>8, Zenon
<1> QED
  BY <1>9, <1>10

(* The buffer the scan leaves is as long as the text, and no line ends in  *)
(* it.                                                                     *)
ScanLeaves(C, s, n) == s \in ScanState(C) /\ Len(s.buf) = n /\ \A i \in 1 .. n : s.buf[i] # "nl"

LEMMA ScanCharLeaves ==
  ASSUME NEW C, Nul \in C, NEW n \in Nat, NEW s, ScanLeaves(C, s, n), NEW c \in C
  PROVE  ScanLeaves(C, ScanChar(s, c), n + 1)
<1>1. s \in ScanState(C) /\ s.buf \in Seq(C) /\ Len(s.buf) = n /\ \A i \in 1 .. n : s.buf[i] # "nl"
  BY DEF ScanLeaves, ScanState
<1>2. PICK e \in {c, Nul} : ScanChar(s, c).buf = Append(s.buf, e) /\ (c = "nl" => e = Nul)
  BY <1>1, ScanCharTypes
<1>3. e \in C /\ e # "nl"
  BY <1>2 DEF Nul
<1>4. Len(Append(s.buf, e)) = n + 1 /\ \A i \in 1 .. n + 1 : Append(s.buf, e)[i] # "nl"
  BY <1>1, <1>3
<1>5. ScanChar(s, c) \in ScanState(C)
  BY <1>1, ScanCharTypes
<1> QED
  BY <1>2, <1>4, <1>5 DEF ScanLeaves

LEMMA ScanStarts == ASSUME NEW C PROVE ScanLeaves(C, Scan, 0)
BY DEF ScanLeaves, ScanState, Scan

LEMMA StepsLeave ==
  ASSUME NEW C, Nul \in C, NEW text \in Seq(C), NEW f,
         \A n \in 0 .. Len(text) : f[n] = ScanStep(f, text, n)
  PROVE  \A n \in 0 .. Len(text) : ScanLeaves(C, f[n], n)
<1> DEFINE T == {n \in Nat : n <= Len(text) => ScanLeaves(C, f[n], n)}
<1>1. Len(text) \in Nat /\ T \in SUBSET Nat
  BY LenProperties
<1>2. 0 \in T
  <2>1. 0 \in 0 .. Len(text)
    BY <1>1
  <2>2. f[0] = Scan
    BY <2>1 DEF ScanStep
  <2> QED
    BY <2>2, ScanStarts
<1>3. ASSUME NEW n \in T, n < Len(text) PROVE n + 1 \in T
  <2>1. /\ n + 1 \in 0 .. Len(text) /\ n + 1 # 0 /\ (n + 1) - 1 = n /\ n + 1 \in 1 .. Len(text) /\ n + 1 \in Nat
        /\ n \in Nat /\ ScanLeaves(C, f[n], n)
    BY <1>1, <1>3
  <2>2. text[n + 1] \in C
    BY ONLY <2>1, ElementOfSeq, text \in Seq(C)
  <2>3. f[n + 1] = ScanChar(f[n], text[n + 1])
    BY <2>1 DEF ScanStep
  <2>4. ScanLeaves(C, f[n + 1], n + 1)
    BY <2>1, <2>2, <2>3, ScanCharLeaves
  <2> QED
    BY <2>1, <2>4
<1>4. \A n \in 0 .. Len(text) : n \in T
  BY ONLY <1>1, <1>2, <1>3, UpToN
<1> QED
  BY <1>1, <1>4

LEMMA ScannedLeaves ==
  ASSUME NEW C, Nul \in C, NEW text \in Seq(C)
  PROVE  ScanLeaves(C, Scanned(text), Len(text))
<1>1. Len(text) \in Nat /\ Len(text) \in 0 .. Len(text)
  BY LenProperties
<1>2. PICK f : (\A n \in 0 .. Len(text) : f[n] = ScanStep(f, text, n)) /\ Scanned(text) = f[Len(text)]
  BY <1>1, ScannedIs
<1>3. \A n \in 0 .. Len(text) : ScanLeaves(C, f[n], n)
  BY <1>2, StepsLeave
<1> QED
  BY <1>1, <1>2, <1>3

(* Behind a text the scan goes on from where the text left it.             *)
LEMMA ScannedOn ==
  ASSUME NEW C, Nul \in C, NEW f \in Seq(C), NEW w \in Seq(C)
  PROVE  \E h : /\ h[0] = Scanned(f) /\ h[Len(w)] = Scanned(f \o w)
                /\ \A n \in 0 .. Len(w) : h[n] \in ScanState(C)
                /\ \A n \in 1 .. Len(w) : h[n] = ScanChar(h[n - 1], w[n])
<1> DEFINE N == Len(f)
           M == Len(w)
           t == f \o w
<1>1. N \in Nat /\ M \in Nat /\ N \in 0 .. N
  BY LenProperties
<1>2. t \in Seq(C) /\ Len(t) = N + M /\ \A i \in 1 .. Len(t) : t[i] = IF i <= N THEN f[i] ELSE w[i - N]
  BY ConcatProperties
<1> HIDE DEF t
<1>3. PICK a : (\A n \in 0 .. N : a[n] = ScanStep(a, f, n)) /\ Scanned(f) = a[N]
  BY <1>1, ScannedIs
<1>4. PICK b : (\A n \in 0 .. N + M : b[n] = ScanStep(b, t, n)) /\ Scanned(t) = b[N + M]
  <2>1. Len(t) \in Nat
    BY <1>1, <1>2
  <2> QED
    BY <1>2, <2>1, ScannedIs
<1>5. \A n \in 0 .. N : b[n] = a[n]
  <2> DEFINE T == {n \in Nat : n <= N => b[n] = a[n]}
  <2>1. T \in SUBSET Nat
    OBVIOUS
  <2>2. 0 \in T
    <3>1. 0 \in 0 .. N /\ 0 \in 0 .. N + M
      BY <1>1
    <3>2. a[0] = Scan /\ b[0] = Scan
      BY <1>3, <1>4, <3>1 DEF ScanStep
    <3> QED
      BY <3>2
  <2>3. ASSUME NEW n \in T, n < N PROVE n + 1 \in T
    <3>1. /\ n + 1 \in 0 .. N /\ n + 1 \in 0 .. N + M /\ n + 1 \in 1 .. Len(t) /\ n + 1 # 0
          /\ (n + 1) - 1 = n /\ b[n] = a[n] /\ n + 1 <= N /\ n + 1 \in Nat
      BY <1>1, <1>2, <2>3
    <3>2. t[n + 1] = f[n + 1]
      BY <1>2, <3>1
    <3>3. a[n + 1] = ScanChar(a[n], f[n + 1]) /\ b[n + 1] = ScanChar(b[n], t[n + 1])
      BY <1>3, <1>4, <3>1 DEF ScanStep
    <3> QED
      BY <3>1, <3>2, <3>3
  <2>4. \A n \in 0 .. N : n \in T
    BY ONLY <1>1, <2>1, <2>2, <2>3, UpToN
  <2> QED
    BY <1>1, <2>4
<1>6. \A n \in 0 .. N + M : b[n] \in ScanState(C)
  <2>1. \A n \in 0 .. Len(t) : b[n] = ScanStep(b, t, n)
    BY <1>2, <1>4
  <2>2. \A n \in 0 .. Len(t) : ScanLeaves(C, b[n], n)
    BY <1>2, <2>1, StepsLeave
  <2> QED
    BY <1>2, <2>2 DEF ScanLeaves
<1> DEFINE h == [n \in 0 .. M |-> b[N + n]]
<1>7. h[0] = Scanned(f) /\ h[M] = Scanned(t)
  BY <1>1, <1>3, <1>4, <1>5
<1>8. \A n \in 0 .. M : h[n] \in ScanState(C)
  BY <1>1, <1>6
<1>9. ASSUME NEW n \in 1 .. M PROVE h[n] = ScanChar(h[n - 1], w[n])
  <2>1. PICK m : m = N + n
    OBVIOUS
  <2>2. /\ m \in 0 .. N + M /\ m \in 1 .. Len(t) /\ m # 0 /\ m - 1 = N + (n - 1) /\ ~(m <= N) /\ m - N = n
        /\ n - 1 \in 0 .. M /\ n \in 0 .. M
    BY <1>1, <1>2, <2>1
  <2>3. b[m] = ScanChar(b[m - 1], t[m]) /\ t[m] = w[n]
    BY <1>2, <1>4, <2>2 DEF ScanStep
  <2>4. h[n] = b[m] /\ h[n - 1] = b[m - 1]
    BY <2>1, <2>2
  <2> QED
    BY ONLY <2>3, <2>4
<1> HIDE DEF h
<1> QED
  BY <1>7, <1>8, <1>9 DEF t

(* The words that follow the last line of a text: as none of them ends,    *)
(* they are one item, and the items before stay as they are.               *)
LEMMA LeftoverWords ==
  ASSUME NEW C, Nul \in C, NEW f \in Seq(C), f # <<>>, f[Len(f)] = "nl",
         NEW w \in Seq(C), \A i \in 1 .. Len(w) : Plain(w[i])
  PROVE  OneMore(Scanned(f), Scanned(f \o w))
<1> DEFINE N == Len(f)
           M == Len(w)
           s == Scanned(f)
<1>1. N \in Nat /\ N # 0 /\ N \in 0 .. N /\ N - 1 \in 0 .. N /\ N \in 1 .. N /\ M \in Nat /\ M \in 0 .. M
  BY LenProperties, EmptySeq
<1>2. OneMore(s, s) /\ s \in ScanState(C)
  <2>1. PICK a : (\A n \in 0 .. N : a[n] = ScanStep(a, f, n)) /\ s = a[N]
    BY <1>1, ScannedIs
  <2>2. a[N - 1] \in ScanState(C) /\ s \in ScanState(C)
    BY <1>1, <2>1, StepsLeave DEF ScanLeaves
  <2>3. s = ScanChar(a[N - 1], "nl")
    BY <1>1, <2>1 DEF ScanStep
  <2>4. s.open = {} /\ ~s.comment /\ ~s.inString /\ ~s.inItem
    BY <2>2, <2>3, AtLineEnd
  <2> QED
    BY <2>2, <2>4 DEF OneMore
<1> HIDE DEF s
<1>3. PICK h : /\ h[0] = s /\ h[M] = Scanned(f \o w)
               /\ \A n \in 0 .. M : h[n] \in ScanState(C)
               /\ \A n \in 1 .. M : h[n] = ScanChar(h[n - 1], w[n])
  BY ScannedOn DEF s
<1> DEFINE T == {n \in Nat : n <= M => OneMore(s, h[n])}
<1>4. T \in SUBSET Nat /\ 0 \in T
  BY <1>2, <1>3
<1>5. ASSUME NEW n \in T, n < M PROVE n + 1 \in T
  <2>1. PICK m : m = n + 1
    OBVIOUS
  <2>2. m \in 1 .. M /\ m - 1 = n /\ n \in 0 .. M /\ m \in Nat /\ OneMore(s, h[n])
    BY <1>1, <1>5, <2>1
  <2>3. h[m] = ScanChar(h[n], w[m]) /\ h[n] \in ScanState(C)
    BY <1>3, <2>2
  <2>4. w[m] \in C /\ Plain(w[m])
    BY <2>2, ElementOfSeq
  <2>5. OneMore(s, h[m])
    BY <1>2, <2>2, <2>3, <2>4, PlainChar
  <2> QED
    BY <2>1, <2>2, <2>5
<1>6. \A n \in 0 .. M : n \in T
  BY ONLY <1>1, <1>4, <1>5, UpToN
<1>7. OneMore(s, h[M])
  BY <1>1, <1>6
<1> QED
  BY <1>3, <1>7 DEF s
-----------------------------------------------------------------------------
(* Assigned() item by item. *)
NoneAssigned == [params |-> NoParams, last |-> Unset, failed |-> FALSE]
AssignStep(f, items, n) == IF n = 0 THEN NoneAssigned ELSE Assign(items, f[n - 1], Triples(items)[n])

LEMMA AssignStepAgrees ==
  ASSUME NEW f, NEW g, NEW items, NEW n, n # 0 => f[n - 1] = g[n - 1]
  PROVE  AssignStep(f, items, n) = AssignStep(g, items, n)
BY DEF AssignStep

LEMMA AssignedIs ==
  ASSUME NEW items, Len(Triples(items)) \in Nat
  PROVE  \E f : /\ \A n \in 0 .. Len(Triples(items)) : f[n] = AssignStep(f, items, n)
                /\ Assigned(items) = f[Len(Triples(items))]
<1> DEFINE N == Len(Triples(items))
           Good(f, m) == f = [n \in 0 .. N |-> f[n]] /\ \A n \in 0 .. N : n <= m => f[n] = AssignStep(f, items, n)
           T == {m \in Nat : \E f : Good(f, m)}
           P == CHOOSE f : f = [n \in 0 .. N |-> AssignStep(f, items, n)]
<1>1. N \in Nat /\ T \in SUBSET Nat
  OBVIOUS
<1>2. 0 \in T
  <2> DEFINE e == [n \in 0 .. N |-> NoneAssigned]
  <2>1. e = [n \in 0 .. N |-> e[n]]
    OBVIOUS
  <2>2. ASSUME NEW n \in 0 .. N, n <= 0 PROVE e[n] = AssignStep(e, items, n)
    BY <2>2 DEF AssignStep
  <2> HIDE DEF e
  <2> QED
    BY <2>1, <2>2
<1>3. ASSUME NEW m \in T, m < N PROVE m + 1 \in T
  <2>1. PICK f : Good(f, m)
    BY <1>3
  <2> DEFINE h == [n \in 0 .. N |-> IF n <= m THEN f[n] ELSE AssignStep(f, items, n)]
  <2>2. h = [n \in 0 .. N |-> h[n]]
    OBVIOUS
  <2>3. ASSUME NEW n \in 0 .. N, n <= m + 1 PROVE h[n] = AssignStep(h, items, n)
    <3>1. h[n] = AssignStep(f, items, n)
      BY <2>1
    <3>2. ASSUME n # 0 PROVE h[n - 1] = f[n - 1]
      <4>1. n - 1 \in 0 .. N /\ n - 1 <= m
        BY <1>1, <2>3, <3>2
      <4> QED
        BY <4>1
    <3> HIDE DEF h
    <3> QED
      BY <3>1, <3>2, AssignStepAgrees
  <2> HIDE DEF h
  <2>4. Good(h, m + 1) /\ m + 1 \in Nat
    BY <2>2, <2>3
  <2> QED
    BY <2>4
<1>4. N \in T
  <2>1. \A n \in 0 .. N : n \in T
    BY ONLY <1>1, <1>2, <1>3, UpToN
  <2>2. N \in 0 .. N
    BY <1>1
  <2> QED
    BY <2>1, <2>2
<1>5. PICK f : Good(f, N)
  BY <1>4
<1>6. f = [n \in 0 .. N |-> f[n]] /\ \A n \in 0 .. N : f[n] = AssignStep(f, items, n)
  BY <1>1, <1>5
<1>7. f = [n \in 0 .. N |-> AssignStep(f, items, n)]
  BY <1>6
<1>8. P = [n \in 0 .. N |-> AssignStep(P, items, n)]
  BY ONLY <1>7, Zenon
<1>9. Assigned(items) = P[N]
  BY Zenon DEF Assigned, AssignStep, NoneAssigned
<1> HIDE DEF P
<1>10. \A n \in 0 .. N : P[n] = AssignStep(P, items, n)
  BY ONLY <1>8, Zenon
<1> QED
  BY <1>9, <1>10

LEMMA TriplesAre ==
  ASSUME NEW S, NEW items \in Seq(S)
  PROVE  /\ Len(Triples(items)) = (Len(items) + 1) \div 3
         /\ Len(Triples(items)) \in Nat
         /\ \A k \in 1 .. Len(Triples(items)) : Triples(items)[k] = 3 * (k - 1)
<1> DEFINE m == (Len(items) + 1) \div 3
           t == [k \in 1 .. m |-> 3 * (k - 1)]
<1>1. Len(items) \in Nat
  BY LenProperties
<1>2. m \in Nat
  BY <1>1
<1> HIDE DEF m
<1>3. t \in [1 .. m -> Nat]
  BY <1>2
<1>4. t \in Seq(Nat)
  BY ONLY <1>2, <1>3, SeqDef
<1>5. DOMAIN t = 1 .. m /\ DOMAIN t = 1 .. Len(t) /\ Len(t) \in Nat
  BY ONLY <1>4, LenProperties
<1>6. Len(t) = m
  BY ONLY <1>2, <1>5
<1>7. Triples(items) = t
  BY DEF Triples, m
<1>8. \A k \in 1 .. m : t[k] = 3 * (k - 1)
  OBVIOUS
<1> QED
  BY ONLY <1>2, <1>6, <1>7, <1>8 DEF m

(* Items in threes are assigned alike in front of whatever follows. *)
LEMMA SameSoFar ==
  ASSUME NEW S, NEW a \in Seq(S), NEW b \in Seq(S), NEW N \in Nat, Len(a) = 3 * N,
         3 * N <= Len(b), \A i \in 1 .. Len(a) : b[i] = a[i],
         NEW f, \A n \in 0 .. N : f[n] = AssignStep(f, a, n),
         NEW g, \A n \in 0 .. N : g[n] = AssignStep(g, b, n)
  PROVE  f[N] = g[N]
<1>1. /\ Len(b) \in Nat /\ N <= (Len(a) + 1) \div 3 /\ N <= (Len(b) + 1) \div 3
  BY LenProperties
<1>2. \A k \in 1 .. N : Triples(a)[k] = 3 * (k - 1) /\ Triples(b)[k] = 3 * (k - 1)
  BY <1>1, TriplesAre
<1> DEFINE T == {n \in Nat : n <= N => f[n] = g[n]}
<1>3. T \in SUBSET Nat
  OBVIOUS
<1>4. 0 \in T
  <2>1. 0 \in 0 .. N
    OBVIOUS
  <2>2. f[0] = NoneAssigned /\ g[0] = NoneAssigned
    BY <2>1 DEF AssignStep
  <2> QED
    BY <2>2
<1>5. ASSUME NEW n \in T, n < N PROVE n + 1 \in T
  <2>1. /\ n + 1 \in 0 .. N /\ n + 1 \in 1 .. N /\ n + 1 # 0 /\ (n + 1) - 1 = n /\ f[n] = g[n] /\ n + 1 \in Nat /\ n \in Nat
    BY <1>5
  <2>2. f[n + 1] = Assign(a, f[n], Triples(a)[n + 1]) /\ g[n + 1] = Assign(b, g[n], Triples(b)[n + 1])
    BY <2>1 DEF AssignStep
  <2>3. Triples(a)[n + 1] = 3 * n /\ Triples(b)[n + 1] = 3 * n
    BY <1>2, <2>1
  <2>4. /\ 3 * n + 1 \in 1 .. Len(a) /\ 3 * n + 2 \in 1 .. Len(a) /\ 3 * n + 3 \in 1 .. Len(a)
        /\ ~(3 * n + 3 > Len(a)) /\ ~(3 * n + 3 > Len(b))
    BY <1>1, <1>5, <2>1
  <2>5. b[3 * n + 1] = a[3 * n + 1] /\ b[3 * n + 2] = a[3 * n + 2] /\ b[3 * n + 3] = a[3 * n + 3]
    BY <2>4
  <2>6. PICK i : i = 3 * n
    OBVIOUS
  <2>7. /\ ~(i + 3 > Len(a)) /\ ~(i + 3 > Len(b))
        /\ b[i + 1] = a[i + 1] /\ b[i + 2] = a[i + 2] /\ b[i + 3] = a[i + 3]
    BY ONLY <2>4, <2>5, <2>6
  <2>8. Assign(b, f[n], i) = Assign(a, f[n], i)
    BY ONLY <2>7, Zenon DEF Assign
  <2>9. f[n + 1] = g[n + 1]
    BY ONLY <2>1, <2>2, <2>3, <2>6, <2>8
  <2> QED
    BY <2>1, <2>9
<1>6. \A n \in 0 .. N : n \in T
  BY ONLY N \in Nat, <1>3, <1>4, <1>5, UpToN
<1>7. N \in 0 .. N /\ N <= N
  OBVIOUS
<1> QED
  BY <1>6, <1>7

(* An item more changes nothing, if those before come in threes. *)
LEMMA SameAssigned ==
  ASSUME NEW S, NEW a \in Seq(S), NEW b \in Seq(S), Len(a) % 3 = 0,
         Len(b) \in {Len(a), Len(a) + 1}, \A i \in 1 .. Len(a) : b[i] = a[i]
  PROVE  Assigned(b) = Assigned(a)
<1>1. Len(a) \in Nat
  BY LenProperties
<1>2. PICK N \in Nat : Len(a) = 3 * N
  BY <1>1
<1>3. (Len(a) + 1) \div 3 = N /\ (Len(b) + 1) \div 3 = N /\ 3 * N <= Len(b)
  BY <1>2
<1>4. Len(Triples(a)) = N /\ Len(Triples(b)) = N
  BY <1>3, TriplesAre
<1>5. PICK f : (\A n \in 0 .. N : f[n] = AssignStep(f, a, n)) /\ Assigned(a) = f[N]
  BY <1>4, AssignedIs
<1>6. PICK g : (\A n \in 0 .. N : g[n] = AssignStep(g, b, n)) /\ Assigned(b) = g[N]
  BY <1>4, AssignedIs
<1>7. f[N] = g[N]
  <2>1. a \in Seq(S) /\ b \in Seq(S) /\ \A i \in 1 .. Len(a) : b[i] = a[i]
    OBVIOUS
  <2> QED
    BY ONLY <1>2, <1>3, <1>5, <1>6, <2>1, SameSoFar
<1> QED
  BY <1>5, <1>6, <1>7
-----------------------------------------------------------------------------
(* Between the words of a line: the scan has found the items J, and is in  *)
(* none (but perhaps in a comment); or it is in the last of them.          *)
Between(C, s, J) == s \in ScanState(C) /\ s.items = J /\ s.open = {} /\ ~s.inItem /\ ~s.inString
Within(C, s, J) == /\ s \in ScanState(C) /\ s.items = J /\ s.open = {Len(J)} /\ s.inItem
                   /\ ~s.inString /\ ~s.comment
Clean(C, s, J) == Between(C, s, J) /\ ~s.comment

LEMMA KeepNone ==
  ASSUME NEW C, NEW J \in Seq(Seq(C)), NEW s, Between(C, s, J), NEW c \in C
  PROVE  Between(C, Keep(s, c), J) /\ Keep(s, c).comment = s.comment
<1>1. s \in ScanState(C) /\ s.items = J /\ s.open = {} /\ ~s.inItem /\ ~s.inString
  BY DEF Between
<1>2. /\ Keep(s, c) \in ScanState(C) /\ Keep(s, c).open = {} /\ ~Keep(s, c).inItem /\ ~Keep(s, c).inString
      /\ Keep(s, c).comment = s.comment /\ Len(Keep(s, c).items) = Len(J)
  BY <1>1, KeepIs
<1>3. Keep(s, c).items = J
  <2>1. ASSUME NEW i \in 1 .. Len(J) PROVE Keep(s, c).items[i] = J[i]
    BY <1>1, KeepOthers
  <2> QED
    BY <1>2, <2>1, SeqEqual DEF ScanState
<1> QED
  BY <1>2, <1>3 DEF Between

LEMMA KeepLast ==
  ASSUME NEW C, NEW J \in Seq(Seq(C)), NEW x \in Seq(C), NEW s, NEW c \in C,
         Within(C, s, Append(J, x))
  PROVE  Within(C, Keep(s, c), Append(J, Append(x, c)))
<1> DEFINE A == Append(J, x)
           B == Append(J, Append(x, c))
<1>1. Len(J) \in Nat /\ Append(x, c) \in Seq(C)
  BY LenProperties, AppendProperties
<1>2. /\ A \in Seq(Seq(C)) /\ Len(A) = Len(J) + 1 /\ A[Len(J) + 1] = x /\ \A i \in 1 .. Len(J) : A[i] = J[i]
      /\ B \in Seq(Seq(C)) /\ Len(B) = Len(J) + 1 /\ B[Len(J) + 1] = Append(x, c) /\ \A i \in 1 .. Len(J) : B[i] = J[i]
  BY <1>1, AppendProperties
<1> HIDE DEF A, B
<1>3. s \in ScanState(C) /\ s.items = A /\ s.open = {Len(J) + 1} /\ s.inItem /\ ~s.inString /\ ~s.comment
  BY <1>2 DEF Within, A
<1>4. /\ Keep(s, c) \in ScanState(C) /\ Keep(s, c).open = {Len(J) + 1} /\ Keep(s, c).inItem
      /\ ~Keep(s, c).inString /\ ~Keep(s, c).comment /\ Len(Keep(s, c).items) = Len(J) + 1
      /\ Keep(s, c).items \in Seq(Seq(C))
  BY <1>2, <1>3, KeepIs DEF ScanState
<1>5. Keep(s, c).items = [i \in DOMAIN A |-> IF i \in s.open THEN Append(A[i], c) ELSE A[i]]
  BY <1>3 DEF Keep, ScanState
<1>6. \A i \in 1 .. Len(J) + 1 : Keep(s, c).items[i] = B[i]
  <2>1. DOMAIN A = 1 .. Len(J) + 1
    BY <1>2, LenProperties
  <2>2. \A i \in 1 .. Len(J) + 1 : i # Len(J) + 1 => i \in 1 .. Len(J)
    BY <1>1
  <2>3. \A i \in 1 .. Len(J) + 1 : Keep(s, c).items[i] = IF i = Len(J) + 1 THEN Append(A[i], c) ELSE A[i]
    BY <1>3, <1>5, <2>1
  <2> QED
    BY <1>2, <2>2, <2>3
<1>7. Keep(s, c).items = B
  BY <1>2, <1>4, <1>6, SeqEqual
<1> QED
  BY <1>2, <1>4, <1>7 DEF Within, B

(* A space ends a word. *)
LEMMA ScanSpace ==
  ASSUME NEW C, Nul \in C, NEW J, NEW s, Clean(C, s, J) \/ Within(C, s, J)
  PROVE  Clean(C, ScanChar(s, "sp"), J)
<1>1. s \in ScanState(C) /\ s.items = J /\ ~s.inString /\ ~s.comment
  BY DEF Clean, Between, Within
<1>2. ScanChar(s, "sp") = [Cut(s) EXCEPT !.inItem = FALSE]
  BY <1>1 DEF ScanChar
<1>3. ScanChar(s, "sp") = [s EXCEPT !.buf = Append(s.buf, Nul), !.open = {}, !.inItem = FALSE]
  BY <1>1, <1>2 DEF Cut, ScanState
<1>4. Append(s.buf, Nul) \in Seq(C)
  BY <1>1, AppendProperties DEF ScanState
<1> QED
  BY <1>1, <1>3, <1>4 DEF Clean, Between, ScanState

(* The number sign begins a comment. *)
LEMMA ScanHash ==
  ASSUME NEW C, Nul \in C, NEW J, NEW s, Clean(C, s, J) \/ Within(C, s, J)
  PROVE  Between(C, ScanChar(s, "#"), J) /\ ScanChar(s, "#").comment
<1>1. s \in ScanState(C) /\ s.items = J /\ ~s.inString /\ ~s.comment
  BY DEF Clean, Between, Within
<1>2. ScanChar(s, "#") = [Cut(s) EXCEPT !.comment = TRUE, !.inString = FALSE, !.inItem = FALSE]
  BY <1>1 DEF ScanChar
<1>3. ScanChar(s, "#") = [s EXCEPT !.buf = Append(s.buf, Nul), !.open = {},
                                   !.comment = TRUE, !.inString = FALSE, !.inItem = FALSE]
  BY <1>1, <1>2 DEF Cut, ScanState
<1>4. Append(s.buf, Nul) \in Seq(C)
  BY <1>1, AppendProperties DEF ScanState
<1> QED
  BY <1>1, <1>3, <1>4 DEF Between, ScanState

(* The newline ends everything. *)
LEMMA ScanNewline ==
  ASSUME NEW C, Nul \in C, NEW J, NEW s \in ScanState(C), s.items = J
  PROVE  Clean(C, ScanChar(s, "nl"), J)
<1>2. ScanChar(s, "nl") = [Cut(s) EXCEPT !.comment = FALSE, !.inString = FALSE, !.inItem = FALSE]
  BY DEF ScanChar
<1>3. ScanChar(s, "nl") = [s EXCEPT !.buf = Append(s.buf, Nul), !.open = {},
                                    !.comment = FALSE, !.inString = FALSE, !.inItem = FALSE]
  BY <1>2 DEF Cut, ScanState
<1>4. Append(s.buf, Nul) \in Seq(C)
  BY AppendProperties DEF ScanState
<1> QED
  BY <1>3, <1>4 DEF Clean, Between, ScanState

(* Within a comment, and a carriage return between words. *)
LEMMA ScanNothing ==
  ASSUME NEW C, NEW J \in Seq(Seq(C)), NEW s, Between(C, s, J), NEW c \in C,
         c # "nl", s.comment \/ c = "cr"
  PROVE  Between(C, ScanChar(s, c), J) /\ ScanChar(s, c).comment = s.comment
<1>1. ScanChar(s, c) = Keep(s, c)
  BY DEF ScanChar
<1> QED
  BY <1>1, KeepNone

(* What a word consists of. *)
InWord(c) == c \notin {"sp", "quote", "#", "nl", "cr"}

(* The first character of a word. *)
LEMMA ScanBegins ==
  ASSUME NEW C, NEW J \in Seq(Seq(C)), NEW s, Clean(C, s, J), NEW c \in C, InWord(c)
  PROVE  Within(C, ScanChar(s, c), Append(J, <<c>>))
<1>1. s \in ScanState(C) /\ s.items = J /\ s.open = {} /\ ~s.inItem /\ ~s.inString /\ ~s.comment
  BY DEF Clean, Between
<1>2. ScanChar(s, c) = Keep(NewItem(s), c)
  BY <1>1 DEF ScanChar, InWord
<1>3. Len(J) \in Nat /\ <<>> \in Seq(C) /\ Append(<<>>, c) = <<c>>
  BY LenProperties
<1>4. Len(Append(J, <<>>)) = Len(J) + 1
  BY <1>3, AppendProperties
<1>5. Within(C, NewItem(s), Append(J, <<>>))
  BY <1>1, <1>3, <1>4, NewItemIs DEF Within
<1>6. Within(C, Keep(NewItem(s), c), Append(J, Append(<<>>, c)))
  BY <1>3, <1>5, KeepLast
<1> QED
  BY <1>2, <1>3, <1>6

(* One more. *)
LEMMA ScanMore ==
  ASSUME NEW C, NEW J \in Seq(Seq(C)), NEW x \in Seq(C), NEW s, Within(C, s, Append(J, x)),
         NEW c \in C, InWord(c) \/ c = "cr"
  PROVE  Within(C, ScanChar(s, c), Append(J, Append(x, c)))
<1>1. s.inItem /\ ~s.inString /\ ~s.comment
  BY DEF Within
<1>2. ScanChar(s, c) = Keep(s, c)
  BY <1>1 DEF ScanChar, InWord
<1> QED
  BY <1>2, KeepLast
-----------------------------------------------------------------------------
(* A text of the scan, from one of its characters to another. *)
Steps(C, h, f) == /\ \A n \in 0 .. Len(f) : h[n] \in ScanState(C)
                  /\ \A n \in 1 .. Len(f) : h[n] = ScanChar(h[n - 1], f[n])

(* What holds at m, and from one number to the next, holds up to n. *)
LEMMA FromTo ==
  ASSUME NEW m \in Nat, NEW n \in Nat, m <= n, NEW T \in SUBSET Nat, m \in T,
         ASSUME NEW k \in T, m <= k, k < n PROVE k + 1 \in T
  PROVE  \A k \in m .. n : k \in T
<1> DEFINE U == {k \in Nat : m + k \in T}
<1>1. n - m \in Nat /\ U \in SUBSET Nat /\ 0 \in U
  OBVIOUS
<1>2. ASSUME NEW k \in U, k < n - m PROVE k + 1 \in U
  <2>1. PICK j \in T : j = m + k
    OBVIOUS
  <2>2. m <= j /\ j < n /\ j + 1 = m + (k + 1) /\ k + 1 \in Nat
    BY <1>2, <2>1
  <2>3. j + 1 \in T
    BY <2>2
  <2> QED
    BY <2>2, <2>3
<1>3. \A k \in 0 .. n - m : k \in U
  BY ONLY <1>1, <1>2, UpToN
<1>4. ASSUME NEW k \in m .. n PROVE k \in T
  <2>1. PICK j \in 0 .. n - m : m + j = k
    <3>1. k - m \in 0 .. n - m /\ m + (k - m) = k
      OBVIOUS
    <3> QED
      BY <3>1
  <2>2. j \in U
    BY <1>3, <2>1
  <2> QED
    BY <2>1, <2>2
<1> QED
  BY <1>4

(* Spaces. *)
LEMMA Spaces ==
  ASSUME NEW C, Nul \in C, NEW f \in Seq(C), NEW h, Steps(C, h, f), NEW J,
         NEW m \in 0 .. Len(f), NEW n \in 0 .. Len(f), m <= n,
         Clean(C, h[m], J) \/ (Within(C, h[m], J) /\ m < n),
         \A i \in m + 1 .. n : f[i] = "sp"
  PROVE  Clean(C, h[n], J)
<1> DEFINE Good(k) == Clean(C, h[k], J) \/ (Within(C, h[k], J) /\ k = m)
           T == {k \in Nat : k \in m .. n => Good(k)}
<1>1. m \in Nat /\ n \in Nat /\ Len(f) \in Nat
  BY LenProperties
<1>2. T \in SUBSET Nat /\ m \in T
  BY <1>1
<1>3. ASSUME NEW k \in T, m <= k, k < n PROVE k + 1 \in T
  <2>1. PICK j : j = k + 1
    OBVIOUS
  <2>2. j \in 1 .. Len(f) /\ j - 1 = k /\ k \in m .. n /\ j \in m + 1 .. n /\ j \in Nat
    BY <1>1, <1>3, <2>1
  <2>3. h[j] = ScanChar(h[k], f[j]) /\ f[j] = "sp"
    BY <2>2 DEF Steps
  <2>4. Clean(C, h[k], J) \/ Within(C, h[k], J)
    BY <1>3, <2>2
  <2>5. Clean(C, h[j], J)
    BY <2>3, <2>4, ScanSpace
  <2>6. Good(j)
    BY ONLY <2>5
  <2> HIDE DEF Good
  <2> QED
    BY ONLY <2>1, <2>2, <2>6
<1>4. n \in T /\ n \in m .. n
  <2>1. \A k \in m .. n : k \in T
    BY ONLY <1>1, <1>2, <1>3, m <= n, FromTo
  <2> QED
    BY <1>1, <2>1
<1> QED
  BY <1>4

(* A word of one character, with spaces in front of it. *)
LEMMA NextWord ==
  ASSUME NEW C, Nul \in C, NEW f \in Seq(C), NEW h, Steps(C, h, f), NEW J \in Seq(Seq(C)),
         NEW m \in 0 .. Len(f), NEW n \in 1 .. Len(f), m < n,
         Clean(C, h[m], J) \/ (Within(C, h[m], J) /\ m + 1 < n),
         \A i \in m + 1 .. n - 1 : f[i] = "sp", InWord(f[n])
  PROVE  /\ Within(C, h[n], Append(J, <<f[n]>>)) /\ Append(J, <<f[n]>>) \in Seq(Seq(C))
         /\ Len(Append(J, <<f[n]>>)) = Len(J) + 1
<1>1. /\ m \in Nat /\ n \in Nat /\ n - 1 \in 0 .. Len(f) /\ m <= n - 1 /\ f[n] \in C
      /\ (m + 1 < n => m < n - 1)
  BY ElementOfSeq, LenProperties
<1>2. Clean(C, h[n - 1], J)
  BY <1>1, Spaces
<1>3. h[n] = ScanChar(h[n - 1], f[n])
  BY DEF Steps
<1>4. Within(C, h[n], Append(J, <<f[n]>>))
  BY <1>1, <1>2, <1>3, ScanBegins
<1> QED
  BY <1>1, <1>4, AppendProperties

(* A word. *)
LEMMA WholeWord ==
  ASSUME NEW C, Nul \in C, NEW f \in Seq(C), NEW h, Steps(C, h, f), NEW J \in Seq(Seq(C)),
         NEW m \in 1 .. Len(f), NEW n \in 1 .. Len(f), m <= n,
         Within(C, h[m], Append(J, <<f[m]>>)),
         \A i \in m .. n : InWord(f[i])
  PROVE  Within(C, h[n], Append(J, SubSeq(f, m, n)))
<1> DEFINE T == {k \in Nat : k \in m .. n => Within(C, h[k], Append(J, SubSeq(f, m, k)))}
<1>1. m \in Nat /\ n \in Nat /\ Len(f) \in Nat
  BY LenProperties
<1>2. T \in SUBSET Nat /\ m \in T
  <2>1. SubSeq(f, m, m) \in Seq(C) /\ Len(SubSeq(f, m, m)) = 1 /\ SubSeq(f, m, m)[1] = f[m]
    BY <1>1, SubSeqProperties
  <2>2. <<f[m]>> \in Seq(C) /\ Len(<<f[m]>>) = 1 /\ <<f[m]>>[1] = f[m]
    BY <1>1, ElementOfSeq
  <2>3. SubSeq(f, m, m) = <<f[m]>>
    <3>1. \A i \in 1 .. 1 : SubSeq(f, m, m)[i] = <<f[m]>>[i]
      BY ONLY <2>1, <2>2
    <3> QED
      BY ONLY <2>1, <2>2, <3>1, SeqEqual
  <2> QED
    BY <1>1, <2>3
<1>3. ASSUME NEW k \in T, m <= k, k < n PROVE k + 1 \in T
  <2>1. PICK j : j = k + 1
    OBVIOUS
  <2>2. /\ j \in 1 .. Len(f) /\ j - 1 = k /\ k \in m .. n /\ j \in m .. n /\ j \in Nat /\ k \in 1 .. Len(f)
    BY <1>1, <1>3, <2>1
  <2>3. h[j] = ScanChar(h[k], f[j]) /\ InWord(f[j]) /\ f[j] \in C
    BY <2>2, ElementOfSeq DEF Steps
  <2>4. Within(C, h[k], Append(J, SubSeq(f, m, k)))
    BY <1>3, <2>2
  <2>5. SubSeq(f, m, k) \in Seq(C) /\ SubSeq(f, m, j) = Append(SubSeq(f, m, k), f[j])
    BY <1>1, <1>3, <2>1, <2>2
  <2>6. Within(C, h[j], Append(J, Append(SubSeq(f, m, k), f[j])))
    BY <2>3, <2>4, <2>5, ScanMore
  <2> QED
    BY <2>1, <2>2, <2>5, <2>6
<1>4. n \in T /\ n \in m .. n
  <2>1. \A k \in m .. n : k \in T
    BY ONLY <1>1, <1>2, <1>3, m <= n, FromTo
  <2> QED
    BY <1>1, <2>1
<1> QED
  BY <1>4

(* The rest of a line, behind its words: spaces, carriage returns and a    *)
(* comment. *)
Hash(f, k, i) == \E j \in k .. i : f[j] = "#"

LEMMA HashNext ==
  ASSUME NEW f, NEW k \in Nat, NEW i \in Nat, k <= i + 1
  PROVE  Hash(f, k, i + 1) <=> Hash(f, k, i) \/ f[i + 1] = "#"
BY DEF Hash

LEMMA RestStep ==
  ASSUME NEW C, Nul \in C, NEW J \in Seq(Seq(C)), NEW s, Between(C, s, J), NEW c \in C,
         c # "nl", s.comment \/ c \in {"sp", "cr", "#"}
  PROVE  Between(C, ScanChar(s, c), J) /\ (ScanChar(s, c).comment <=> s.comment \/ c = "#")
<1>1. CASE s.comment
  BY <1>1, ScanNothing
<1>2. CASE ~s.comment /\ c = "sp"
  BY <1>2, ScanSpace DEF Clean
<1>3. CASE ~s.comment /\ c = "cr"
  BY <1>3, ScanNothing
<1>4. CASE ~s.comment /\ c = "#"
  BY <1>4, ScanHash DEF Clean
<1> QED
  BY <1>1, <1>2, <1>3, <1>4

(* An item that is read as the number v. *)
Reads(x, v) == /\ Len(v) <= Len(x) /\ \A i \in 1 .. Len(v) : x[i] = v[i]
               /\ Len(v) < Len(x) => x[Len(v) + 1] = "cr"

LEMMA ReadsMore ==
  ASSUME NEW C, NEW v \in Seq(C), NEW x \in Seq(C), "cr" \in C, Reads(x, v)
  PROVE  Reads(Append(x, "cr"), v) /\ Append(x, "cr") \in Seq(C)
<1> DEFINE y == Append(x, "cr")
<1>1. /\ Len(v) \in Nat /\ Len(x) \in Nat /\ y \in Seq(C) /\ Len(y) = Len(x) + 1 /\ y[Len(x) + 1] = "cr"
      /\ \A i \in 1 .. Len(x) : y[i] = x[i]
  BY LenProperties, AppendProperties
<1> HIDE DEF y
<1>2. Len(v) <= Len(y) /\ \A i \in 1 .. Len(v) : y[i] = v[i]
  BY <1>1 DEF Reads
<1>3. Len(v) < Len(y) => y[Len(v) + 1] = "cr"
  BY <1>1 DEF Reads
<1> QED
  BY <1>1, <1>2, <1>3 DEF Reads, y

(* What the scan is at in the rest of a line. *)
InRest(C, s, J, v, hash) ==
  \E x \in Seq(C) : /\ Reads(x, v)
                    /\ (Within(C, s, Append(J, x)) /\ ~hash)
                       \/ (Between(C, s, Append(J, x)) /\ (s.comment <=> hash))

LEMMA InRestStep ==
  ASSUME NEW C, Nul \in C, NEW J \in Seq(Seq(C)), NEW v \in Seq(C), NEW s, NEW hash \in BOOLEAN,
         InRest(C, s, J, v, hash), NEW c \in C, c # "nl", hash \/ c \in {"sp", "cr", "#"}
  PROVE  InRest(C, ScanChar(s, c), J, v, hash \/ c = "#")
<1>1. PICK x \in Seq(C) : /\ Reads(x, v)
                          /\ (Within(C, s, Append(J, x)) /\ ~hash)
                             \/ (Between(C, s, Append(J, x)) /\ (s.comment <=> hash))
  BY DEF InRest
<1>2. Append(J, x) \in Seq(Seq(C))
  BY AppendProperties
<1>3. CASE Between(C, s, Append(J, x)) /\ (s.comment <=> hash)
  <2>1. /\ Between(C, ScanChar(s, c), Append(J, x))
        /\ ScanChar(s, c).comment <=> s.comment \/ c = "#"
    BY <1>2, <1>3, RestStep
  <2> QED
    BY <1>1, <1>3, <2>1 DEF InRest
<1>4. CASE Within(C, s, Append(J, x)) /\ ~hash
  <2>1. CASE c = "sp"
    BY <1>1, <1>4, <2>1, ScanSpace DEF InRest, Clean
  <2>2. CASE c = "#"
    BY <1>1, <1>4, <2>2, ScanHash DEF InRest
  <2>3. CASE c = "cr"
    <3>1. Within(C, ScanChar(s, c), Append(J, Append(x, c)))
      BY <1>4, <2>3, ScanMore
    <3>2. Reads(Append(x, c), v) /\ Append(x, c) \in Seq(C)
      BY <1>1, <2>3, ReadsMore
    <3> QED
      BY <1>4, <2>3, <3>1, <3>2 DEF InRest
  <2> QED
    BY <1>4, <2>1, <2>2, <2>3
<1> QED
  BY <1>1, <1>3, <1>4

LEMMA RestOfAssignment ==
  ASSUME NEW C, Nul \in C, NEW f \in Seq(C), NEW h, Steps(C, h, f), NEW J \in Seq(Seq(C)),
         NEW v \in Seq(C), NEW m \in 1 .. Len(f), NEW q \in 1 .. Len(f), m < q,
         EmptyFrom(f, m + 1, q), f[q] = "nl", \A i \in m + 1 .. q - 1 : f[i] # "nl",
         Within(C, h[m], Append(J, v))
  PROVE  \E x \in Seq(C) : Reads(x, v) /\ Clean(C, h[q], Append(J, x))
<1> DEFINE Good(k) == InRest(C, h[k], J, v, Hash(f, m + 1, k))
           T == {k \in Nat : k \in m .. q - 1 => Good(k)}
<1>1. /\ m \in Nat /\ q \in Nat /\ q - 1 \in Nat /\ Len(f) \in Nat /\ m <= q - 1
      /\ q - 1 \in m .. q - 1
  BY LenProperties
<1>2. T \in SUBSET Nat /\ m \in T
  <2>1. ~Hash(f, m + 1, m)
    BY <1>1 DEF Hash
  <2>2. Reads(v, v)
    BY LenProperties DEF Reads
  <2> QED
    BY <1>1, <2>1, <2>2 DEF InRest
<1>3. ASSUME NEW k \in T, m <= k, k < q - 1 PROVE k + 1 \in T
  <2>1. PICK j : j = k + 1
    OBVIOUS
  <2>2. /\ j \in 1 .. Len(f) /\ j - 1 = k /\ k \in m .. q - 1 /\ j \in m + 1 .. q - 1 /\ j \in Nat /\ k \in Nat
        /\ m + 1 <= k + 1 /\ m + 1 \in Nat
    BY <1>1, <1>3, <2>1
  <2>3. h[j] = ScanChar(h[k], f[j]) /\ f[j] # "nl" /\ f[j] \in C
    BY <2>2, ElementOfSeq DEF Steps
  <2>4. Hash(f, m + 1, j) <=> Hash(f, m + 1, k) \/ f[j] = "#"
    BY ONLY <2>1, <2>2, HashNext
  <2>5. Hash(f, m + 1, j) \/ f[j] \in {"sp", "cr"}
    BY <2>2 DEF EmptyFrom, Hash
  <2>6. Hash(f, m + 1, k) \in BOOLEAN
    BY DEF Hash
  <2>7. InRest(C, ScanChar(h[k], f[j]), J, v, Hash(f, m + 1, k) \/ f[j] = "#")
    <3>1. InRest(C, h[k], J, v, Hash(f, m + 1, k))
      BY <1>3, <2>2
    <3>2. Hash(f, m + 1, k) \/ f[j] \in {"sp", "cr", "#"}
      BY <2>4, <2>5
    <3> QED
      BY ONLY Nul \in C, J \in Seq(Seq(C)), v \in Seq(C), <2>3, <2>6, <3>1, <3>2, InRestStep
  <2>8. (Hash(f, m + 1, k) \/ f[j] = "#") = Hash(f, m + 1, j)
    BY <2>4 DEF Hash
  <2>9. Good(j)
    BY <2>3, <2>7, <2>8
  <2> HIDE DEF Good
  <2> QED
    BY ONLY <2>1, <2>2, <2>9
<1>4. Good(q - 1)
  <2>1. \A k \in m .. q - 1 : k \in T
    BY ONLY <1>1, <1>2, <1>3, FromTo
  <2> QED
    BY ONLY <1>1, <2>1
<1>5. PICK x \in Seq(C) : Reads(x, v) /\ (Within(C, h[q - 1], Append(J, x)) \/ Between(C, h[q - 1], Append(J, x)))
  BY <1>4 DEF InRest
<1>6. h[q - 1] \in ScanState(C) /\ h[q - 1].items = Append(J, x) /\ h[q] = ScanChar(h[q - 1], "nl")
  BY <1>5 DEF Steps, Within, Between
<1>7. Clean(C, h[q], Append(J, x))
  BY <1>6, ScanNewline
<1> QED
  BY <1>5, <1>7

LEMMA RestOfEmpty ==
  ASSUME NEW C, Nul \in C, NEW f \in Seq(C), NEW h, Steps(C, h, f), NEW J \in Seq(Seq(C)),
         NEW m \in 0 .. Len(f), NEW q \in 1 .. Len(f), m < q,
         EmptyFrom(f, m + 1, q), f[q] = "nl", \A i \in m + 1 .. q - 1 : f[i] # "nl",
         Clean(C, h[m], J)
  PROVE  Clean(C, h[q], J)
<1> DEFINE Good(k) == Between(C, h[k], J) /\ (h[k].comment <=> Hash(f, m + 1, k))
           T == {k \in Nat : k \in m .. q - 1 => Good(k)}
<1>1. /\ m \in Nat /\ q \in Nat /\ q - 1 \in Nat /\ Len(f) \in Nat /\ m <= q - 1
      /\ q - 1 \in m .. q - 1
  BY LenProperties
<1>2. T \in SUBSET Nat /\ m \in T
  <2>1. ~Hash(f, m + 1, m)
    BY <1>1 DEF Hash
  <2> QED
    BY <1>1, <2>1 DEF Clean
<1>3. ASSUME NEW k \in T, m <= k, k < q - 1 PROVE k + 1 \in T
  <2>1. PICK j : j = k + 1
    OBVIOUS
  <2>2. /\ j \in 1 .. Len(f) /\ j - 1 = k /\ k \in m .. q - 1 /\ j \in m + 1 .. q - 1 /\ j \in Nat /\ k \in Nat
        /\ m + 1 <= k + 1 /\ m + 1 \in Nat
    BY <1>1, <1>3, <2>1
  <2>3. h[j] = ScanChar(h[k], f[j]) /\ f[j] # "nl" /\ f[j] \in C
    BY <2>2, ElementOfSeq DEF Steps
  <2>4. Hash(f, m + 1, j) <=> Hash(f, m + 1, k) \/ f[j] = "#"
    BY ONLY <2>1, <2>2, HashNext
  <2>5. Hash(f, m + 1, j) \/ f[j] \in {"sp", "cr"}
    BY <2>2 DEF EmptyFrom, Hash
  <2>6. Between(C, h[k], J) /\ (h[k].comment <=> Hash(f, m + 1, k))
    BY <1>3, <2>2
  <2>7. h[k].comment \/ f[j] \in {"sp", "cr", "#"}
    BY <2>4, <2>5, <2>6
  <2>8. Between(C, h[j], J) /\ (h[j].comment <=> h[k].comment \/ f[j] = "#")
    BY <2>3, <2>6, <2>7, RestStep
  <2>9. Good(j)
    BY ONLY <2>4, <2>6, <2>8
  <2> HIDE DEF Good
  <2> QED
    BY ONLY <2>1, <2>2, <2>9
<1>4. Good(q - 1)
  <2>1. \A k \in m .. q - 1 : k \in T
    BY ONLY <1>1, <1>2, <1>3, FromTo
  <2> QED
    BY ONLY <1>1, <2>1
<1>5. h[q - 1] \in ScanState(C) /\ h[q - 1].items = J /\ h[q] = ScanChar(h[q - 1], "nl")
  BY <1>4 DEF Steps, Between
<1> QED
  BY <1>5, ScanNewline

(* What a word is not. *)
LEMMA WordsAre ==
  ASSUME NEW c, c \in TokenNames \/ c \in Digits \/ c = "="
  PROVE  InWord(c)
BY ParamFileAssumption DEF InWord

(* A line that assigns: its items are those of its three words. *)
LEMMA AssignmentItems ==
  ASSUME NEW C, Nul \in C, NEW f \in Seq(C), NEW h, Steps(C, h, f), NEW J \in Seq(Seq(C)),
         NEW p \in 1 .. Len(f), NEW q \in 1 .. Len(f), EndsLine(f, p, q),
         NEW a \in p .. q, NEW b \in p .. q, NEW c \in p .. q, NEW d \in p .. q,
         IsAssignment(f, p, q, a, b, c, d), Clean(C, h[p - 1], J)
  PROVE  LET K == Append(Append(J, <<f[a]>>), <<"=">>)
         IN  /\ K \in Seq(Seq(C))
             /\ \E x \in Seq(C) : Reads(x, SubSeq(f, c, d)) /\ Clean(C, h[q], Append(K, x))
<1> DEFINE J1 == Append(J, <<f[a]>>)
           K == Append(J1, <<"=">>)
           v == SubSeq(f, c, d)
<1>1. /\ p <= a /\ a + 1 < b /\ b + 1 < c /\ c <= d /\ d < q
      /\ \A i \in p .. c - 1 : i \notin {a, b} => f[i] = "sp"
      /\ f[a] \in TokenNames /\ f[b] = "=" /\ \A i \in c .. d : f[i] \in Digits
      /\ EmptyFrom(f, d + 1, q)
  BY DEF IsAssignment
<1>2. /\ Len(f) \in Nat /\ p - 1 \in 0 .. Len(f) /\ a \in 1 .. Len(f) /\ b \in 1 .. Len(f)
      /\ c \in 1 .. Len(f) /\ d \in 1 .. Len(f) /\ a \in 0 .. Len(f) /\ b \in 0 .. Len(f)
      /\ p - 1 < a /\ a < b /\ b < c
  BY <1>1, LenProperties
<1>3. Within(C, h[a], J1) /\ J1 \in Seq(Seq(C))
  <2>1. \A i \in (p - 1) + 1 .. a - 1 : f[i] = "sp"
    BY <1>1, <1>2
  <2> QED
    BY <1>1, <1>2, <2>1, WordsAre, NextWord
<1> HIDE DEF J1
<1>4. Within(C, h[b], K) /\ K \in Seq(Seq(C))
  <2>1. \A i \in a + 1 .. b - 1 : f[i] = "sp"
    BY <1>1, <1>2
  <2>2. K = Append(J1, <<f[b]>>)
    BY <1>1 DEF K
  <2>3. InWord(f[b])
    BY <1>1, WordsAre
  <2>4. Within(C, h[b], Append(J1, <<f[b]>>)) /\ Append(J1, <<f[b]>>) \in Seq(Seq(C))
    BY <1>1, <1>2, <1>3, <2>1, <2>3, NextWord
  <2> QED
    BY <2>2, <2>4
<1> HIDE DEF K
<1>5. Within(C, h[c], Append(K, <<f[c]>>))
  <2>1. \A i \in b + 1 .. c - 1 : f[i] = "sp"
    BY <1>1, <1>2
  <2>2. f[c] \in Digits
    BY <1>1, <1>2
  <2> QED
    BY <1>1, <1>2, <1>4, <2>1, <2>2, WordsAre, NextWord
<1>6. Within(C, h[d], Append(K, v))
  <2>1. \A i \in c .. d : InWord(f[i])
    BY <1>1, WordsAre
  <2> QED
    BY <1>1, <1>2, <1>4, <1>5, <2>1, WholeWord
<1>7. v \in Seq(C)
  <2>1. \A i \in c .. d : f[i] \in C
    BY <1>2, ElementOfSeq
  <2> QED
    BY <1>2, <2>1, SubSeqProperties
<1> HIDE DEF v
<1>8. f[q] = "nl" /\ \A i \in d + 1 .. q - 1 : f[i] # "nl"
  BY <1>1, <1>2 DEF EndsLine
<1>9. \E x \in Seq(C) : Reads(x, v) /\ Clean(C, h[q], Append(K, x))
  BY <1>1, <1>2, <1>4, <1>6, <1>7, <1>8, RestOfAssignment
<1> QED
  BY <1>4, <1>9 DEF K, J1, v

LEMMA NumberIs ==
  ASSUME NEW C, NEW x \in Seq(C), NEW v \in Seq(Digits), Len(v) # 0, Reads(x, v), NEW old
  PROVE  Number(x, old) = v
<1> DEFINE N == {i \in 0 .. Len(x) : \A j \in 1 .. i : x[j] \in Digits}
           k == CHOOSE i \in N : \A j \in N : j <= i
<1>1. Len(x) \in Nat /\ Len(v) \in Nat /\ "cr" \notin Digits
  BY LenProperties, ParamFileAssumption
<1>2. Len(v) \in N
  <2>1. \A j \in 1 .. Len(v) : x[j] \in Digits
    BY ElementOfSeq DEF Reads
  <2> QED
    BY <1>1, <2>1 DEF Reads
<1>3. \A j \in N : j <= Len(v)
  <2> SUFFICES ASSUME NEW j \in N, j > Len(v) PROVE FALSE
    BY <1>1
  <2>1. Len(v) + 1 \in 1 .. j /\ Len(v) < Len(x)
    BY <1>1
  <2>2. x[Len(v) + 1] \in Digits /\ x[Len(v) + 1] = "cr"
    BY <2>1 DEF Reads
  <2> QED
    BY <1>1, <2>2
<1>4. k = Len(v)
  <2>1. k \in N /\ \A j \in N : j <= k
    BY <1>2, <1>3
  <2>2. k <= Len(v) /\ Len(v) <= k /\ k \in 0 .. Len(x)
    BY <1>2, <1>3, <2>1
  <2> QED
    BY ONLY <1>1, <2>2
<1>5. Number(x, old) = IF k = 0 THEN old ELSE SubSeq(x, 1, k)
  BY DEF Number
<1> HIDE DEF k
<1>6. Number(x, old) = SubSeq(x, 1, Len(v))
  BY <1>4, <1>5
<1>7. /\ SubSeq(x, 1, Len(v)) \in Seq(Digits) /\ Len(SubSeq(x, 1, Len(v))) = Len(v)
      /\ \A i \in 1 .. Len(v) : SubSeq(x, 1, Len(v))[i] = v[i]
  <2>1. \A i \in 1 .. Len(v) : x[i] \in Digits /\ x[i] = v[i]
    BY ElementOfSeq DEF Reads
  <2>2. 1 \in Int /\ Len(v) \in Int /\ Len(v) - 1 + 1 = Len(v) /\ 1 <= Len(v)
    BY <1>1
  <2>3. /\ SubSeq(x, 1, Len(v)) \in Seq(Digits) /\ Len(SubSeq(x, 1, Len(v))) = Len(v)
    BY <2>1, <2>2, SubSeqProperties
  <2>4. \A i \in 1 .. Len(v) : SubSeq(x, 1, Len(v))[i] = x[1 + i - 1]
    BY <2>1, <2>2, SubSeqProperties
  <2> QED
    BY <2>1, <2>3, <2>4
<1>8. SubSeq(x, 1, Len(v)) = v
  BY <1>7, SeqEqual
<1> QED
  BY <1>6, <1>8

(* Three items more. *)
LEMMA ThreeMore ==
  ASSUME NEW S, NEW J \in Seq(S), NEW x \in S, NEW y \in S, NEW z \in S
  PROVE  LET K == Append(Append(Append(J, x), y), z)
         IN  /\ K \in Seq(S) /\ Len(K) = Len(J) + 3 /\ \A i \in 1 .. Len(J) : K[i] = J[i]
             /\ K[Len(J) + 1] = x /\ K[Len(J) + 2] = y /\ K[Len(J) + 3] = z
<1> DEFINE J1 == Append(J, x)
           J2 == Append(J1, y)
           K == Append(J2, z)
<1>1. /\ Len(J) \in Nat /\ J1 \in Seq(S) /\ Len(J1) = Len(J) + 1 /\ J1[Len(J) + 1] = x
      /\ \A i \in 1 .. Len(J) : J1[i] = J[i]
  BY LenProperties, AppendProperties
<1> HIDE DEF J1
<1>2. /\ J2 \in Seq(S) /\ Len(J2) = Len(J) + 2 /\ J2[Len(J) + 2] = y
      /\ \A i \in 1 .. Len(J) + 1 : J2[i] = J1[i]
  <2>1. Len(J1) + 1 = Len(J) + 2
    BY <1>1
  <2> QED
    BY <1>1, <2>1, AppendProperties
<1> HIDE DEF J2
<1>3. /\ K \in Seq(S) /\ Len(K) = Len(J) + 3 /\ K[Len(J) + 3] = z
      /\ \A i \in 1 .. Len(J) + 2 : K[i] = J2[i]
  <2>1. Len(J2) + 1 = Len(J) + 3
    BY <1>1, <1>2
  <2> QED
    BY <1>2, <2>1, AppendProperties
<1> HIDE DEF K
<1>4. /\ \A i \in 1 .. Len(J) : K[i] = J[i]
      /\ K[Len(J) + 1] = x /\ K[Len(J) + 2] = y
  <2>1. Len(J) + 1 \in 1 .. Len(J) + 1 /\ Len(J) + 1 \in 1 .. Len(J) + 2 /\ Len(J) + 2 \in 1 .. Len(J) + 2
    BY <1>1
  <2>2. \A i \in 1 .. Len(J) : i \in 1 .. Len(J) + 1 /\ i \in 1 .. Len(J) + 2
    BY <1>1
  <2> QED
    BY <1>1, <1>2, <1>3, <2>1, <2>2
<1> QED
  BY <1>3, <1>4 DEF K, J1, J2

(* After items in threes, stage two goes on with three more. *)
LEMMA AssignThree ==
  ASSUME NEW S, NEW a \in Seq(S), NEW b \in Seq(S), Len(a) % 3 = 0,
         Len(b) = Len(a) + 3, \A i \in 1 .. Len(a) : b[i] = a[i]
  PROVE  Assigned(b) = Assign(b, Assigned(a), Len(a))
<1>1. Len(a) \in Nat
  BY LenProperties
<1>2. PICK N \in Nat : Len(a) = 3 * N
  BY <1>1
<1>3. (Len(a) + 1) \div 3 = N /\ (Len(b) + 1) \div 3 = N + 1 /\ 3 * N <= Len(b) /\ N + 1 \in Nat
  BY <1>2
<1>4. /\ Len(Triples(a)) = N /\ Len(Triples(b)) = N + 1
      /\ Triples(b)[N + 1] = 3 * N
  BY <1>3, TriplesAre
<1>5. PICK f : (\A n \in 0 .. N : f[n] = AssignStep(f, a, n)) /\ Assigned(a) = f[N]
  BY <1>4, AssignedIs
<1>6. PICK g : (\A n \in 0 .. N + 1 : g[n] = AssignStep(g, b, n)) /\ Assigned(b) = g[N + 1]
  BY <1>3, <1>4, AssignedIs
<1>7. f[N] = g[N]
  BY <1>2, <1>3, <1>5, <1>6, SameSoFar, SMTT(20)
<1>8. g[N + 1] = Assign(b, g[N], Len(a))
  <2>1. N + 1 \in 0 .. N + 1 /\ N + 1 # 0 /\ (N + 1) - 1 = N
    OBVIOUS
  <2>2. g[N + 1] = Assign(b, g[N], Triples(b)[N + 1])
    BY <1>6, <2>1 DEF AssignStep
  <2> QED
    BY <1>2, <1>4, <2>2
<1> QED
  BY <1>5, <1>6, <1>7, <1>8

(* They assign. *)
AssignedTo(p, l) == [params |-> p, last |-> l, failed |-> FALSE]

LEMMA AssignedToIs ==
  ASSUME NEW P, NEW l, NEW Q, NEW v
  PROVE  [AssignedTo(P, l) EXCEPT !.params = Q, !.last = v] = AssignedTo(Q, v)
<1> DEFINE R == [params : {P, Q}, last : {l, v}, failed : BOOLEAN]
           t == [AssignedTo(P, l) EXCEPT !.params = Q, !.last = v]
<1>1. AssignedTo(P, l) \in R /\ AssignedTo(Q, v) \in R /\ AssignedTo(P, l).failed = FALSE
  BY DEF AssignedTo
<1>2. t \in R /\ t.params = Q /\ t.last = v /\ t.failed = FALSE
  BY <1>1
<1>3. \A x \in R, y \in R : x.params = y.params /\ x.last = y.last /\ x.failed = y.failed => x = y
  OBVIOUS
<1> QED
  BY <1>1, <1>2, <1>3 DEF AssignedTo

LEMMA AssignmentAssigns ==
  ASSUME NEW C, NEW J \in Seq(Seq(C)), Len(J) % 3 = 0, NEW name \in TokenNames, name \in C, "=" \in C,
         NEW x \in Seq(C), NEW v \in Seq(Digits), Len(v) # 0, Reads(x, v),
         NEW P, NEW last, Assigned(J) = AssignedTo(P, last)
  PROVE  LET K == Append(Append(Append(J, <<name>>), <<"=">>), x)
         IN  /\ K \in Seq(Seq(C)) /\ Len(K) % 3 = 0
             /\ Assigned(K) = AssignedTo([P EXCEPT ![name] = v], v)
<1> DEFINE K == Append(Append(Append(J, <<name>>), <<"=">>), x)
           n == Len(J)
<1>1. <<name>> \in Seq(C) /\ <<"=">> \in Seq(C) /\ n \in Nat
  BY LenProperties
<1>2. /\ K \in Seq(Seq(C)) /\ Len(K) = n + 3 /\ \A i \in 1 .. n : K[i] = J[i]
      /\ K[n + 1] = <<name>> /\ K[n + 2] = <<"=">> /\ K[n + 3] = x
  BY <1>1, ThreeMore
<1> HIDE DEF K
<1>3. Assigned(K) = Assign(K, AssignedTo(P, last), n)
  BY <1>2, AssignThree
<1>4. Len(K[n + 1]) = 1 /\ K[n + 1][1] = name /\ ~(n + 3 > Len(K)) /\ Number(K[n + 3], last) = v
  BY <1>1, <1>2, NumberIs
<1>5. Assign(K, AssignedTo(P, last), n) = [AssignedTo(P, last) EXCEPT !.params[name] = v, !.last = v]
  BY <1>2, <1>4 DEF Assign, AssignedTo
<1>6. [AssignedTo(P, last) EXCEPT !.params[name] = v, !.last = v] = AssignedTo([P EXCEPT ![name] = v], v)
  <2>1. AssignedTo(P, last).params = P
    BY DEF AssignedTo
  <2> DEFINE A == AssignedTo(P, last)
             Q == [P EXCEPT ![name] = v]
  <2>2. [A EXCEPT !.params[name] = v, !.last = v] = [A EXCEPT !.params = Q, !.last = v]
    BY <2>1
  <2>3. [A EXCEPT !.params = Q, !.last = v] = AssignedTo(Q, v)
    <3> HIDE DEF Q
    <3> QED
      BY AssignedToIs, ZenonT(30)
  <2> QED
    BY ONLY <2>2, <2>3
<1>7. Len(K) % 3 = 0
  BY <1>1, <1>2
<1> QED
  BY <1>2, <1>3, <1>5, <1>6, <1>7 DEF K
-----------------------------------------------------------------------------
(* What the lines of a regular file say. *)
Says(f, p) == Assignments(f, Words(f, p))

LEMMA NothingSaid ==
  ASSUME NEW f, NEW p, Words(f, p) = {}
  PROVE  Says(f, p) = {}
BY DEF Says, Assignments

LEMMA EmptyLine ==
  ASSUME NEW C, NEW f \in Seq(C), NEW p \in 1 .. Len(f), NEW q \in 1 .. Len(f), EndsLine(f, p, q),
         EmptyFrom(f, p, q)
  PROVE  Words(f, p) = {}
<1>1. Len(f) \in Nat /\ p <= q /\ f[q] = "nl"
  BY LenProperties DEF EndsLine
<1>2. SUFFICES ASSUME NEW i \in p .. Len(f), f[i] \notin {"sp", "cr"},
                      \A j \in p .. i : f[j] \notin {"nl", "#"}
               PROVE  FALSE
  BY DEF Words
<1>3. i < q
  BY <1>1, <1>2
<1>4. i \in p .. q - 1
  BY <1>1, <1>3
<1> QED
  BY <1>2, <1>4 DEF EmptyFrom

LEMMA BehindLast ==
  ASSUME NEW C, NEW f \in Seq(C)
  PROVE  Words(f, Len(f) + 1) = {}
<1>1. Len(f) \in Nat
  BY LenProperties
<1>2. Len(f) + 1 .. Len(f) = {}
  BY <1>1
<1> QED
  BY <1>2 DEF Words

LEMMA AssignmentWords ==
  ASSUME NEW C, NEW f \in Seq(C), NEW p \in 1 .. Len(f), NEW q \in 1 .. Len(f), EndsLine(f, p, q),
         NEW a \in p .. q, NEW b \in p .. q, NEW c \in p .. q, NEW d \in p .. q,
         IsAssignment(f, p, q, a, b, c, d)
  PROVE  Words(f, p) = {a, b} \union (c .. d)
<1>1. /\ p <= a /\ a + 1 < b /\ b + 1 < c /\ c <= d /\ d < q
      /\ \A i \in p .. c - 1 : i \notin {a, b} => f[i] = "sp"
      /\ f[a] \in TokenNames /\ f[b] = "=" /\ \A i \in c .. d : f[i] \in Digits
      /\ EmptyFrom(f, d + 1, q)
  BY DEF IsAssignment
<1>2. Len(f) \in Nat /\ p <= q /\ f[q] = "nl" /\ \A i \in p .. q - 1 : f[i] # "nl"
  BY LenProperties DEF EndsLine
<1>3. \A e : e \in TokenNames \union Digits => e \notin {"nl", "sp", "cr", "#"}
  BY ParamFileAssumption
<1>4. \A i \in p .. d : f[i] \notin {"nl", "#"}
  <2> SUFFICES ASSUME NEW i \in p .. d PROVE f[i] \notin {"nl", "#"}
    OBVIOUS
  <2>1. i \in p .. c - 1 \/ i \in c .. d
    BY <1>1
  <2> QED
    BY <1>1, <1>3, <2>1
<1>5. ASSUME NEW i \in {a, b} \union (c .. d) PROVE i \in Words(f, p)
  <2>1. f[i] \notin {"sp", "cr"}
    BY <1>1, <1>3
  <2>2. i \in p .. Len(f) /\ i <= d
    BY <1>1, <1>2
  <2>3. \A j \in p .. i : f[j] \notin {"nl", "#"}
    BY <1>1, <1>4, <2>2
  <2> QED
    BY <2>1, <2>2, <2>3 DEF Words
<1>6. ASSUME NEW i \in Words(f, p) PROVE i \in {a, b} \union (c .. d)
  <2>1. i \in p .. Len(f) /\ f[i] \notin {"sp", "cr"} /\ \A j \in p .. i : f[j] \notin {"nl", "#"}
    BY DEF Words
  <2>2. i < q
    BY <1>2, <2>1
  <2>3. i <= d
    <3> SUFFICES ASSUME i > d PROVE FALSE
      BY <1>1, <2>1
    <3>1. i \in d + 1 .. q - 1
      BY <1>1, <2>1, <2>2
    <3>2. PICK j \in d + 1 .. i : f[j] = "#"
      BY <1>1, <2>1, <3>1 DEF EmptyFrom
    <3>3. j \in p .. i
      BY <1>1, <3>2
    <3> QED
      BY <2>1, <3>2, <3>3
  <2>4. i \in p .. c - 1 \/ i \in c .. d
    BY <1>1, <2>1, <2>3
  <2> QED
    BY <1>1, <2>1, <2>4
<1> QED
  BY <1>5, <1>6

Only(s, x) == s = {x}
Said(f, a, c, d) == [name |-> f[a], value |-> SubSeq(f, c, d)]

LEMMA AssignmentSays ==
  ASSUME NEW f, NEW a \in Nat, NEW b \in Nat, NEW c \in Nat, NEW d \in Nat,
         NEW w, w = {a, b} \union (c .. d), a < b, b < c, c <= d, f[a] \in TokenNames, f[b] = "=", \A i \in c .. d : f[i] \in Digits
  PROVE  Only(Assignments(f, w), Said(f, a, c, d))
<1> DEFINE Made(y) == /\ y[1] < y[2] /\ y[2] < y[3] /\ w = {y[1], y[2]} \union (y[3] .. y[4])
                      /\ f[y[1]] \in TokenNames /\ f[y[2]] = "="
                      /\ \A i \in y[3] .. y[4] : f[i] \in Digits
           X == {y \in w \X w \X w \X w : Made(y)}
           Is(y) == [name |-> f[y[1]], value |-> SubSeq(f, y[3], y[4])]
           z == <<a, b, c, d>>
<1>1. Assignments(f, w) = {Is(y) : y \in X}
  BY DEF Assignments
<1>2. z \in X
  <2>1. z \in w \X w \X w \X w
    OBVIOUS
  <2>2. Made(z)
    OBVIOUS
  <2> HIDE DEF Made, z
  <2> QED
    BY <2>1, <2>2
<1>3. ASSUME NEW y \in X PROVE y = z
  <2>1. /\ y[1] \in w /\ y[2] \in w /\ y[3] \in w /\ y[4] \in w /\ y = <<y[1], y[2], y[3], y[4]>>
        /\ Made(y)
    <3> HIDE DEF Made
    <3> QED
      BY <1>3
  <2>2. PICK i, j, k, l : i = y[1] /\ j = y[2] /\ k = y[3] /\ l = y[4]
    OBVIOUS
  <2>3. i \in w /\ j \in w /\ k \in w /\ l \in w /\ i < j /\ j < k /\ w = {i, j} \union (k .. l)
    BY ONLY <2>1, <2>2
  <2>4. a \in {i, j} \union (k .. l) /\ b \in {i, j} \union (k .. l) /\ c \in {i, j} \union (k .. l) /\ d \in {i, j} \union (k .. l)
    BY ONLY <2>3, c <= d, c \in Nat, d \in Nat, w = {a, b} \union (c .. d)
  <2>5. i \in Nat /\ j \in Nat /\ k \in Nat /\ l \in Nat
    BY <2>3
  <2>6. i = a
    BY <2>3, <2>4, <2>5
  <2>7. j = b
    BY <2>3, <2>4, <2>5, <2>6
  <2>8. k = c /\ l = d
    BY <2>3, <2>4, <2>5, <2>6, <2>7
  <2> QED
    BY <2>1, <2>2, <2>6, <2>7, <2>8
<1>4. X = {z}
  <2> HIDE DEF X, z
  <2> QED
    BY <1>2, <1>3
<1>5. Is(z) = Said(f, a, c, d)
  BY DEF Said
<1> HIDE DEF X, Is, z
<1>6. {Is(y) : y \in X} = {Is(z)}
  BY <1>4
<1> QED
  BY <1>1, <1>5, <1>6 DEF Only

(* What the lines that begin up to k say. *)
Speaking(f, n, k) == {p \in Starts(f) : p <= k /\ \E x \in Says(f, p) : x.name = n}
LastSaid(f, s) ==
  IF s = {} THEN Unset
  ELSE LET p == CHOOSE q \in s : \A r \in s : r <= q
       IN  (CHOOSE x \in Says(f, p) : TRUE).value
Told(f, k) == [n \in TokenNames |-> LastSaid(f, Speaking(f, n, k))]

LEMMA StartsAre ==
  ASSUME NEW C, NEW f \in Seq(C)
  PROVE  /\ \A p \in Starts(f) : p \in 1 .. Len(f) + 1
         /\ \A p \in 1 .. Len(f) + 1 : p \in Starts(f) <=> p = 1 \/ f[p - 1] = "nl"
<1>1. Len(f) \in Nat /\ DOMAIN f = 1 .. Len(f)
  BY LenProperties
<1>2. \A p \in Starts(f) : p \in 1 .. Len(f) + 1
  BY <1>1 DEF Starts
<1>3. ASSUME NEW p \in 1 .. Len(f) + 1
      PROVE  p \in Starts(f) <=> p = 1 \/ f[p - 1] = "nl"
  <2>1. p # 1 => p - 1 \in DOMAIN f /\ (p - 1) + 1 = p
    BY <1>1
  <2>2. ASSUME NEW j \in DOMAIN f, p = j + 1 PROVE p - 1 = j
    BY <1>1, <2>2
  <2> QED
    BY <2>1, <2>2 DEF Starts
<1> QED
  BY <1>2, <1>3

LEMMA NoneTold ==
  ASSUME NEW C, NEW f \in Seq(C)
  PROVE  Told(f, 0) = NoParams
<1>1. \A p \in Starts(f) : ~(p <= 0)
  <2>1. \A p \in 1 .. Len(f) + 1 : ~(p <= 0)
    BY LenProperties
  <2> QED
    BY <2>1, StartsAre
<1>2. \A n : Speaking(f, n, 0) = {}
  BY <1>1 DEF Speaking
<1> QED
  BY <1>2 DEF Told, NoParams, LastSaid

(* One line more. *)
LEMMA StartsUpTo ==
  ASSUME NEW C, NEW f \in Seq(C), NEW p \in Starts(f), NEW q \in 1 .. Len(f), EndsLine(f, p, q),
         NEW r \in Starts(f)
  PROVE  r <= q <=> r <= p - 1 \/ r = p
<1>1. /\ Len(f) \in Nat /\ p \in 1 .. Len(f) + 1 /\ r \in 1 .. Len(f) + 1 /\ p <= q
      /\ \A i \in p .. q - 1 : f[i] # "nl"
  BY LenProperties, StartsAre DEF EndsLine
<1>2. ASSUME r > p, r <= q PROVE FALSE
  <2>1. r - 1 \in p .. q - 1 /\ r # 1
    BY <1>1, <1>2
  <2> QED
    BY <1>1, <2>1, StartsAre
<1> QED
  BY <1>1, <1>2

LEMMA SilentLine ==
  ASSUME NEW C, NEW f \in Seq(C), NEW p \in Starts(f), NEW q \in 1 .. Len(f), EndsLine(f, p, q),
         Says(f, p) = {}
  PROVE  Told(f, q) = Told(f, p - 1)
<1>1. ASSUME NEW n PROVE Speaking(f, n, q) = Speaking(f, n, p - 1)
  BY StartsUpTo DEF Speaking
<1> QED
  BY <1>1 DEF Told

LEMMA SpeakingLine ==
  ASSUME NEW C, NEW f \in Seq(C), NEW p \in Starts(f), NEW q \in 1 .. Len(f), EndsLine(f, p, q),
         NEW name \in TokenNames, NEW v, NEW x, Only(Says(f, p), x),
         x.name = name, x.value = v
  PROVE  Told(f, q) = [Told(f, p - 1) EXCEPT ![name] = v]
<1>1. ASSUME NEW n, n # name PROVE Speaking(f, n, q) = Speaking(f, n, p - 1)
  <2>1. ~ \E y \in Says(f, p) : y.name = n
    BY <1>1 DEF Only
  <2> QED
    BY <2>1, StartsUpTo DEF Speaking
<1>2. /\ p \in Speaking(f, name, q)
      /\ \A r \in Speaking(f, name, q) : r \in Nat /\ r <= p
  <2>1. p \in Nat /\ q \in Nat /\ p <= q /\ \A r \in Starts(f) : r \in Nat
    BY StartsAre, LenProperties DEF EndsLine
  <2>2. \E y \in Says(f, p) : y.name = name
    BY DEF Only
  <2>3. \A r \in Speaking(f, name, q) : r \in Starts(f) /\ r <= q
    BY DEF Speaking
  <2>4. ASSUME NEW r \in Speaking(f, name, q) PROVE r <= p
    <3>1. r \in Starts(f) /\ r <= q /\ r \in Nat
      BY <2>1, <2>3
    <3>2. r <= p - 1 \/ r = p
      BY <3>1, StartsUpTo
    <3> QED
      BY <2>1, <3>1, <3>2
  <2> QED
    BY <2>1, <2>2, <2>3, <2>4 DEF Speaking
<1>3. (CHOOSE s \in Speaking(f, name, q) : \A r \in Speaking(f, name, q) : r <= s) = p
  <2> DEFINE s == CHOOSE s \in Speaking(f, name, q) : \A r \in Speaking(f, name, q) : r <= s
  <2>1. s \in Speaking(f, name, q) /\ \A r \in Speaking(f, name, q) : r <= s
    BY <1>2
  <2> HIDE DEF s
  <2>2. s \in Nat /\ p \in Nat /\ s <= p /\ p <= s
    BY <1>2, <2>1
  <2>3. s = p
    BY ONLY <2>2
  <2> QED
    BY <2>3 DEF s
<1>4. (CHOOSE y \in Says(f, p) : TRUE).value = v
  <2>1. (CHOOSE y \in Says(f, p) : TRUE) \in Says(f, p)
    BY DEF Only
  <2> QED
    BY <2>1 DEF Only
<1>5. Told(f, q)[name] = v
  <2>1. Speaking(f, name, q) # {}
    BY <1>2
  <2> QED
    BY <1>3, <1>4, <2>1 DEF Told, LastSaid
<1>6. ASSUME NEW n \in TokenNames, n # name PROVE Told(f, q)[n] = Told(f, p - 1)[n]
  BY <1>1, <1>6 DEF Told
<1>7. /\ Told(f, q) = [n \in TokenNames |-> Told(f, q)[n]]
      /\ Told(f, p - 1) = [n \in TokenNames |-> Told(f, p - 1)[n]]
  BY DEF Told
<1> QED
  BY <1>5, <1>6, <1>7

(* Every line of a file whose last character is a newline ends. *)
LEMMA LineEnds ==
  ASSUME NEW C, NEW f \in Seq(C), f # <<>>, f[Len(f)] = "nl", NEW p \in 1 .. Len(f)
  PROVE  \E q \in 1 .. Len(f) : EndsLine(f, p, q)
<1> DEFINE E == {j \in p .. Len(f) : f[j] = "nl"}
<1>1. Len(f) \in Nat /\ Len(f) \in E /\ E \in SUBSET Nat
  BY LenProperties
<1>2. PICK q \in E : \A j \in E : q <= j
  BY <1>1, Least
<1>3. q \in 1 .. Len(f) /\ q \in Nat /\ p <= q /\ f[q] = "nl"
  BY <1>1, <1>2
<1>4. ASSUME NEW i \in p .. q - 1 PROVE f[i] # "nl"
  <2>1. i \in p .. Len(f) /\ ~(q <= i)
    BY <1>1, <1>3
  <2> QED
    BY <1>2, <2>1
<1> QED
  BY <1>3, <1>4 DEF EndsLine

(* And begins behind another, or the file. *)
LEMMA LineBegins ==
  ASSUME NEW C, NEW f \in Seq(C), NEW q \in 1 .. Len(f), f[q] = "nl"
  PROVE  \E p \in Starts(f) : p \in 1 .. Len(f) /\ EndsLine(f, p, q)
<1> DEFINE E == {j \in 1 .. q : j = q \/ f[q - j] = "nl"}
<1>1. Len(f) \in Nat /\ q \in Nat /\ q \in E /\ E \in SUBSET Nat
  BY LenProperties
<1>2. PICK j \in E : \A i \in E : j <= i
  BY <1>1, Least
<1>3. PICK p : p = q - j + 1
  OBVIOUS
<1>4. j \in 1 .. q /\ p \in 1 .. Len(f) /\ p \in 1 .. Len(f) + 1 /\ p <= q /\ p - 1 = q - j /\ (j = q => p = 1)
  BY <1>1, <1>2, <1>3
<1>5. p \in Starts(f)
  BY <1>2, <1>4, StartsAre
<1>6. ASSUME NEW i \in p .. q - 1 PROVE f[i] # "nl"
  <2>1. PICK k : k = q - i
    OBVIOUS
  <2>2. k \in 1 .. q /\ ~(j <= k) /\ q - k = i
    BY <1>1, <1>3, <1>4, <2>1
  <2> QED
    BY <1>2, <2>2
<1> QED
  BY <1>4, <1>5, <1>6 DEF EndsLine

(* What each line of a regular file says, and what its items are. *)
LEMMA RegularLine ==
  ASSUME NEW C, NEW f \in Seq(C), Regular(f), NEW p \in Starts(f), NEW q \in 1 .. Len(f),
         p \in 1 .. Len(f), EndsLine(f, p, q)
  PROVE  \/ EmptyFrom(f, p, q) /\ Words(f, p) = {} /\ Says(f, p) = {}
         \/ \E a, b, c, d \in p .. q :
              /\ IsAssignment(f, p, q, a, b, c, d)
              /\ Only(Says(f, p), Said(f, a, c, d))
<1>1. IsLine(f, p, q)
  BY LenProperties DEF Regular
<1>2. CASE EmptyFrom(f, p, q)
  BY <1>2, EmptyLine, NothingSaid
<1>3. ASSUME NEW a \in p .. q, NEW b \in p .. q, NEW c \in p .. q, NEW d \in p .. q,
             IsAssignment(f, p, q, a, b, c, d)
      PROVE  Only(Says(f, p), Said(f, a, c, d))
  <2>1. Words(f, p) = {a, b} \union (c .. d)
    BY <1>3, AssignmentWords
  <2>2. PICK i \in Nat, j \in Nat, k \in Nat, l \in Nat : i = a /\ j = b /\ k = c /\ l = d
    BY LenProperties
  <2>3. i < j /\ j < k /\ k <= l /\ f[i] \in TokenNames /\ f[j] = "="
    BY <1>3, <2>2 DEF IsAssignment
  <2>4. \A n \in k .. l : f[n] \in Digits
    BY <1>3, <2>2 DEF IsAssignment
  <2>5. PICK w : w = Words(f, p)
    OBVIOUS
  <2>6. w = {i, j} \union (k .. l)
    BY <2>1, <2>2, <2>5
  <2>7. Only(Assignments(f, w), Said(f, i, k, l))
    BY ONLY <2>3, <2>4, <2>6, AssignmentSays
  <2> QED
    BY <2>2, <2>5, <2>7 DEF Says
<1> QED
  BY <1>1, <1>2, <1>3 DEF IsLine

(* All of them count. *)
LEMMA MeaningIsTold ==
  ASSUME NEW C, NEW f \in Seq(C), Regular(f)
  PROVE  Meaning(f) = Told(f, Len(f))
<1> DEFINE Reached(p) == \A q \in Starts(f) : q <= p => Words(f, q) = {} \/ Says(f, q) # {}
           For(n) == {p \in Starts(f) : Reached(p) /\ \E x \in Says(f, p) : x.name = n}
<1>1. ASSUME NEW q \in Starts(f) PROVE Words(f, q) = {} \/ Says(f, q) # {}
  <2>1. Len(f) \in Nat /\ q \in 1 .. Len(f) + 1
    BY LenProperties, StartsAre
  <2>2. CASE q = Len(f) + 1
    BY <2>2, BehindLast
  <2>3. CASE q \in 1 .. Len(f)
    <3>1. f # <<>> /\ f[Len(f)] = "nl"
      BY <2>3, EmptySeq DEF Regular
    <3>2. PICK e \in 1 .. Len(f) : EndsLine(f, q, e)
      BY <2>3, <3>1, LineEnds
    <3>3. \/ EmptyFrom(f, q, e) /\ Words(f, q) = {} /\ Says(f, q) = {}
          \/ \E a, b, c, d \in q .. e :
               /\ IsAssignment(f, q, e, a, b, c, d)
               /\ Only(Says(f, q), Said(f, a, c, d))
      BY <2>3, <3>2, RegularLine
    <3> QED
      BY <3>3 DEF Only
  <2> QED
    BY <2>1, <2>2, <2>3
<1>2. ASSUME NEW n
      PROVE  For(n) = Speaking(f, n, Len(f))
  <2>1. ASSUME NEW p \in Starts(f), Says(f, p) # {} PROVE p <= Len(f)
    <3>1. Len(f) \in Nat /\ p \in 1 .. Len(f) + 1
      BY LenProperties, StartsAre
    <3>2. p # Len(f) + 1
      BY <2>1, BehindLast, NothingSaid
    <3> QED
      BY <3>1, <3>2
  <2> QED
    BY <1>1, <2>1 DEF Speaking
<1>3. Meaning(f) = [n \in TokenNames |-> LastSaid(f, For(n))]
  BY Zenon DEF Meaning, Says, LastSaid
<1> HIDE DEF For
<1> QED
  BY <1>2, <1>3 DEF Told
-----------------------------------------------------------------------------
(* Where the scan of a regular file stands between two lines: its items    *)
(* are those of the lines so far, which assign what the lines say.         *)
ReadTo(C, h, f, k) ==
  /\ Clean(C, h[k], h[k].items) /\ Len(h[k].items) % 3 = 0
  /\ \E l : Assigned(h[k].items) = AssignedTo(Told(f, k), l)

LEMMA NothingRead ==
  ASSUME NEW C, NEW f \in Seq(C), NEW h, h[0] = Scan
  PROVE  ReadTo(C, h, f, 0)
<1>1. Clean(C, Scan, <<>>) /\ Scan.items = <<>> /\ Len(<<>>) % 3 = 0
  BY DEF Clean, Between, Scan, ScanState
<1>2. Assigned(<<>>) = AssignedTo(NoParams, Unset)
  <2>1. Len(Triples(<<>>)) = 0
    <3>1. <<>> \in Seq(C) /\ Len(<<>>) = 0 /\ (0 + 1) \div 3 = 0
      OBVIOUS
    <3> QED
      BY <3>1, TriplesAre
  <2>2. PICK g : (\A n \in 0 .. 0 : g[n] = AssignStep(g, <<>>, n)) /\ Assigned(<<>>) = g[0]
    BY <2>1, AssignedIs
  <2>3. g[0] = NoneAssigned
    BY <2>2 DEF AssignStep
  <2> QED
    BY <2>2, <2>3 DEF NoneAssigned, AssignedTo
<1>3. Told(f, 0) = NoParams
  BY NoneTold
<1> QED
  BY <1>1, <1>2, <1>3 DEF ReadTo

LEMMA LineRead ==
  ASSUME NEW C, Nul \in C, NEW f \in Seq(C), Regular(f), NEW h, Steps(C, h, f),
         NEW p \in Starts(f), p \in 1 .. Len(f), NEW q \in 1 .. Len(f), EndsLine(f, p, q),
         ReadTo(C, h, f, p - 1)
  PROVE  ReadTo(C, h, f, q)
<1> DEFINE J == h[p - 1].items
<1>1. /\ p \in Nat /\ q \in Nat /\ Len(f) \in Nat /\ p - 1 \in 0 .. Len(f) /\ p - 1 < q /\ (p - 1) + 1 = p
      /\ f[q] = "nl" /\ \A i \in p .. q - 1 : f[i] # "nl"
  BY LenProperties DEF EndsLine
<1>2. PICK l : Assigned(J) = AssignedTo(Told(f, p - 1), l)
  BY DEF ReadTo
<1>3. Clean(C, h[p - 1], J) /\ Len(J) % 3 = 0 /\ J \in Seq(Seq(C))
  BY DEF ReadTo, Clean, Between, ScanState
<1> HIDE DEF J
<1>4. CASE EmptyFrom(f, p, q) /\ Says(f, p) = {}
  <2>1. Clean(C, h[q], J)
    BY <1>1, <1>3, <1>4, RestOfEmpty
  <2>2. Told(f, q) = Told(f, p - 1)
    BY <1>4, SilentLine
  <2>3. h[q].items = J
    BY <2>1 DEF Clean, Between
  <2> QED
    BY <1>2, <1>3, <2>1, <2>2, <2>3 DEF ReadTo
<1>5. ASSUME NEW a \in p .. q, NEW b \in p .. q, NEW c \in p .. q, NEW d \in p .. q,
             IsAssignment(f, p, q, a, b, c, d),
             Only(Says(f, p), Said(f, a, c, d))
      PROVE  ReadTo(C, h, f, q)
  <2> DEFINE K == Append(Append(J, <<f[a]>>), <<"=">>)
             v == SubSeq(f, c, d)
  <2>1. PICK x \in Seq(C) : Reads(x, v) /\ Clean(C, h[q], Append(K, x))
    BY <1>3, <1>5, AssignmentItems
  <2>2. /\ f[a] \in TokenNames /\ f[b] = "=" /\ c <= d /\ d < q /\ \A i \in c .. d : f[i] \in Digits
        /\ a \in 1 .. Len(f) /\ b \in 1 .. Len(f) /\ c \in Int /\ d \in Int
    BY <1>1, <1>5 DEF IsAssignment
  <2>3. v \in Seq(Digits) /\ Len(v) # 0
    <3>1. v \in Seq(Digits) /\ Len(v) = d - c + 1
      BY <2>2, SubSeqProperties
    <3> QED
      BY <2>2, <3>1
  <2>4. f[a] \in C /\ "=" \in C
    BY <2>2, ElementOfSeq
  <2>5. PICK e : e = Said(f, a, c, d)
    OBVIOUS
  <2>6. PICK name \in TokenNames : name = f[a]
    BY <2>2
  <2>7. Told(f, q) = [Told(f, p - 1) EXCEPT ![name] = v]
    <3>1. Only(Says(f, p), e) /\ e.name = name /\ e.value = v
      BY <1>5, <2>5, <2>6 DEF Said, v
    <3>2. f \in Seq(C) /\ p \in Starts(f) /\ q \in 1 .. Len(f) /\ EndsLine(f, p, q)
      OBVIOUS
    <3> QED
      BY ONLY name \in TokenNames, <3>1, <3>2, SpeakingLine
  <2> HIDE DEF v
  <2>8. /\ Len(Append(K, x)) % 3 = 0
        /\ Assigned(Append(K, x)) = AssignedTo([Told(f, p - 1) EXCEPT ![name] = v], v)
    <3>1. K = Append(Append(J, <<name>>), <<"=">>) /\ name \in C /\ Reads(x, v)
      BY <2>1, <2>4, <2>6
    <3> HIDE DEF K
    <3> DEFINE P == Told(f, p - 1)
    <3>2. Assigned(J) = AssignedTo(P, l)
      BY <1>2
    <3> HIDE DEF P
    <3>3. /\ Len(Append(K, x)) % 3 = 0
          /\ Assigned(Append(K, x)) = AssignedTo([P EXCEPT ![name] = v], v)
      BY <1>3, <2>3, <2>4, <3>1, <3>2, AssignmentAssigns, SMTT(20)
    <3> QED
      BY <3>3 DEF P
  <2> HIDE DEF K
  <2>9. h[q].items = Append(K, x)
    BY <2>1 DEF Clean, Between
  <2> QED
    BY <2>1, <2>7, <2>8, <2>9 DEF ReadTo
<1> QED
  BY <1>4, <1>5, RegularLine

(* The parser reads a file as it is meant, and leaves no item over, if     *)
(* each of its lines has its newline, and is empty or an assignment with   *)
(* spaces between its words.                                               *)
THEOREM ParserReadsRegular ==
  ASSUME NEW S, NEW f \in Seq(S), Regular(f)
  PROVE  ReadAsMeant(f)
<1> DEFINE C == S \union {Nul}
           N == Len(f)
<1>0. Nul \in C /\ f \in Seq(C)
  BY SeqMonotonic
<1> HIDE DEF C
<1>1. N \in Nat /\ N \in 0 .. N
  BY LenProperties
<1>2. PICK h : (\A n \in 0 .. N : h[n] = ScanStep(h, f, n)) /\ Scanned(f) = h[N]
  BY <1>1, ScannedIs
<1>3. \A n \in 0 .. N : h[n] \in ScanState(C)
  BY <1>0, <1>2, StepsLeave DEF ScanLeaves
<1>4. h[0] = Scan /\ \A n \in 1 .. N : h[n] = ScanChar(h[n - 1], f[n])
  BY <1>1, <1>2 DEF ScanStep
<1>5. Steps(C, h, f)
  BY <1>3, <1>4 DEF Steps
<1> DEFINE U == {k \in 0 .. N : (k = 0 \/ f[k] = "nl") /\ ~ReadTo(C, h, f, k)}
<1>6. U = {}
  <2>1. SUFFICES ASSUME U # {} PROVE FALSE
    OBVIOUS
  <2>2. PICK q \in U : \A k \in U : q <= k
    <3>1. U \in SUBSET Nat
      BY <1>1
    <3> HIDE DEF U
    <3> QED
      BY <2>1, <3>1, Least
  <2>3. q # 0
    BY <1>0, <1>4, <2>2, NothingRead
  <2>4. q \in 1 .. N /\ f[q] = "nl" /\ ~ReadTo(C, h, f, q)
    BY <1>1, <2>2, <2>3
  <2>5. PICK p \in Starts(f) : p \in 1 .. N /\ EndsLine(f, p, q)
    BY <1>0, <2>4, LineBegins
  <2>6. p - 1 \in 0 .. N /\ p - 1 < q /\ (p - 1 = 0 \/ f[p - 1] = "nl")
    <3>1. p \in 1 .. N + 1 /\ p <= q
      BY <1>1, <2>5 DEF EndsLine
    <3>2. p = 1 \/ f[p - 1] = "nl"
      BY <1>0, <2>5, <3>1, StartsAre
    <3> QED
      BY <1>1, <2>4, <2>5, <3>1, <3>2
  <2>7. p - 1 \notin U
    BY <1>1, <2>2, <2>4, <2>6
  <2>8. ReadTo(C, h, f, p - 1)
    BY <2>6, <2>7
  <2> QED
    BY <1>0, <1>5, <2>4, <2>5, <2>8, LineRead
<1>7. N = 0 \/ f[N] = "nl"
  BY <1>1, EmptySeq DEF Regular
<1>8. ReadTo(C, h, f, N)
  BY <1>1, <1>6, <1>7
<1>9. Len(Scanned(f).items) % 3 = 0 /\ Assigned(Scanned(f).items).params = Told(f, N)
  <2>1. PICK l : Assigned(h[N].items) = AssignedTo(Told(f, N), l)
    BY <1>8 DEF ReadTo
  <2>2. AssignedTo(Told(f, N), l).params = Told(f, N)
    BY DEF AssignedTo
  <2> QED
    BY <1>2, <1>8, <2>1, <2>2 DEF ReadTo
<1> QED
  BY <1>0, <1>9, MeaningIsTold DEF ReadAsMeant, ParseContent
-----------------------------------------------------------------------------
(* Where strlen() stops in a buffer. *)
EndsAt(buf, n) == /\ \A i \in 1 .. n : buf[i] # Nul
                  /\ n < Len(buf) => buf[n + 1] = Nul

LEMMA TextIs ==
  ASSUME NEW C, NEW b \in Seq(C)
  PROVE  \E n \in 0 .. Len(b) : EndsAt(b, n) /\ Text(b) = SubSeq(b, 1, n)
<1> DEFINE Z == {i \in DOMAIN b : b[i] = Nul}
           First == CHOOSE i \in Z : \A j \in Z : i <= j
<1>1. Len(b) \in Nat /\ DOMAIN b = 1 .. Len(b)
  BY LenProperties
<1>2. CASE Z = {}
  <2>1. Text(b) = b
    BY <1>2 DEF Text
  <2>2. SubSeq(b, 1, Len(b)) = b
    OBVIOUS
  <2>3. EndsAt(b, Len(b)) /\ Len(b) \in 0 .. Len(b)
    BY <1>1, <1>2 DEF EndsAt
  <2> QED
    BY <2>1, <2>2, <2>3
<1>3. CASE Z # {}
  <2>1. Z \in SUBSET Nat
    BY <1>1
  <2>2. \E i \in Z : \A j \in Z : i <= j
    BY <1>3, <2>1, Least
  <2>3. First \in Z /\ \A j \in Z : First <= j
    BY <2>2
  <2>4. Text(b) = SubSeq(b, 1, First - 1)
    BY <1>3 DEF Text
  <2> HIDE DEF First
  <2>5. First \in 1 .. Len(b) /\ b[First] = Nul /\ \A i \in 1 .. Len(b) : b[i] = Nul => First <= i
    BY <1>1, <2>3
  <2> HIDE DEF Z
  <2>6. First - 1 \in 0 .. Len(b) /\ First - 1 + 1 = First /\ \A i \in 1 .. First - 1 : i \in 1 .. Len(b) /\ ~(First <= i)
    BY <1>1, <2>5
  <2>7. EndsAt(b, First - 1)
    BY <2>5, <2>6 DEF EndsAt
  <2> QED
    BY <2>4, <2>6, <2>7
<1> QED
  BY <1>2, <1>3

LEMMA OneEnd ==
  ASSUME NEW b, Len(b) \in Nat, NEW n \in 0 .. Len(b), NEW m \in 0 .. Len(b), EndsAt(b, n), EndsAt(b, m)
  PROVE  n = m
BY DEF EndsAt

(* Behind a file of which no character is a NUL the text goes on with what *)
(* strlen() finds there.                                                   *)
LEMMA TextGoesOn ==
  ASSUME NEW C, NEW f \in Seq(C), \A i \in 1 .. Len(f) : f[i] # Nul, NEW r \in Seq(C)
  PROVE  Text(f \o r) = f \o Text(r)
<1> DEFINE N == Len(f)
           M == Len(r)
           b == f \o r
<1>1. N \in Nat /\ M \in Nat
  BY LenProperties
<1>2. b \in Seq(C) /\ Len(b) = N + M /\ \A i \in 1 .. N + M : b[i] = IF i <= N THEN f[i] ELSE r[i - N]
  BY ConcatProperties
<1> HIDE DEF b
<1>3. PICK m \in 0 .. M : EndsAt(r, m) /\ Text(r) = SubSeq(r, 1, m)
  BY TextIs
<1>4. PICK n \in 0 .. N + M : EndsAt(b, n) /\ Text(b) = SubSeq(b, 1, n)
  BY <1>2, TextIs
<1>5. EndsAt(b, N + m)
  <2>1. ASSUME NEW i \in 1 .. N + m PROVE b[i] # Nul
    <3>1. i \in 1 .. N + M
      BY <1>1
    <3>2. CASE i <= N
      BY <1>1, <1>2, <3>1, <3>2
    <3>3. CASE ~(i <= N)
      <4>1. i - N \in 1 .. m /\ b[i] = r[i - N]
        BY <1>1, <1>2, <3>1, <3>3
      <4> QED
        BY <1>3, <4>1 DEF EndsAt
    <3> QED
      BY <3>2, <3>3
  <2>2. ASSUME N + m < N + M PROVE b[N + m + 1] = Nul
    <3>1. PICK k : k = N + m + 1
      OBVIOUS
    <3>2. k \in 1 .. N + M /\ ~(k <= N) /\ k - N = m + 1 /\ m < M
      BY <1>1, <2>2, <3>1
    <3>3. b[k] = r[m + 1] /\ r[m + 1] = Nul
      BY <1>2, <1>3, <3>2 DEF EndsAt
    <3> QED
      BY <3>1, <3>3
  <2> QED
    BY <1>2, <2>1, <2>2 DEF EndsAt
<1>6. n = N + m
  <2>1. N + m \in 0 .. Len(b) /\ n \in 0 .. Len(b) /\ Len(b) \in Nat
    BY <1>1, <1>2
  <2> QED
    BY <1>4, <1>5, <2>1, OneEnd
<1>7. SubSeq(b, 1, N + m) = f \o SubSeq(r, 1, m)
  <2> DEFINE x == SubSeq(b, 1, N + m)
             y == SubSeq(r, 1, m)
             z == f \o y
  <2>1. /\ x \in Seq(C) /\ Len(x) = N + m /\ \A i \in 1 .. N + m : x[i] = b[i]
        /\ y \in Seq(C) /\ Len(y) = m /\ \A i \in 1 .. m : y[i] = r[i]
    <3>1. N + m \in 0 .. Len(b) /\ 1 \in 1 .. Len(b) + 1 /\ 1 \in 1 .. Len(r) + 1
      BY <1>1, <1>2
    <3> QED
      BY <1>1, <1>2, <3>1, SubSeqProperties
  <2> HIDE DEF x, y
  <2>2. z \in Seq(C) /\ Len(z) = N + m /\ \A i \in 1 .. N + m : z[i] = IF i <= N THEN f[i] ELSE y[i - N]
    BY <2>1, ConcatProperties
  <2> HIDE DEF z
  <2>3. ASSUME NEW i \in 1 .. N + m PROVE x[i] = z[i]
    <3>1. i \in 1 .. N + M
      BY <1>1
    <3>2. CASE i <= N
      BY <1>2, <2>1, <2>2, <3>1, <3>2
    <3>3. CASE ~(i <= N)
      <4>1. i - N \in 1 .. m
        BY <1>1, <3>3
      <4> QED
        BY <1>2, <2>1, <2>2, <3>1, <3>3, <4>1
    <3> QED
      BY <3>2, <3>3
  <2>4. x = z
    BY <2>1, <2>2, <2>3, SeqEqual
  <2> QED
    BY <2>4 DEF x, y, z
<1> QED
  BY <1>3, <1>4, <1>6, <1>7 DEF b
-----------------------------------------------------------------------------
(* A buffer in which no line ends: what a parser has cut up. *)
CutUp(C, h) == h \in Seq(C) /\ \A i \in 1 .. Len(h) : h[i] # "nl"

(* A piece of a sequence, from one place to the end. *)
LEMMA RestIs ==
  ASSUME NEW C, NEW s \in Seq(C), NEW k \in Nat
  PROVE  LET r == SubSeq(s, k + 1, Len(s))
         IN  /\ r \in Seq(C)
             /\ Len(r) = IF k < Len(s) THEN Len(s) - k ELSE 0
             /\ \A i \in 1 .. Len(r) : r[i] = s[k + i] /\ k + i \in 1 .. Len(s)
<1>1. Len(s) \in Nat
  BY LenProperties
<1>2. CASE k < Len(s)
  <2>1. k + 1 \in 1 .. Len(s) + 1 /\ Len(s) \in k .. Len(s)
    BY <1>1, <1>2
  <2> QED
    BY <1>1, <1>2, <2>1
<1>3. CASE ~(k < Len(s))
  BY <1>1, <1>3
<1> QED
  BY <1>2, <1>3

LEMMA BehindIs ==
  ASSUME NEW C, NEW f \in Seq(C), \A i \in 1 .. Len(f) : f[i] # Nul, NEW old, CutUp(C, old)
  PROVE  /\ Behind(f, old) \in Seq(C) /\ \A i \in 1 .. Len(Behind(f, old)) : Behind(f, old)[i] # "nl"
         /\ Text(Overlay(f, old)) = f \o Behind(f, old)
<1> DEFINE r == SubSeq(old, Len(f) + 1, Len(old))
<1>1. /\ old \in Seq(C) /\ Len(f) \in Nat /\ \A i \in 1 .. Len(old) : old[i] # "nl"
  BY LenProperties DEF CutUp
<1>2. r \in Seq(C) /\ Len(r) \in Nat /\ \A i \in 1 .. Len(r) : r[i] # "nl"
  <2>1. r \in Seq(C) /\ \A i \in 1 .. Len(r) : r[i] = old[Len(f) + i] /\ Len(f) + i \in 1 .. Len(old)
    BY <1>1, RestIs
  <2> HIDE DEF r
  <2> QED
    BY <1>1, <2>1, LenProperties
<1>3. Behind(f, old) = Text(r) /\ Overlay(f, old) = f \o r
  BY DEF Behind, Overlay
<1> HIDE DEF r
<1>4. PICK m \in 0 .. Len(r) : Text(r) = SubSeq(r, 1, m)
  BY <1>2, TextIs
<1>5. SubSeq(r, 1, m) \in Seq(C) /\ Len(SubSeq(r, 1, m)) = m /\ \A i \in 1 .. m : SubSeq(r, 1, m)[i] = r[i]
  BY <1>2
<1>6. Text(f \o r) = f \o Text(r)
  BY <1>2, TextGoesOn
<1> QED
  BY <1>2, <1>3, <1>4, <1>5, <1>6

(* Whatever the buffer held, the parser leaves it cut up. *)
LEMMA LeavesCutUp ==
  ASSUME NEW C, Nul \in C, NEW f \in Seq(C), \A i \in 1 .. Len(f) : f[i] # Nul, NEW old, CutUp(C, old)
  PROVE  CutUp(C, readparamfile(f, old).heap)
<1> DEFINE b == Overlay(f, old)
           rest == SubSeq(old, Len(f) + 1, Len(old))
           p == Scanned(Text(b)).buf
           tail == SubSeq(b, Len(p) + 1, Len(b))
<1>1. old \in Seq(C) /\ Len(f) \in Nat /\ \A i \in 1 .. Len(old) : old[i] # "nl"
  BY LenProperties DEF CutUp
<1>2. rest \in Seq(C) /\ Len(rest) \in Nat /\ \A i \in 1 .. Len(rest) : rest[i] # "nl"
  <2>1. rest \in Seq(C) /\ \A i \in 1 .. Len(rest) : rest[i] = old[Len(f) + i] /\ Len(f) + i \in 1 .. Len(old)
    BY <1>1, RestIs
  <2> HIDE DEF rest
  <2> QED
    BY <1>1, <2>1, LenProperties
<1>3. b = f \o rest
  BY DEF Overlay
<1> HIDE DEF rest, b
<1>4. /\ b \in Seq(C) /\ Len(b) = Len(f) + Len(rest)
      /\ \A i \in 1 .. Len(b) : b[i] = IF i <= Len(f) THEN f[i] ELSE rest[i - Len(f)]
  BY <1>2, <1>3, ConcatProperties
<1>5. Text(b) \in Seq(C) /\ Len(f) <= Len(Text(b)) /\ Len(Text(b)) \in Nat
  <2>1. PICK m \in 0 .. Len(rest) : Text(rest) = SubSeq(rest, 1, m)
    BY <1>2, TextIs
  <2>2. SubSeq(rest, 1, m) \in Seq(C) /\ Len(SubSeq(rest, 1, m)) = m
    BY <1>2
  <2>3. Text(b) = f \o Text(rest)
    BY <1>2, <1>3, TextGoesOn
  <2> QED
    BY <1>1, <2>1, <2>2, <2>3
<1>6. p \in Seq(C) /\ Len(p) = Len(Text(b)) /\ \A i \in 1 .. Len(p) : p[i] # "nl"
  BY <1>5, ScannedLeaves DEF ScanLeaves, ScanState
<1>7. readparamfile(f, old).heap = p \o tail
  BY DEF readparamfile, ParseContent, Overlay, b
<1> HIDE DEF p
<1>8. tail \in Seq(C) /\ Len(tail) \in Nat /\ \A i \in 1 .. Len(tail) : tail[i] # "nl"
  <2>1. Len(p) \in Nat
    BY <1>5, <1>6
  <2>2. /\ tail \in Seq(C)
        /\ \A i \in 1 .. Len(tail) : tail[i] = b[Len(p) + i] /\ Len(p) + i \in 1 .. Len(b)
    BY <1>4, <2>1, RestIs
  <2> HIDE DEF tail
  <2>3. Len(tail) \in Nat
    BY <2>2, LenProperties
  <2>4. ASSUME NEW i \in 1 .. Len(tail) PROVE tail[i] # "nl"
    <3>1. PICK k : k = Len(p) + i
      OBVIOUS
    <3>2. tail[i] = b[k] /\ k \in 1 .. Len(b)
      BY <2>2, <3>1
    <3>3. ~(k <= Len(f)) /\ k - Len(f) \in 1 .. Len(rest)
      BY <1>1, <1>2, <1>4, <1>5, <1>6, <2>3, <3>1, <3>2
    <3> QED
      BY <1>2, <1>4, <3>2, <3>3
  <2> QED
    BY <2>2, <2>3, <2>4
<1> HIDE DEF tail
<1> DEFINE z == p \o tail
<1>9. /\ z \in Seq(C) /\ Len(z) = Len(p) + Len(tail)
      /\ \A i \in 1 .. Len(z) : z[i] = IF i <= Len(p) THEN p[i] ELSE tail[i - Len(p)]
  BY <1>6, <1>8, ConcatProperties, ZenonT(30)
<1> HIDE DEF z
<1>10. \A i \in 1 .. Len(z) : z[i] # "nl"
  <2>1. Len(p) \in Nat
    BY <1>5, <1>6
  <2> QED
    BY <1>6, <1>8, <1>9, <2>1
<1> QED
  BY <1>7, <1>9, <1>10 DEF CutUp, z

(* A file that fits, in a buffer that goes on with at most one word: the   *)
(* parser does not run wild, and assigns what it would without the buffer. *)
LEMMA ReadInBuffer ==
  ASSUME NEW C, Nul \in C, NEW f \in Seq(C), \A i \in 1 .. Len(f) : f[i] # Nul, NEW old, CutUp(C, old),
         f # <<>>, f[Len(f)] = "nl", Fits(f),
         {"sp", "quote", "#"} \cap Range(Behind(f, old)) = {}
  PROVE  /\ ~readparamfile(f, old).wild
         /\ readparamfile(f, old).params = Assigned(Scanned(f).items).params
<1> DEFINE w == Behind(f, old)
<1>1. w \in Seq(C) /\ (\A i \in 1 .. Len(w) : w[i] # "nl") /\ Text(Overlay(f, old)) = f \o w
  BY BehindIs
<1>2. \A i \in 1 .. Len(w) : Plain(w[i])
  <2>1. DOMAIN w = 1 .. Len(w)
    BY <1>1, LenProperties
  <2>2. \A i \in 1 .. Len(w) : w[i] \in Range(w)
    BY <2>1 DEF Range
  <2> HIDE DEF w
  <2>3. {"sp", "quote", "#"} \cap Range(w) = {}
    BY DEF w
  <2> QED
    BY <1>1, <2>2, <2>3 DEF Plain
<1>3. /\ readparamfile(f, old).params = Assigned(Scanned(f \o w).items).params
      /\ readparamfile(f, old).wild = Wild(Scanned(f \o w).items)
  BY <1>1 DEF readparamfile, ParseContent
<1> HIDE DEF w
<1>4. OneMore(Scanned(f), Scanned(f \o w))
  BY <1>1, <1>2, LeftoverWords
<1> DEFINE a == Scanned(f).items
           b == Scanned(f \o w).items
<1>5. a \in Seq(Seq(C)) /\ b \in Seq(Seq(C))
  <2>1. f \o w \in Seq(C)
    BY <1>1, ConcatProperties
  <2> QED
    BY <2>1, ScannedLeaves DEF ScanLeaves, ScanState
<1>6. Len(b) \in {Len(a), Len(a) + 1} /\ \A i \in 1 .. Len(a) : b[i] = a[i]
  BY <1>4 DEF OneMore
<1>7. Len(a) % 3 = 0 /\ Len(a) < MaxItems /\ Len(a) \in Nat /\ MaxItems \in Nat
  <2>1. Len(a) % 3 = 0 /\ Len(a) < MaxItems
    BY DEF Fits
  <2>2. Len(a) \in Nat
    BY <1>5, LenProperties
  <2> QED
    BY <2>1, <2>2, ParamFileAssumption
<1> HIDE DEF a, b
<1>8. Assigned(b) = Assigned(a)
  BY <1>5, <1>6, <1>7, SameAssigned
<1>9. ~Wild(b)
  <2>1. Len(b) <= MaxItems
    BY <1>6, <1>7
  <2>2. Len(b) % 3 # 2
    BY <1>6, <1>7
  <2> QED
    BY <1>6, <1>7, <2>1, <2>2 DEF Wild
<1> QED
  BY <1>3, <1>8, <1>9 DEF a, b
-----------------------------------------------------------------------------
(* What is read of the area, and what the parser's buffer holds.           *)
Chars == Lexemes \union {Nul}
Buffers == /\ read \in [want : 0 .. EeLen, got : Seq(Lexemes)]
           /\ CutUp(Chars, heap)

(* Of the configurations, those that end with a newline are read as they   *)
(* are meant.                                                              *)
ReadableFiles == \A f \in Files : f # <<>> /\ f[Len(f)] = "nl" => ReadAsMeant(f)

(* ParamsAsStored from the moment the parameters are loaded, and why the   *)
(* parser ran wild.                                                        *)
Loaded == {"create", "check", "mem", "setparams", "cap", "links", "pipeline", "formats", "queue", "on", "md",
           "test", "frame", "gpio"}
AsStored ==
  /\ pc \in Loaded /\ Readable /\ ReadableFiles => params = Meaning(stored)
  /\ pc = "crashed" => ~Readable

LEMMA InitBuffers == Init => Buffers /\ AsStored
<1> SUFFICES ASSUME Init PROVE Buffers /\ AsStored
  OBVIOUS
<1>1. read = [want |-> 0, got |-> <<>>] /\ heap = <<>> /\ pc = "hold"
  BY DEF Init
<1>2. 0 \in 0 .. EeLen /\ <<>> \in Seq(Lexemes) /\ <<>> \in Seq(Chars) /\ Len(<<>>) = 0
  BY BoardAssumption
<1> QED
  BY <1>1, <1>2 DEF Buffers, CutUp, AsStored, Loaded

LEMMA QuietKeeps ==
  ASSUME Buffers, AsStored, UNCHANGED <<read, heap, params, size, eeprom, fresh, torn, behind>>,
         pc' \in Loaded => pc \in Loaded, pc' = "crashed" => pc = "crashed"
  PROVE  (Buffers /\ AsStored)'
<1>1. Readable' = Readable /\ stored' = stored
  BY DEF Readable, stored
<1> QED
  BY <1>1 DEF Buffers, AsStored

LEMMA ReadKeeps ==
  ASSUME IInv, Buffers, ReadHead \/ ReadNothing \/ ReadRest
  PROVE  (Buffers /\ AsStored)'
<1> USE DEF input, store, history
<1>1. /\ size \in 0 .. EeLen + 1 /\ eeprom \in Seq(Lexemes) /\ Len(eeprom) = EeLen
      /\ EeLen \in Nat /\ Page \in 1 .. EeLen
  BY BoardAssumption DEF IInv, Types
<1>e. [want |-> 0, got |-> <<>>] \in [want : 0 .. EeLen, got : Seq(Lexemes)]
  BY <1>1
<1>2. CASE ReadHead
  <2> DEFINE k == IF size < Page THEN size ELSE Page
  <2>1. /\ read' = (IF size > EeLen THEN [want |-> 0, got |-> <<>>] ELSE [want |-> size, got |-> SubSeq(eeprom, 1, k)])
        /\ heap' = heap /\ pc' = (IF size \in Page + 1 .. EeLen THEN "rest" ELSE "enc")
    BY <1>2 DEF ReadHead
  <2>2. k \in 0 .. Len(eeprom)
    BY <1>1
  <2> HIDE DEF k
  <2>3. SubSeq(eeprom, 1, k) \in Seq(Lexemes)
    BY <1>1, <2>2
  <2>4. size <= EeLen => [want |-> size, got |-> SubSeq(eeprom, 1, k)] \in [want : 0 .. EeLen, got : Seq(Lexemes)]
    BY <1>1, <2>3
  <2>5. read' \in [want : 0 .. EeLen, got : Seq(Lexemes)]
    BY <1>1, <1>e, <2>1, <2>4
  <2> QED
    BY <2>1, <2>5 DEF Buffers, AsStored, Loaded
<1>4. CASE ReadNothing
  BY <1>e, <1>4 DEF ReadNothing, Buffers, AsStored, Loaded
<1>3. CASE ReadRest
  <2> DEFINE r == SubSeq(eeprom, Page + 1, read.want)
  <2>1. read' = [read EXCEPT !.got = read.got \o r] /\ heap' = heap /\ pc' = "enc"
    BY <1>3 DEF ReadRest
  <2>2. read.want \in 0 .. EeLen /\ read.got \in Seq(Lexemes)
    BY DEF Buffers
  <2>3. r \in Seq(Lexemes)
    BY <1>1, <2>2
  <2> HIDE DEF r
  <2>4. read.got \o r \in Seq(Lexemes)
    BY <2>2, <2>3
  <2>5. read' \in [want : 0 .. EeLen, got : Seq(Lexemes)]
    BY <2>1, <2>2, <2>4 DEF Buffers
  <2> QED
    BY <2>1, <2>5 DEF Buffers, AsStored, Loaded
<1> QED
  BY <1>2, <1>3, <1>4

(* Loading: what is read is a configuration, and the parser reads it as it *)
(* is meant.                                                               *)
LEMMA LoadKeeps ==
  ASSUME Nul \notin Lexemes, IInv, Buffers, LoadParams
  PROVE  (Buffers /\ AsStored)'
<1> USE DEF input, store, host, flags, history
<1>1. /\ pc = "load" /\ read' = [want |-> 0, got |-> <<>>]
      /\ UNCHANGED <<size, eeprom, fresh, torn>>
  BY DEF LoadParams
<1>2. PICK old \in {heap, <<>>} :
        LET p == readparamfile(read.got, old)
        IN  /\ pc' = "create" \/ (p.wild /\ pc' = "crashed")
            /\ params' = (IF p.wild THEN NoParams ELSE p.params) /\ heap' = p.heap
            /\ behind' = ({"sp", "quote", "#"} \cap Range(Behind(read.got, old)) # {})
  BY DEF LoadParams
<1>3. LET p == readparamfile(read.got, old)
      IN  /\ ~p.wild => pc' = "create" /\ params' = p.params
          /\ heap' = p.heap
          /\ behind' = ({"sp", "quote", "#"} \cap Range(Behind(read.got, old)) # {})
  BY <1>2
<1>4. CutUp(Chars, old)
  <2>1. CutUp(Chars, <<>>)
    BY DEF CutUp
  <2> QED
    BY <1>2, <2>1 DEF Buffers
<1>5. /\ Nul \in Chars /\ read.got \in Seq(Lexemes) /\ Lexemes \subseteq Chars
  BY DEF Chars, Buffers
<1>6. read.got \in Seq(Chars) /\ \A i \in 1 .. Len(read.got) : read.got[i] # Nul
  <2>1. \A i \in 1 .. Len(read.got) : read.got[i] \in Lexemes
    BY <1>5, ElementOfSeq
  <2>2. read.got \in Seq(Chars)
    BY <1>5
  <2> QED
    BY <1>5, <2>1, <2>2
<1>7. Buffers'
  <2>1. CutUp(Chars, heap')
    BY <1>3, <1>4, <1>5, <1>6, LeavesCutUp
  <2>2. 0 \in 0 .. EeLen /\ <<>> \in Seq(Lexemes)
    BY BoardAssumption
  <2>3. Chars' = Chars
    BY DEF Chars
  <2> QED
    BY <1>1, <2>1, <2>2 DEF Buffers
<1>8. AsStored'
  <2> SUFFICES ASSUME Readable'
               PROVE  pc' # "crashed" /\ (ReadableFiles => params' = Meaning(stored'))
    BY DEF AsStored, ReadableFiles
  <2>0. /\ stored' = stored /\ fresh /\ ~torn /\ ~behind' /\ size \in 1 .. EeLen
        /\ stored[size] = "nl" /\ Fits(stored)
    BY <1>1 DEF Readable, stored
  <2>1. read.got = stored
    BY <1>1, <2>0 DEF IInv, Reading, stored
  <2>2. PICK f \in Files : Stored(f)
    BY <1>1, <2>0 DEF IInv, Area
  <2>3. stored = f /\ size = Len(f)
    BY <2>2, StoredIsFile DEF IInv, Stored, stored
  <2>4. f # <<>> /\ f[Len(f)] = "nl" /\ Fits(f)
    BY <2>0, <2>3
  <2>6. f \in Seq(Chars) /\ (\A i \in 1 .. Len(f) : f[i] # Nul) /\ {"sp", "quote", "#"} \cap Range(Behind(f, old)) = {}
    BY <1>3, <1>6, <2>0, <2>1, <2>3
  <2>7. ~readparamfile(f, old).wild /\ readparamfile(f, old).params = Assigned(Scanned(f).items).params
    BY ONLY <1>4, <1>5, <2>4, <2>6, ReadInBuffer
  <2>8. pc' = "create" /\ params' = Assigned(Scanned(f).items).params
    BY <1>3, <2>1, <2>3, <2>7
  <2>9. ReadableFiles => Assigned(Scanned(f).items).params = Meaning(f)
    BY <2>4 DEF ReadableFiles, ReadAsMeant, ParseContent
  <2> QED
    BY <2>0, <2>3, <2>8, <2>9
<1> QED
  BY <1>7, <1>8

(* Nothing but LoadParams and GetEncCfg() touches the buffers; whoever     *)
(* writes the area either says so or does it where nothing is loaded.      *)
LEMMA OthersKeep ==
  ASSUME Buffers, AsStored, Next, ~LoadParams, ~ReadHead, ~ReadNothing, ~ReadRest
  PROVE  (Buffers /\ AsStored)'
<1> USE DEF input, store, host, flags, leaks, history
<1>1. CASE NewEnc \/ Create \/ CheckWarnings \/ MemInit \/ SetParams \/ NewCap \/ EnableLinks \/ InitPipeline \/ SetFormats \/ QueueBufs
             \/ StreamOn \/ InitMD
  <2>1. /\ UNCHANGED <<read, heap, params, size, eeprom, fresh, torn, behind>>
        /\ pc' \in Loaded => pc \in Loaded
        /\ pc' = "crashed" => pc = "crashed"
    BY <1>1 DEF NewEnc, Create, CheckWarnings, MemInit, SetParams, NewCap, EnableLinks, InitPipeline, SetFormats, QueueBufs,
                StreamOn, InitMD, Acquire, Step, Loaded
  <2> QED
    BY <2>1, QuietKeeps
<1>2. CASE Test \/ Frame \/ Gpio \/ Button
  <2>1. /\ UNCHANGED <<read, heap, params, size, eeprom, fresh, torn, behind>>
        /\ pc' \in Loaded => pc \in Loaded
        /\ pc' = "crashed" => pc = "crashed"
    BY <1>2 DEF Test, Frame, Gpio, Button, Loaded
  <2> QED
    BY <2>1, QuietKeeps
<1>3. CASE Throw \/ OutOf
  <2>1. PICK p, e, r, n : Raise(p, e, r, n) /\ p \in Faulty
    BY <1>3 DEF Throw, OutOf, Faulty
  <2>2. /\ UNCHANGED <<read, heap, params, size, eeprom, fresh, torn, behind>>
        /\ pc' \in {"catch", "end_encoder", "close", "stream_off"}
    BY <2>1 DEF Raise, UnwindFrom, Faulty
  <2> QED
    BY <2>2, QuietKeeps DEF Loaded
<1>4. CASE StreamOff \/ Terminate \/ CloseFds \/ FreeBufs \/ EndEncoder \/ RmanKeeps \/ Catch
  <2>1. /\ UNCHANGED <<read, heap, params, size, eeprom, fresh, torn, behind>>
        /\ pc' \in {"close", "terminated", "free", "end_encoder", "catch", "exited", "hold", "default"}
    BY <1>4 DEF StreamOff, Terminate, CloseFds, FreeBufs, EndEncoder, RmanKeeps, DeleteEnc, Catch, Release
  <2> QED
    BY <2>1, QuietKeeps DEF Loaded
<1>5. CASE Hold \/ WriteDefault \/ DefaultUnwritten
  <2>1. UNCHANGED <<read, heap>> /\ pc' \in {"head", "default_rest", "exited", "hold"}
    BY <1>5 DEF Hold, WriteDefault, DefaultUnwritten
  <2> QED
    BY <2>1 DEF Buffers, AsStored, Loaded
<1>6. CASE Command /\ ~SetEncCfg
  <2>1. /\ UNCHANGED <<read, heap, params, size, eeprom, fresh, torn, behind>> /\ pc' = pc
    BY <1>6 DEF Command, Stop, Start, SetBitrate
  <2> QED
    BY <2>1, QuietKeeps
<1>7. CASE (Command /\ SetEncCfg) \/ SetEncCfgRest
  <2>1. UNCHANGED <<read, heap>> /\ fresh' = FALSE
    BY <1>7 DEF Command, SetEncCfg, SetEncCfgRest
  <2> QED
    BY <2>1 DEF Buffers, AsStored, Readable
<1> QED
  BY <1>1, <1>2, <1>3, <1>4, <1>5, <1>6, <1>7 DEF Next, Main, Other, SetUp, Unwind

LEMMA LoadedAsStored ==
  ASSUME Nul \notin Lexemes
  PROVE  Spec => []AsStored
<1>1. ASSUME IInv, Buffers, AsStored, [Next]_vars
      PROVE  (Buffers /\ AsStored)'
  <2>1. CASE ReadHead \/ ReadNothing \/ ReadRest
    BY <1>1, <2>1, ReadKeeps
  <2>2. CASE LoadParams
    BY <1>1, <2>2, LoadKeeps
  <2>3. CASE Next /\ ~LoadParams /\ ~ReadHead /\ ~ReadNothing /\ ~ReadRest
    BY <1>1, <2>3, OthersKeep
  <2>4. CASE UNCHANGED vars
    BY <1>1, <2>4, QuietKeeps DEF vars, input, store, history
  <2> QED
    BY <1>1, <2>1, <2>2, <2>3, <2>4
<1>2. Init => Buffers /\ AsStored
  BY InitBuffers
<1> QED
  BY <1>1, <1>2, Invariant, PTL DEF Spec

(* No exception and no command ends the program: only the shutdown input   *)
(* does, a destructor that throws, or a configuration the parser is not    *)
(* made for, if none has a NUL in it.                                      *)
THEOREM ButtonOrTerminate ==
  ASSUME Nul \notin Lexemes
  PROVE  Spec => []ExitsOnButton
<1>1. IInv /\ AsStored => ExitsOnButton
  BY DEF IInv, Ending, AsStored, ExitsOnButton
<1> QED
  BY <1>1, Invariant, LoadedAsStored, PTL

(* The configurations as they are written: none has a NUL in it, and the   *)
(* lines of each that ends with a newline are empty or assign.             *)
RegularFiles == /\ Nul \notin Lexemes
                /\ \A f \in Files : f # <<>> /\ f[Len(f)] = "nl" => Regular(f)

(* The encoder runs with the parameters the stored configuration names,    *)
(* whatever older one the parser's buffer held.                            *)
THEOREM RunsAsStored ==
  ASSUME RegularFiles
  PROVE  Spec => []ParamsAsStored
<1>1. ReadableFiles
  <2>1. \A f \in Files : f \in Seq(Lexemes)
    BY BoardAssumption
  <2> QED
    BY <2>1, ParserReadsRegular DEF RegularFiles, ReadableFiles
<1>2. AsStored => ParamsAsStored
  BY <1>1 DEF AsStored, ParamsAsStored, Loaded, Running
<1> QED
  BY <1>2, LoadedAsStored, PTL DEF RegularFiles
=============================================================================
