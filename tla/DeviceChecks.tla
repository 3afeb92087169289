---------------------------- MODULE DeviceChecks ---------------------------
(***************************************************************************)
(* What CameraLink, VideoDriver and Frames compute, against what they      *)
(* should, on bounded inputs.  TLC evaluates the assumptions when it       *)
(* starts.                                                                 *)
(***************************************************************************)
EXTENDS Integers, Sequences, SequencesExt

Link == INSTANCE CameraLink
Driver == INSTANCE VideoDriver
Small == INSTANCE Frames WITH W <- 16, H <- 64
Real == INSTANCE Frames WITH W <- 320, H <- 256
Tokens == INSTANCE EncTokens

Cmds == {0, 7, 18, 121, 255}
Args == {<<>>, <<0, 7>>, <<3, 3>>, [i \in 1 .. 6 |-> 250 + (i % 5)], [i \in 1 .. 7 |-> 15 * i]}

(* However long a command is, its pieces are joined to what was typed, for *)
(* any bytes behind the last piece, and what is typed is what Flir would   *)
(* send itself; anything but one byte is not sent.                         *)
ASSUME MessagesComeWhole ==
  \A c \in Cmds, a \in Args, junk \in {0, 255} :
    LET msg == Link!send_command(<<c>>, a)
        pkts == Link!SendCameraRegisterVal(msg, junk)
    IN  /\ msg = Link!Command(c, a)
        /\ FlattenSeq([i \in DOMAIN pkts |-> Link!Heard(2, 2, pkts[i])]) = msg
        /\ \A i \in DOMAIN pkts : Len(pkts[i]) = 12 /\ Link!Heard(1, 2, pkts[i]) = <<>>
ASSUME OneByteCommands == Link!send_command(<<1, 2>>, <<>>) = <<>> /\ Link!send_command(<<>>, <<1>>) = <<>>

(* The camera finds both sums right: a message with its sum has sum 0.     *)
ASSUME SumsMatch ==
  /\ Link!crc(<<49, 50, 51, 52, 53, 54, 55, 56, 57>>) = 12739
  /\ \A c \in Cmds, a \in Args : LET msg == Link!Command(c, a)
                                 IN  Link!crc(msg) = 0 /\ Link!crc(SubSeq(msg, 1, 8)) = 0

(* The guard against the shutter's command looks at the number of bytes    *)
(* instead of the command: it would reject no shutter command, but one     *)
(* with 121 * 256 bytes of arguments.                                      *)
ASSUME ShutterPasses == \A msg \in {Link!Command(121, a) : a \in Args} : ~Link!Rejected(msg)
ASSUME WrongRejected == Link!Rejected(<<110, 0, 0, 1>> \o Link!BE16(121 * 256))

(* A register that is set from the window is read back, and no other one   *)
(* changes; but 0xFFFF looks like no answer at all.                        *)
Regs == [n \in 0 .. 127 |-> n]
ASSUME RegistersReadBack ==
  \A addr \in {2 * n : n \in 0 .. 23} : \A val \in {0, 255, 256, 65534, 65535}, junk \in {0, 65535} :
    LET new == Link!auxiliaryCb(Regs, 1, 1, Link!SendRegisterVal(addr, val, junk))
        answer == Link!SendRegisterVal(addr, Link!GetRegister(new, addr), junk)
    IN  /\ new = [Regs EXCEPT ![addr \div 2] = val]
        /\ Link!Shown(answer) = (IF val = 65535 THEN {} ELSE {val})
        /\ Link!auxiliaryCb(Regs, 2, 1, Link!SendRegisterVal(addr, val, junk)) = Regs
ASSUME TimesAreNoRegisters == LET pkt == Link!SendTimestamp(1, 2, 7)
                              IN  Link!auxiliaryCb(Regs, 1, 1, pkt) = Regs /\ Link!Shown(pkt) = {} /\ Len(pkt) = 12
-----------------------------------------------------------------------------
(* The driver takes what Cap asks for, and the stream can be switched on   *)
(* and off again.                                                          *)
ASSUME DriverAgrees ==
  /\ Driver!s_std("NTSC") = 0 /\ Driver!s_routing(0, 0) = 0
  /\ Driver!set_pad_format(Driver!Asked(320, 256)) = 0
  /\ \A was \in {0, 1} : LET on == Driver!s_stream(was, 1)
                         IN  on.ret = 0 /\ Driver!s_stream(on.streaming, 0) = [ret |-> 0, streaming |-> 0]
  /\ Driver!s_stream(1, 2) = [ret |-> Driver!ENODEV, streaming |-> 1]

(* It does not do it: what it says afterwards, on every way it can be      *)
(* asked, is a larger picture than the one the pads behind it expect.      *)
ASSUME DriverKeepsItsSize ==
  LET says == Driver!get_pad_format("active")
  IN  /\ says = Driver!get_pad_format("try") /\ says = Driver!mbus_fmt(Driver!Asked(320, 256))
      /\ says.width > 320 /\ says.height > 256
      /\ [says EXCEPT !.width = 320, !.height = 256] = Driver!Asked(320, 256)
-----------------------------------------------------------------------------
Frame(n) == [i \in Small!Offsets |-> <<n, i>>]
Stored == FoldLeft(LAMBDA s, n : LET a == Small!add_frame(s.file, Frame(n))
                                 IN  [file |-> a.file, offs |-> Append(s.offs, a.off)],
                   [file |-> Small!AviMux, offs |-> <<>>], <<1, 2, 3, 4>>)

(* Where a frame was put in a file is where its luma is found.  The chroma *)
(* of a delayed frame, in which the FPGA marks what it detected, is not    *)
(* stored: it is the live frame's.                                         *)
ASSUME LumaComesBack ==
  \A n \in 1 .. 4 : \A live \in n .. 4 :
    LET got == Small!next_frame(Stored.file, Stored.offs[n], Frame(live))
    IN  \A i \in Small!Offsets : got[i] = <<IF i < 16 * 64 THEN n ELSE live, i>>

(* The longest segment, with FPS_MAX frames a second and the frames that   *)
(* come until its age is noticed, is smaller than the room that            *)
(* delete_old_files() makes for it.                                        *)
ASSUME SegmentFits ==
  Real!Tell(Real!AviMux) + 8 * 32 * (8 + 320 * 256) < 320 * 256 * 30 * 8 * 2

Params == [inputWidth : {16, 20, 320}, inputHeight : {16, 17, 32, 64}, inputContentType : {0, 1},
           targetFrameRate : {8500}, enableBufSEI : {0}]

(* With a configuration for pictures of at least half the height, the      *)
(* encoder gets every other line of luma and of chroma.                    *)
ASSUME EveryOtherLine ==
  \A p \in Params : Small!dim_init(p).height >= 32 =>
    LET got == Small!Coded(Frame(1), p)
    IN  /\ \A q \in DOMAIN got.Y : got.Y[q] = <<1, 16 * (2 * q[2]) + q[1]>>
        /\ \A q \in DOMAIN got.UV : got.UV[q] = <<1, 16 * (64 + 2 * q[2]) + q[1]>>

(* With one for smaller pictures, what it gets as chroma is luma.          *)
ASSUME LumaForChroma ==
  \A p \in Params : Small!dim_init(p).height < 32 =>
    LET got == Small!Coded(Frame(1), p) IN \A q \in DOMAIN got.UV : got.UV[q][2] < 16 * 64

(* The pitch the codec is told is the one the lines were copied with.      *)
ASSUME PitchAgrees ==
  \A p \in Params : /\ Small!framePitch(p) = Small!dim_init(p).width
                    /\ Small!dynamicparams_init(p).captureWidth >= Small!framePitch(p)
                    /\ Small!dim_init(p).width <= Small!FixedParams.maxWidth
-----------------------------------------------------------------------------
(* No name is hidden by another, no two assign one parameter (so that the  *)
(* parameters are numbers by name, as in ParamFile), and a file with each  *)
(* of them is far from CFG_MAX_ITEMS_TO_PARSE items.                       *)
ASSUME NamesDistinct ==
  /\ \A i, j \in DOMAIN Tokens!sTokenMap : i # j => /\ Tokens!sTokenMap[i][1] # Tokens!sTokenMap[j][1]
                                                 /\ Tokens!sTokenMap[i][2] # Tokens!sTokenMap[j][2]
  /\ 3 * Len(Tokens!sTokenMap) < 1000

(* The parser knows each name of the configuration in the program: the     *)
(* first one it did not know would end the reading without a word.         *)
Default == Tokens!DefaultEncCfg
ASSUME DefaultIsKnown ==
  \A i, j \in DOMAIN Default : /\ Default[i][1] \in Tokens!Names
                               /\ i # j => Default[i][1] # Default[j][1]

(* Its picture is every other line of a captured one, so that              *)
(* copyInputBuf() leaves nothing out and mixes no planes, and its rates    *)
(* are within what the encoder is created for.                             *)
ASSUME DefaultFitsCamera ==
  LET v(place) == Tokens!Value(Default, place)
      p == [inputWidth |-> v("inputWidth"), inputHeight |-> v("inputHeight"),
            inputContentType |-> v("inputContentType"), targetFrameRate |-> v("targetFrameRate"),
            enableBufSEI |-> v("enableBufSEI")]
  IN  /\ Real!dim_init(p) = [width |-> 320, height |-> 256 \div 2] /\ Real!framePitch(p) = 320
      /\ v("targetBitRate") <= Real!FixedParams.maxBitRate
      /\ v("targetFrameRate") <= Real!FixedParams.maxFrameRate
      /\ v("rcQMin") <= v("rcQMax") /\ v("rcQMinI") <= v("rcQMaxI")
      /\ \A q \in {"initQ", "intraFrameQP", "interPFrameQP", "rcQMax", "rcQMaxI"} : v(q) \in 0 .. 51

(* It names every parameter but the picture's aspect and the regions of    *)
(* interest, of which it says that they are not used.                      *)
ASSUME DefaultIsComplete ==
  LET named == {Default[i][1] : i \in DOMAIN Default}
      roi == {Tokens!sTokenMap[i][1] : i \in 43 .. 55}
  IN  Tokens!Names \ named = roi \union {"AspectRatioWidth", "AspectRatioHeight"}
      /\ Tokens!Value(Default, "enableROI") = 0
=============================================================================
