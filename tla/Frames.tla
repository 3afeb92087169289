------------------------------- MODULE Frames ------------------------------
(***************************************************************************)
(* The bytes of a frame on their way from the capture buffer through a     *)
(* segment file (AviMux, FileWriter) into the encoder's input buffers      *)
(* (Enc).  A captured frame is W * H bytes of luma and half as many of     *)
(* chroma, in lines of W; a frame is the function from offsets to bytes.   *)
(***************************************************************************)
EXTENDS Integers, Sequences, SequencesExt

CONSTANTS W, H            \* SRC_WIDTH, SRC_HEIGHT

Offsets == 0 .. (3 * W * H) \div 2 - 1

(* The structures of an AVI header, by the sizes of their fields.          *)
Dwords(n) == [i \in 1 .. n |-> 4]
SizeOf(fields) == FoldLeft(+, 0, fields)
avih_t == Dwords(14)
strh_t == Dwords(3) \o <<2, 2>> \o Dwords(12)
strf_t == Dwords(3) \o <<2, 2>> \o Dwords(6)

(* A list says that it is empty; the chunk of a structure, its size.       *)
ListOf(id) == [id |-> id, size |-> 0, bytes |-> 12, data |-> <<>>]
Chunk(id, size, data) == [id |-> id, size |-> size, bytes |-> 8 + size, data |-> data]

write_hdrl == <<ListOf("AVI "), ListOf("hdrl"), Chunk("avih", SizeOf(avih_t), <<>>), ListOf("strl"),
                Chunk("strh", SizeOf(strh_t), <<>>), Chunk("strf", SizeOf(strf_t), <<>>)>>
open_movi == <<ListOf("movi")>>

(* The end of an AviMux writes nothing: neither sizes nor an index.        *)
AviMux == write_hdrl \o open_movi
Tell(file) == FoldLeft(LAMBDA n, e : n + e.bytes, 0, file)

(* AviMux::add_frame() as FileWriter calls it: the luma, and where it is.  *)
Luma(frame) == [i \in 0 .. W * H - 1 |-> frame[i]]
add_frame(file, frame) == [file |-> Append(file, Chunk("00db", W * H, Luma(frame))),
                           off |-> Tell(file) + 8]

(* next_frame() reads W * H bytes from there over the live frame.          *)
ReadAt(file, off) ==
  LET at == {i \in DOMAIN file : Tell(SubSeq(file, 1, i - 1)) + 8 = off /\ file[i].size = W * H}
  IN  file[CHOOSE i \in at : TRUE].data
next_frame(file, off, live) ==
  LET luma == ReadAt(file, off) IN [i \in Offsets |-> IF i \in DOMAIN luma THEN luma[i] ELSE live[i]]
-----------------------------------------------------------------------------
(* load_params(): what is set after the configuration was read.            *)
FixedParams == [maxWidth |-> 2048, maxHeight |-> 2048, maxBitRate |-> 20000000, maxFrameRate |-> 120000]

RoundUp(n, m) == ((n + m - 1) \div m) * m

(* dim_init(), from the parameters: to whole macroblocks, or pairs.        *)
dim_init(p) == [width  |-> RoundUp(p.inputWidth, 16),
                height |-> RoundUp(p.inputHeight, IF p.inputContentType = 0 THEN 16 ELSE 32)]

(* dynamicparams_init(): what follows from other parameters; the rest of   *)
(* them is 0.                                                              *)
dynamicparams_init(p) ==
  [refFrameRate |-> p.targetFrameRate, enablePicTimSEI |-> p.enableBufSEI,
   captureWidth |-> dim_init(p).width * 2^p.inputContentType]

(* mem_init(): the pitch the codec is told, and the one of copyInputBuf(). *)
framePitch(p) ==
  LET width == dim_init(p).width
      capture == dynamicparams_init(p).captureWidth
  IN  IF capture = 0 \/ capture < width THEN width ELSE width

(* copyInputBuf(): what is put where in the two planes.                    *)
Least(a, b) == IF a < b THEN a ELSE b
copyInputBuf(in, width, height, stride, dims) ==
  LET w == Least(width, dims.width)
      h == Least(height, dims.height)
      Lines(first, n) == [p \in (0 .. w - 1) \X (0 .. n - 1) |-> in[first + stride * p[2] + p[1]]]
  IN  [Y |-> Lines(0, h), UV |-> Lines(h * stride, h \div 2)]

(* run() gives every other line to the encoder. *)
Coded(frame, p) == copyInputBuf(frame, W, H \div 2, 2 * W, dim_init(p))
=============================================================================
