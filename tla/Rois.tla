-------------------------------- MODULE Rois -------------------------------
(***************************************************************************)
(* The regions of interest the user draws (ROIs, dswidget.cpp): a list of  *)
(* polygons, the last of which is being drawn, how they are edited, and    *)
(* the bytes they are stored as.                                           *)
(***************************************************************************)
EXTENDS Integers, Sequences, SequencesExt

(* rois, m_inverted, and m_pt_sel with 0 for "none".                       *)
NoRois == [rois |-> <<>>, inverted |-> FALSE, sel |-> <<0, 0>>]

dist2(p, q) == (p[1] - q[1]) * (p[1] - q[1]) + (p[2] - q[2]) * (p[2] - q[2])
Hits(r, p) == {<<i, j>> \in (DOMAIN r.rois) \X (1 .. 255) :
                 j \in DOMAIN r.rois[i] /\ dist2(p, r.rois[i][j]) <= 25}

(* The first point that is near enough, polygon by polygon. *)
selectPt(r, p) ==
  [r EXCEPT !.sel = IF Hits(r, p) = {} THEN <<0, 0>>
                    ELSE CHOOSE h \in Hits(r, p) :
                           \A g \in Hits(r, p) : h[1] < g[1] \/ (h[1] = g[1] /\ h[2] <= g[2])]

(* The first polygon around the point; around says which are.              *)
selectRoi(r, around) ==
  [r EXCEPT !.sel = IF around = {} THEN <<0, 0>>
                    ELSE <<CHOOSE i \in around : \A j \in around : i <= j, 0>>]

movePt(r, p) ==
  IF r.sel[1] \in DOMAIN r.rois /\ r.sel[2] \in DOMAIN r.rois[r.sel[1]]
  THEN [r EXCEPT !.rois[r.sel[1]][r.sel[2]] = p] ELSE r

(* A polygon without points is removed. *)
deletePt(r) ==
  LET roi == RemoveAt(r.rois[r.sel[1]], r.sel[2])
  IN  [r EXCEPT !.rois = IF roi = <<>> THEN RemoveAt(@, r.sel[1]) ELSE [@ EXCEPT ![r.sel[1]] = roi]]

deleteRoi(r) == [r EXCEPT !.rois = RemoveAt(@, r.sel[1])]

addPt(r, p) ==
  LET rois == IF r.rois = <<>> THEN <<<<>>>> ELSE r.rois
  IN  [r EXCEPT !.rois = [rois EXCEPT ![Len(rois)] = Append(@, p)]]

finishRoi(r) == IF r.rois # <<>> /\ Last(r.rois) # <<>> THEN [r EXCEPT !.rois = Append(@, <<>>)] ELSE r
clearRois(r) == [r EXCEPT !.rois = <<>>]
invert(r) == [r EXCEPT !.inverted = ~@]
-----------------------------------------------------------------------------
(* mousePressEvent(), mouseMoveEvent() and the menu of showPopup().        *)
LeftPress(r, p) == LET s == selectPt(r, p) IN IF s.sel = <<0, 0>> THEN addPt(s, p) ELSE s
Drag(r, p) == IF r.sel[1] > 0 /\ r.sel[2] > 0 THEN movePt(r, p) ELSE r
RightPress(r, p, around, choice) ==
  LET s == selectPt(r, p)
      t == selectRoi(s, around)
  IN  IF s.sel # <<0, 0>> THEN deletePt(s)
      ELSE CASE choice = "invert" -> invert(t)
             [] choice = "finish" -> finishRoi(t)
             [] choice = "delete" /\ t.sel[1] > 0 -> deleteRoi(t)
             [] OTHER -> t
-----------------------------------------------------------------------------
Byte(n) == n % 256
Word(n) == <<Byte(n), Byte(n \div 256)>>

(* serialize(): assert()s that there are less than 256 of everything. *)
serialize(r) ==
  <<IF r.inverted THEN 1 ELSE 0, Len(r.rois)>>
    \o FlattenSeq([i \in DOMAIN r.rois |->
         <<Len(r.rois[i])>> \o FlattenSeq([j \in DOMAIN r.rois[i] |->
                                  Word(r.rois[i][j][1]) \o Word(r.rois[i][j][2])])])

(* deserialize() returns as soon as a byte it read was the last one: the   *)
(* point those bytes were for is then missing.  s.it is the next byte.     *)
ReadPt(b, s) ==
  IF s.left THEN s
  ELSE IF s.it + 4 > Len(b) THEN [s EXCEPT !.left = TRUE]
  ELSE [s EXCEPT !.it = @ + 4,
                 !.rois[s.i] = Append(@, <<b[s.it] + 256 * b[s.it+1], b[s.it+2] + 256 * b[s.it+3]>>)]
ReadRoi(b, s, i) ==
  IF s.left THEN s
  ELSE IF s.it = Len(b) THEN [s EXCEPT !.left = TRUE]
  ELSE FoldLeft(LAMBDA t, j : ReadPt(b, t), [s EXCEPT !.it = @ + 1, !.i = i], [j \in 1 .. b[s.it] |-> j])

deserialize(r, b) ==
  LET n == IF Len(b) > 1 THEN b[2] ELSE 0
      s == FoldLeft(LAMBDA t, i : ReadRoi(b, t, i),
                    [it |-> 3, i |-> 0, left |-> Len(b) < 3,
                     rois |-> IF Len(b) > 1 THEN [i \in 1 .. n |-> <<>>] ELSE <<>>],
                    [i \in 1 .. n |-> i])
  IN  [r EXCEPT !.inverted = (b[1] # 0), !.rois = IF s.left THEN s.rois ELSE <<>>]
-----------------------------------------------------------------------------
(* UploadROI(): the map, eight pixels in a byte, the first one highest,    *)
(* where a pixel counts if it is drawn or set in the map of before; then   *)
(* the polygons, after the last one was finished.                          *)
PixelByte(pixels) == FoldLeft(LAMBDA byte, x : byte * 2 + (IF x THEN 1 ELSE 0), 0, pixels)
RoiMap(drawn, old, bytes) ==
  [i \in 1 .. bytes |-> PixelByte([b \in 1 .. 8 |-> drawn[8*(i-1) + b] \/ old[8*(i-1) + b]])]
RoiBytes(r, drawn, old, bytes) == RoiMap(drawn, old, bytes) \o serialize(finishRoi(r))

(* loadMask() of the board: size bytes, all ones if the configuration is   *)
(* shorter or says that nothing is of interest.                            *)
loadMask(roi, size) ==
  LET mask == SubSeq(roi, 1, size)
  IN  IF Len(roi) < size \/ \A i \in 1 .. size : mask[i] = 0 THEN [i \in 1 .. size |-> 255] ELSE mask
=============================================================================
