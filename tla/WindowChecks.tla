---------------------------- MODULE WindowChecks ---------------------------
(***************************************************************************)
(* What Rois and Detector compute, against what they should, on bounded    *)
(* inputs.  TLC evaluates the assumptions when it starts.                  *)
(***************************************************************************)
EXTENDS Rois, Detector

Pts == {<<0, 0>>, <<20, 300>>, <<-3, 1>>}
MenuChoices == {"invert", "finish", "delete"}

Edits(r) == {LeftPress(r, p) : p \in Pts} \cup {Drag(r, p) : p \in Pts} \cup {finishRoi(r), clearRois(r)}
             \cup {RightPress(r, p, around, choice) :
                     p \in Pts, around \in {{}, DOMAIN r.rois}, choice \in MenuChoices}

MaxEdits == 5
Edited[n \in 0 .. MaxEdits] == IF n = 0 THEN {NoRois} ELSE Edited[n-1] \cup UNION {Edits(r) : r \in Edited[n-1]}
Drawings == Edited[MaxEdits]

OnScreen(r) == \A i \in DOMAIN r.rois : \A j \in DOMAIN r.rois[i] : r.rois[i][j][1] >= 0
Same(r, s) == r.rois = s.rois /\ r.inverted = s.inverted

(* Whatever the user clicks (ROIs, QDSWidget's mouse events), only the     *)
(* polygon being drawn is without points: deletePt() takes an emptied one  *)
(* out.  Every step of uploading and downloading relies on it.             *)
ASSUME OnlyLastIsEmpty ==
  \A r \in Drawings : \A i \in DOMAIN r.rois : r.rois[i] = <<>> => i = Len(r.rois)

(* deserialize() gives back what UploadROI() wrote, as long as no point    *)
(* was dragged out of the window: the reader drops what it reads up to the *)
(* last byte, and the writer ends with a polygon without points.           *)
ASSUME PolygonsComeBack ==
  \A r \in Drawings : OnScreen(r) => Same(deserialize(NoRois, serialize(finishRoi(r))), finishRoi(r))

(* Without finishRoi(), the last point drawn would not come back.          *)
ASSUME FinishIsNeeded ==
  \A r \in Drawings :
    r.rois # <<>> /\ Last(r.rois) # <<>> /\ OnScreen(r)
      => deserialize(NoRois, serialize(r)).rois = Front(r.rois) \o <<Front(Last(r.rois))>>

(* A point left of the window comes back far right of it.                  *)
ASSUME OffScreenWraps ==
  deserialize(NoRois, serialize(finishRoi(addPt(NoRois, <<-3, 1>>)))).rois = <<<<<<65533, 1>>>>, <<>>>>

(* Bytes that go on after the polygons, or that stop between them.         *)
ASSUME Truncated ==
  /\ deserialize(NoRois, <<1>>) = [NoRois EXCEPT !.inverted = TRUE]
  /\ deserialize(NoRois, <<0, 2>>).rois = <<<<>>, <<>>>>
  /\ deserialize(NoRois, <<0, 1, 0, 9, 9>>).rois = <<>>
  /\ deserialize(NoRois, <<0, 1, 2, 5, 0, 6, 0, 7>>).rois = <<<<<<5, 6>>>>>>

(* The board finds the map where UploadROI() put it, and never works with  *)
(* a mask that masks out everything.                                       *)
ASSUME MaskOfMap ==
  \A drawn \in [1 .. 8 -> BOOLEAN] :
    LET none == [b \in 1 .. 8 |-> FALSE]
        roi  == RoiBytes(addPt(NoRois, <<0, 0>>), drawn, none, 1)
        x    == CHOOSE n \in 0 .. 255 : \A b \in 1 .. 8 : (n \div 2^(8-b)) % 2 = (IF drawn[b] THEN 1 ELSE 0)
    IN  loadMask(roi, 1) = <<IF x = 0 THEN 255 ELSE x>>
ASSUME ShortMask == loadMask(<<1, 2>>, 3) = <<255, 255, 255>>
-----------------------------------------------------------------------------
(* After a restart of the configurator the table has every preset whose    *)
(* name no later one has, and nothing else: of the presets that were added *)
(* and not renamed, one is left.                                           *)
Tables == UNION {[1 .. n -> [name : 1 .. 3, row : {<<1, 2, 3, 4, 5>>, <<5, 4, 3, 2, 1>>}]] : n \in 0 .. 3}
ASSUME PresetsComeBack ==
  \A table \in Tables :
    LET names == SetToSortSeq({table[i].name : i \in DOMAIN table}, <)
        again == loadPresets(storePresets(table), names)
    IN  /\ ToSet(again) \subseteq ToSet(table)
        /\ \A i \in DOMAIN table : \/ table[i] \in ToSet(again)
                                   \/ \E j \in i + 1 .. Len(table) : table[j].name = table[i].name
        /\ loadPresets(storePresets(again), names) = again

(* Cancel undoes neither Get nor adding a preset; what was typed before    *)
(* Get is lost, with an answer and without one.                            *)
BoardCfgs == {<<>>, storeParameters(PRESET_DEFAULTS), storeParameters(<<1, 2, 3, 4, 5>>)}
ASSUME CancelKeepsWhatWasGot ==
  \A table \in Tables \ {<<>>} : \A i \in DOMAIN table, cfg \in BoardCfgs :
    LET typed == [DetParams(table, i) EXCEPT !.typed = [name |-> 9, row |-> <<9, 9, 9, 9, 9>>]]
        got == Get(typed, cfg)
    IN  /\ Submit(typed).table = [table EXCEPT ![i] = typed.typed]
        /\ Submit(got).table = got.table
        /\ got.table = (IF cfg = <<>> THEN table ELSE [table EXCEPT ![i].row = loadParameters(cfg)])

(* An added preset can be deleted again, and another deleted before it     *)
(* does not change it; -1 is the selected row of an empty list.            *)
ASSUME AddDelete ==
  \A table \in Tables :
    LET more == AddPreset(table, 1)
    IN  /\ DeletePreset(more, Len(more)) = table
        /\ DeletePreset(table, -1) = table
        /\ \A i \in DOMAIN table : DeletePreset(more, i) = AddPreset(DeletePreset(table, i), 1)
-----------------------------------------------------------------------------
(* What is set in the dialog is what the next start opens the port with,   *)
(* for a name of one word.  Of a name with a blank the rest is taken for   *)
(* the rate, an empty one takes the rate for the name; what was read wrong *)
(* is written back.                                                        *)
P == INSTANCE PortConfig
ASSUME PortComesBack ==
  \A name \in {"COM4", "/dev/ttyS0"}, rate \in {0, 9600, 921600}, flow \in BOOLEAN, junk \in {0, 1} :
    LET port == P!Port(<<P!Word(name)>>, rate, flow) IN P!read(P!Defaults, TRUE, P!write(port), junk) = port
ASSUME BlankInName ==
  \A junk \in {0, 1} :
    /\ P!read(P!Defaults, TRUE, P!write(P!Port(<<P!Word("COM"), P!Number(4)>>, 9600, FALSE)), junk)
         = P!Port(<<P!Word("COM")>>, 4, TRUE)
    /\ P!read(P!Defaults, TRUE, P!write(P!Port(<<P!Word("my"), P!Word("port")>>, 9600, FALSE)), junk)
         = P!Port(<<P!Word("my")>>, 0, junk = 1)
ASSUME EmptyName ==
  \A junk \in {0, 1} : P!read(P!Defaults, TRUE, P!write(P!Port(<<>>, 9600, TRUE)), junk) = P!Port(<<P!Number(9600)>>, 1, junk = 1)
ASSUME NoFile == P!read(P!Defaults, FALSE, <<>>, 1) = P!Defaults
-----------------------------------------------------------------------------
Percent == 0 .. 100

(* Top, bottom and noise are shown as they were set; so are none of the    *)
(* two thresholds: convertThres() forgets the lower limit on the way back, *)
(* and convertSpatThres() divides integers, so that a parameter that is    *)
(* loaded and stored again drifts (the first up, the second down).         *)
ASSUME ShownAsSet ==
  \A v \in Percent : /\ TopFrom(TopTo(v)) = v /\ BotFrom(BotTo(v)) = v /\ NoiseFrom(NoiseTo(v)[1]) = v
                     /\ ThresFrom(ThresTo(v)) \in v .. v + 5
                     /\ SpatFrom(SpatTo(v)) \in v - 8 .. v
ASSUME Drift == /\ ThresFrom(ThresTo(0)) = 5 /\ ThresFrom(ThresTo(5)) = 10
                /\ SpatFrom(SpatTo(24)) = 16 /\ SpatFrom(SpatTo(16)) = 8 /\ SpatFrom(SpatTo(8)) = 0

(* What the windows store never reaches a register's neighbour: the        *)
(* spatial threshold fits its five bits, the rest 32, and initMD() leaves  *)
(* the registers of the squared noise and the other bits of 0x1A alone.    *)
Row(v) == <<v, v, v, v, v>>
Registers == {0, 2, 4, 6, 8, 10, 12, 14, 16, 18, 20, 22, 26}
ASSUME FromWindowToFpga ==
  \A v \in Percent : \A was \in {0, 65535} :
    LET old == [r \in Registers |-> was]
        cfg == storeParameters(Row(v))
        new == initMD(cfg, old)
        Both(lo) == new[lo] + 65536 * new[lo + 2]
    IN  /\ <<Both(20), Both(0), Both(4), Both(12), Both(16)>> = <<cfg[1], cfg[3], cfg[4], cfg[5], cfg[7]>>
        /\ (new[26] \div 16) % 32 = cfg[2] /\ new[26] % 16 = was % 16 /\ new[26] \div 512 = was \div 512
        /\ new[8] = was /\ new[10] = was
        /\ initMD(cfg, new) = new
        /\ initMD(SubSeq(cfg, 1, 4), old) = old
=============================================================================
