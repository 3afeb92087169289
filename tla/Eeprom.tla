------------------------------- MODULE Eeprom ------------------------------
(***************************************************************************)
(* The board's EEPROM: the areas of defines.h, and how servercmds.cpp and  *)
(* utils.cpp read and write them.  A cell stands for a byte, and for the   *)
(* four bytes of a size field; the sizes of the three large areas are      *)
(* constants.                                                              *)
(***************************************************************************)
EXTENDS Integers, Sequences

CONSTANTS MdSize, EncSize, RoiSize

ASSUME EepromAssumption == {MdSize, EncSize, RoiSize} \subseteq Nat \ {0, 1}

cam_id_config_offset == 0
streaming_mode_offset == 1 + MdSize + EncSize + RoiSize
hw_status_offset == streaming_mode_offset + 1

Areas == {"md", "enc", "roi"}
Offset == [md |-> 1, enc |-> 1 + MdSize, roi |-> 1 + MdSize + EncSize]
(* The largest configuration: as long as its area, the size not counted.   *)
MaxSize == [md |-> MdSize, enc |-> EncSize, roi |-> RoiSize]

Erased == [a \in 0 .. hw_status_offset |-> 0]

Write(e, at, cells) ==
  [a \in DOMAIN e |-> IF a - at + 1 \in DOMAIN cells THEN cells[a - at + 1] ELSE e[a]]

(* Fault: a configuration of any length is stored. *)
SetCfgAny(e, k, cfg) == Write(e, Offset[k], <<Len(cfg)>> \o cfg)

(* SetMDCfg(), SetEncCfg(), SetROI() *)
SetCfg(e, k, cfg) == IF Len(cfg) > MaxSize[k] THEN e ELSE Write(e, Offset[k], <<Len(cfg)>> \o cfg)

(* GetMDCfg(), GetEncCfg(), GetROI(): a size that cannot be is no          *)
(* configuration.                                                          *)
GetCfg(e, k) == IF e[Offset[k]] > MaxSize[k] THEN <<>>
                ELSE [i \in 1 .. e[Offset[k]] |-> e[Offset[k] + i]]

(* Ids are stored as they come, and read with a limit. *)
SetCameraID(e, id) == Write(e, cam_id_config_offset, <<id>>)
GetCameraID(e) == IF e[cam_id_config_offset] > 3 THEN 3 ELSE e[cam_id_config_offset]

set_streaming_mode(e, mode) == Write(e, streaming_mode_offset, <<mode>>)
get_streaming_mode(e) == e[streaming_mode_offset]
set_hw_status(e, v) == Write(e, hw_status_offset, <<v>>)
get_hw_status(e) == e[hw_status_offset]
=============================================================================
