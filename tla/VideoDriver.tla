---------------------------- MODULE VideoDriver ----------------------------
(***************************************************************************)
(* The kernel's driver of the sensor (teplovisor.c) and what Cap (cap.cpp) *)
(* asks of it.                                                             *)
(***************************************************************************)
EXTENDS Integers

EINVAL == -22
ENODEV == -19

Format(code, width, height, colorspace, field) ==
  [code |-> code, width |-> width, height |-> height, colorspace |-> colorspace, field |-> field]
teplovisor_pad_format == Format("YUYV8_2X8", 384, 288, "SMPTE170M", "none")

querystd == "NTSC"
s_std(std) == IF std = querystd THEN 0 ELSE EINVAL
s_routing(input, output) == IF input = 0 /\ output = 0 THEN 0 ELSE EINVAL
Controls == EINVAL        \* queryctrl, g_ctrl, s_ctrl

(* g_parm() and s_parm() both answer with the one frame period, in frames  *)
(* of 1000/25000 seconds.                                                  *)
frameperiod(type) == IF type = "capture" THEN <<1000, 25000>> ELSE <<>>

(* try, set and get on the bus: whatever is asked, the answer is the same. *)
mbus_fmt(asked) == teplovisor_pad_format
enum_mbus_code(index) == IF index = 0 THEN <<teplovisor_pad_format.code>> ELSE <<>>
get_pad_format(which) == teplovisor_pad_format

(* The size and the field are not looked at, and nothing is remembered.    *)
set_pad_format(asked) ==
  IF asked.code # teplovisor_pad_format.code \/ asked.colorspace # teplovisor_pad_format.colorspace
  THEN EINVAL ELSE 0

(* The flag is one for all who have the device open. *)
s_stream(streaming, enable) ==
  IF enable \in {streaming, 0, 1} THEN [ret |-> 0, streaming |-> enable]
  ELSE [ret |-> ENODEV, streaming |-> streaming]
-----------------------------------------------------------------------------
(* Cap's constructor: the format for the sensor, and for the pads up to    *)
(* the resizer.                                                            *)
Asked(width, height) == Format("YUYV8_2X8", width, height, "SMPTE170M", "none")
=============================================================================
