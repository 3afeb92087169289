----------------------------- MODULE PortConfig ----------------------------
(***************************************************************************)
(* The configurator's serial port settings and the file it keeps them in   *)
(* (PortConfigSingleton).  A name and a file are sequences of words; a     *)
(* word has a text, or is a number (the ones that only begin like a number *)
(* are left out): value is the set of it, or {}.                           *)
(***************************************************************************)
EXTENDS Integers, Sequences

Word(text) == [text |-> text, value |-> {}]
Number(n) == [text |-> "", value |-> {n}]

Port(name, rate, flow_control) == [name |-> name, rate |-> rate, flow_control |-> flow_control]
Defaults == Port(<<Word("COM4")>>, 38400, FALSE)

write(port) == port.name \o <<Number(port.rate), Number(IF port.flow_control THEN 1 ELSE 0)>>

(* What a formatted read finds in place i of the file; junk, which is what *)
(* was on the stack, if the stream has ended or a read before has failed,  *)
(* and 0 from what is not a number.                                        *)
Found(file, i, junk) ==
  IF i > Len(file) \/ (\E j \in 2 .. i - 1 : file[j].value = {}) THEN junk
  ELSE IF file[i].value = {} THEN 0 ELSE CHOOSE n \in file[i].value : TRUE

(* read(): without a file the settings stay what they are; set() writes    *)
(* what was read.                                                          *)
read(port, is_open, file, junk) ==
  IF ~is_open THEN port
  ELSE Port(SubSeq(file, 1, 1), Found(file, 2, junk), Found(file, 3, junk) # 0)
=============================================================================
