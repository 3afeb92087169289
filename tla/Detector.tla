------------------------------ MODULE Detector -----------------------------
(***************************************************************************)
(* The motion detector's parameters: percentages in the window             *)
(* (detparams.cpp), numbers in the configuration, and words in registers   *)
(* of the FPGA (initMD(), main.cpp).  The code calculates with doubles and *)
(* truncates; for all percentages the quotients here are the same integers.*)
(***************************************************************************)
EXTENDS Integers, Sequences, SequencesExt

(* convertThres(), convertSpatThres(), convertTopT(), convertBotT(),       *)
(* convertNoise(): to the board, and back.                                 *)
ThresTo(v) == (2432 * v) \div 25 + 512
ThresFrom(n) == (200 * n + 10240) \div 20480
SpatTo(v) == (12 * v) \div 100 + 1
SpatFrom(n) == ((n - 1) * 100) \div 12
TopTo(v) == (65532 * v) \div 100 + 4
TopFrom(n) == (200 * (n - 4) + 65532) \div 131064
BotTo(v) == (65536 * v) \div 100
BotFrom(n) == (200 * n + 65536) \div 131072

(* The noise, its square (which always rounds to 0) and its inverse,       *)
(* 25 * 2^28 / (99 * v + 100), divided in two steps to stay in 32 bits.    *)
NoiseTo(v) ==
  LET d == 99 * v + 100
  IN  <<(99 * v) \div 25 + 4, 0, 25 * (2^28 \div d) + (25 * (2^28 % d)) \div d>>
NoiseFrom(n) == (200 * (n - 4) + 396) \div 792

(* storeParameters() and loadParameters(): a row of the table of presets   *)
(* is <<time, space, top, bottom, noise>>.                                 *)
storeParameters(row) ==
  <<ThresTo(row[1]), SpatTo(row[2]), TopTo(row[3]), BotTo(row[4])>> \o NoiseTo(row[5])
loadParameters(cfg) ==
  <<ThresFrom(cfg[1]), SpatFrom(cfg[2]), TopFrom(cfg[3]), BotFrom(cfg[4]), NoiseFrom(cfg[5])>>

(* The table is kept in a file under the names of the presets (in the      *)
(* order of the names; the third value is named the bottom's there, and    *)
(* read back as the third).  Presets of one name are one: the last.        *)
storePresets(table) ==
  [n \in {table[i].name : i \in DOMAIN table} |->
     LET i == CHOOSE i \in DOMAIN table : /\ table[i].name = n
                                          /\ \A j \in DOMAIN table : table[j].name = n => j <= i
     IN  table[i].row]
loadPresets(file, names) == [i \in DOMAIN names |-> [name |-> names[i], row |-> file[names[i]]]]

(* EditDetPresets: a preset is added under one name, and the window for it *)
(* opens; the selected row (if one is) is deleted.                         *)
PRESET_DEFAULTS == <<55, 65, 65, 45, 22>>
AddPreset(table, new) == Append(table, [name |-> new, row |-> PRESET_DEFAULTS])
DeletePreset(table, i) == IF i \in DOMAIN table THEN RemoveAt(table, i) ELSE table

(* DetParams edits row i: what is typed gets into the table with OK (and   *)
(* with Set, which also sends it), what the board has with Get, at once.   *)
DetParams(table, i) == [table |-> table, i |-> i, typed |-> table[i]]
Submit(d) == [d EXCEPT !.table[d.i] = d.typed]
Get(d, cfg) ==
  LET table == IF cfg = <<>> THEN d.table ELSE [d.table EXCEPT ![d.i].row = loadParameters(cfg)]
  IN  [d EXCEPT !.table = table, !.typed = table[d.i]]
-----------------------------------------------------------------------------
(* A value that the configuration does not have is -1.                     *)
Val(cfg, i) == IF i \in DOMAIN cfg THEN cfg[i] ELSE -1

(* The 16-bit registers initMD() writes: the two halves of a value, and    *)
(* bits 4 to 8 of register 0x1A, whose other bits stay.                    *)
Halves(v, lo) == [r \in {lo, lo + 2} |-> IF r = lo THEN v % 65536 ELSE (v \div 65536) % 65536]
BitsFrom4To8(old, v) == old - ((old \div 16) % 32) * 16 + (v % 32) * 16

(* Left alone unless the first five are there; the sixth is never written, *)
(* and a missing seventh is: all ones.                                     *)
initMD(cfg, regs) ==
  IF \E i \in 1 .. 5 : Val(cfg, i) < 0 THEN regs
  ELSE LET words == <<<<1, 20>>, <<3, 0>>, <<4, 4>>, <<5, 12>>, <<7, 16>>>>
       IN  [r \in DOMAIN regs |->
              IF r = 26 THEN BitsFrom4To8(regs[26], Val(cfg, 2))
              ELSE IF \E w \in 1 .. 5 : r \in {words[w][2], words[w][2] + 2}
                   THEN LET w == CHOOSE w \in 1 .. 5 : r \in {words[w][2], words[w][2] + 2}
                        IN  Halves(Val(cfg, words[w][1]), words[w][2])[r]
                   ELSE regs[r]]
=============================================================================
