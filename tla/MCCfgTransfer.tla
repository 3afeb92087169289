--------------------------- MODULE MCCfgTransfer ---------------------------
(* Instances of CfgTransfer for TLC: two replies of zero to three messages, *)
(* lengths that are and are not multiples of the message size, and a ring  *)
(* that holds both replies or fills up in the middle of one.               *)
EXTENDS CfgTransfer, TLC

AllLens == 0 .. 2 * Mts + 1
Sym == Permutations(Replies)
=============================================================================
