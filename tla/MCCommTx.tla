------------------------------ MODULE MCCommTx ------------------------------
(* Instances of CommTx for TLC: rings of two to four packets, chunks of at *)
(* most two, so that the ring wraps and fills and chunks are cut short.    *)
EXTENDS CommTx

ProgramCalls == {TRUE}
AnyCalls == BOOLEAN
=============================================================================
