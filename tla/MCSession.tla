----------------------------- MODULE MCSession -----------------------------
(* An instance of Session for TLC: a configuration that is of the largest  *)
(* size for two areas and too large for that of the detector.              *)
EXTENDS Session, WindowChecks, PortChecks, DeviceChecks

MCConfigs == {<<9, 1, 9>>}
MCDamaged == {[cmd |-> 2, val |-> <<>>], [cmd |-> 10, val |-> <<7>>]}
=============================================================================
