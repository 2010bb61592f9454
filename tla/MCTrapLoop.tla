----------------------------- MODULE MCTrapLoop -----------------------------
(* TrapLoop with exit codes below, at and above the byte the host reports. *)
EXTENDS TrapLoop

NaturalCodes == {0, 3, 256}
=============================================================================
