---------------------------- MODULE MCDDSBridge ----------------------------
(* Small instances of DDSBridge for TLC: the calls are interchangeable.    *)
EXTENDS DDSBridge, TLC

CallSymmetry == Permutations(Calls)
=============================================================================
