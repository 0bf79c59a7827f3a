---------------------------- MODULE MCCctpBridge ----------------------------
(* Instances of CctpBridge for TLC. *)
EXTENDS CctpBridge, TLC

MCSymmetry == Permutations(Bridges)
=============================================================================
