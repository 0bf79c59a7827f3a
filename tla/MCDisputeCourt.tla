--------------------------- MODULE MCDisputeCourt ---------------------------
(* Instances of DisputeCourt for TLC. *)
EXTENDS DisputeCourt, TLC

MCSymmetry == Permutations(Admins) \cup Permutations(Users) \cup Permutations(DisputeIds)
=============================================================================
