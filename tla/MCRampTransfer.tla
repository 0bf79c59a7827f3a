--------------------------- MODULE MCRampTransfer ---------------------------
(* Instances of RampTransfer for TLC. *)
EXTENDS RampTransfer, TLC

(* Bound: faults, losses and reversals meet transfers whose legs have all  *)
(* been inserted by then and were not passed over; a transfer with legs    *)
(* still to be inserted, or passed over, has no other trouble.             *)
MCTroubles ==
  fault' + lost' > fault + lost \/ Reverse =>
    skipped = {} /\ (inserting = {} \/ transfer = "created")

MCSymmetry == Permutations(Tasks)
=============================================================================
