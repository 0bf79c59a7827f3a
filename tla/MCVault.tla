------------------------------ MODULE MCVault ------------------------------
(* Instance of Vault for TLC: two users, two ids, two blocks. *)
EXTENDS Vault, TLC

MCSymmetry == Permutations(Users) \cup Permutations(OfferIds)
=============================================================================
