----------------------------- MODULE MCP2PTrade -----------------------------
(* Instances of P2PTrade for TLC. *)
EXTENDS P2PTrade, TLC

MCSymmetry == Permutations(Users)
=============================================================================
