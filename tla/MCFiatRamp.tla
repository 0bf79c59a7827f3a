----------------------------- MODULE MCFiatRamp -----------------------------
(* Instances of FiatRamp for TLC. *)
EXTENDS FiatRamp, TLC

MCScopes ==
  {[stage |-> "signedUp", clicks |-> 3, events |-> 0],
   [stage |-> "verified", clicks |-> 4, events |-> 0],
   [stage |-> "depositing", clicks |-> 0, events |-> 3]}
=============================================================================
