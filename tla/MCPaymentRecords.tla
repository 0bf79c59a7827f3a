-------------------------- MODULE MCPaymentRecords --------------------------
(* Instances of PaymentRecords for TLC. *)
EXTENDS PaymentRecords, TLC

MCTogether ==
  {{"send"} \X {"arc", "far"}, {"send"} \X {"dark"}, {<<"convert", "arc">>},
   Legs \X {"arc"}, (Payers \X {"arc"}) \cup {Creator}}
=============================================================================
