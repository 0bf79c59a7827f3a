---------------------------- MODULE HonestHistory ----------------------------
(***************************************************************************)
(* What a user's history of sends and conversions promises: an entry is of *)
(* a transfer that was broadcast, it is pending until the chain has        *)
(* decided, then shows what the chain decided, and is not rewritten.       *)
(* PaymentRecords implements it.                                           *)
(*                                                                         *)
(* Confirmed is the chain's word and no more: it does not promise that a   *)
(* recipient at a bank has been paid (PaymentRecords!OnChain).             *)
(***************************************************************************)
CONSTANT Entries

VARIABLES
  fate,   \* of the transfer on its chain
  entry   \* none, pending, confirmed or reverted: what the history shows

historyVars == <<fate, entry>>

Init ==
  /\ fate = [e \in Entries |-> "none"]
  /\ entry = [e \in Entries |-> "none"]

Fated(e, from, to) ==
  /\ fate[e] = from
  /\ fate' = [fate EXCEPT ![e] = to]
  /\ UNCHANGED entry

Shows(e, from, to) ==
  /\ entry[e] = from
  /\ entry' = [entry EXCEPT ![e] = to]
  /\ UNCHANGED fate

Broadcast(e) == Fated(e, "none", "floating")
Mine(e) == Fated(e, "floating", "mined") \/ Fated(e, "floating", "reverted")
Record(e) == fate[e] # "none" /\ Shows(e, "none", "pending")
Confirm(e) == fate[e] = "mined" /\ Shows(e, "pending", "confirmed")
Revert(e) == fate[e] = "reverted" /\ Shows(e, "pending", "reverted")

Next == \E e \in Entries : Broadcast(e) \/ Mine(e) \/ Record(e) \/ Confirm(e) \/ Revert(e)

Spec == Init /\ [][Next]_historyVars
=============================================================================
