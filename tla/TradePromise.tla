---------------------------- MODULE TradePromise ----------------------------
(***************************************************************************)
(* What the marketplace promises the two parties of a trade, whatever the  *)
(* contract, the database, the watcher and the browsers do to keep it:     *)
(* escrowed USDC leaves an offer once, to the buyer who took it or back to *)
(* the seller, and only on grounds the README's three flows name.          *)
(***************************************************************************)
CONSTANTS Users, NoAddress, OfferIds

VARIABLES
  stage,     \* where the escrowed USDC of each offer is
  seller,
  buyer,
  grounds    \* what has happened that a settlement may rest on

promiseVars == <<stage, seller, buyer, grounds>>

(* "disputed": a dispute is on the offer's record.  "payInHand" and         *)
(* "refundInHand": the payment or the refund was already being made then.  *)
Hands == {"payInHand", "refundInHand"}
Grounds == {"takerConfirmed", "makerConfirmed", "takerLate", "makerSilent",
            "paidInTime", "forced", "verdict", "disputed"} \cup Hands

AdminDecided(G) == G \cap {"forced", "verdict"} # {}

(* What runs by the clock alone does not run under a dispute, except what  *)
(* was in hand when the dispute was put on record.                         *)
ByClock(G, hand) == "disputed" \in G => hand \in G

(* The buyer is paid when an admin decided, or when he confirmed and the   *)
(* seller confirmed too, or was silent for 24 hours with no dispute.       *)
EnoughToPay(G) ==
  \/ AdminDecided(G)
  \/ /\ "takerConfirmed" \in G
     /\ \/ "makerConfirmed" \in G
        \/ "makerSilent" \in G /\ ByClock(G, "payInHand")

(* A taken offer returns to the seller when an admin decided, or when the  *)
(* buyer's window ended with no confirmation on record and no dispute.     *)
EnoughToRefund(G) ==
  \/ AdminDecided(G)
  \/ "takerLate" \in G /\ "paidInTime" \notin G /\ ByClock(G, "refundInHand")

Init ==
  /\ stage = [o \in OfferIds |-> "none"]
  /\ seller = [o \in OfferIds |-> NoAddress]
  /\ buyer = [o \in OfferIds |-> NoAddress]
  /\ grounds = [o \in OfferIds |-> {}]

Post(o, m) ==
  /\ stage[o] = "none"
  /\ stage' = [stage EXCEPT ![o] = "listed"]
  /\ seller' = [seller EXCEPT ![o] = m]
  /\ UNCHANGED <<buyer, grounds>>

Take(o, b) ==
  /\ stage[o] = "listed"
  /\ b # seller[o]
  /\ stage' = [stage EXCEPT ![o] = "taken"]
  /\ buyer' = [buyer EXCEPT ![o] = b]
  /\ UNCHANGED <<seller, grounds>>

Learn(o, g) ==
  /\ g \notin {"disputed"} \cup Hands
  /\ grounds' = [grounds EXCEPT ![o] = @ \cup {g}]
  /\ UNCHANGED <<stage, seller, buyer>>

(* A dispute goes on record once, with what is in hand at that moment. *)
HearDispute(o, inHand) ==
  /\ "disputed" \notin grounds[o]
  /\ grounds' = [grounds EXCEPT ![o] = @ \cup {"disputed"} \cup inHand]
  /\ UNCHANGED <<stage, seller, buyer>>

PayBuyer(o) ==
  /\ stage[o] = "taken"
  /\ EnoughToPay(grounds[o])
  /\ stage' = [stage EXCEPT ![o] = "paidOut"]
  /\ UNCHANGED <<seller, buyer, grounds>>

RefundSeller(o) ==
  /\ \/ stage[o] = "listed"
     \/ stage[o] = "taken" /\ EnoughToRefund(grounds[o])
  /\ stage' = [stage EXCEPT ![o] = "refunded"]
  /\ UNCHANGED <<seller, buyer, grounds>>

Next ==
  \E o \in OfferIds :
    \/ \E u \in Users : Post(o, u) \/ Take(o, u)
    \/ \E g \in Grounds : Learn(o, g)
    \/ \E inHand \in SUBSET Hands : HearDispute(o, inHand)
    \/ PayBuyer(o)
    \/ RefundSeller(o)

Spec == Init /\ [][Next]_promiseVars
=============================================================================
