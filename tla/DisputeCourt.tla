---------------------------- MODULE DisputeCourt ----------------------------
(***************************************************************************)
(* Disputes over a trade (P2PTrade): a party raises one, an admin accepts  *)
(* it and becomes its judge, the judge resolves it, and an admin of the    *)
(* offers page may force a release or a cancellation meanwhile.            *)
(*                                                                         *)
(* Every request checks first and writes later, with an await between the  *)
(* two and between its writes: `calls` holds the requests that passed      *)
(* their checks and have writes to do.  The duty gate of accept (Duty) and *)
(* who holds which permission are left out: every admin here is on duty    *)
(* and allowed.                                                            *)
(***************************************************************************)
EXTENDS P2PTrade

CONSTANTS
  Admins, DisputeIds,
  NoOffer,      \* the offer of a dispute id not yet in use
  MaxCalls      \* bound: requests under way at the same time

ASSUME CourtAssumption ==
  /\ NoOffer \notin OfferIds
  /\ MaxCalls \in Nat \ {0}

VARIABLES
  disputes,   \* disputes
  judges,     \* dispute_assignments
  calls       \* requests between their checks and their last write

courtVars == <<disputes, judges, calls>>
allVars == <<vars, courtVars>>

Dispute == [offer: OfferIds \cup {NoOffer},
            status: {"none", "open", "in_review", "resolved"}]
NoDispute == [offer |-> NoOffer, status |-> "none"]

Verdicts == {"release_to_taker", "refund_maker"}

RaiseCall(u, o, step) == [kind |-> "raise", who |-> u, on |-> o, step |-> step]
AcceptCall(a, d, step) == [kind |-> "accept", who |-> a, on |-> d, step |-> step]
VerdictCall(verdict, d) == [kind |-> "resolve", who |-> verdict, on |-> d, step |-> "resolved"]
ForceCall(call, o, step) == [kind |-> "force", who |-> call, on |-> o, step |-> step]

Calls ==
  [kind: {"raise"}, who: Users, on: OfferIds, step: {"checked", "inserted"}] \cup
  [kind: {"accept"}, who: Admins, on: DisputeIds, step: {"checked", "assigned"}] \cup
  [kind: {"resolve"}, who: Verdicts, on: DisputeIds, step: {"resolved"}] \cup
  [kind: {"force"}, who: {"release", "cancel"}, on: OfferIds, step: {"checked", "sent"}]

CourtTypeOK ==
  /\ disputes \in [DisputeIds -> Dispute]
  /\ judges \in [DisputeIds -> SUBSET Admins]
  /\ calls \subseteq Calls

CourtInit ==
  /\ Init
  /\ disputes = [d \in DisputeIds |-> NoDispute]
  /\ judges = [d \in DisputeIds |-> {}]
  /\ calls = {}

Begins(call) ==
  /\ Cardinality(calls) < MaxCalls
  /\ calls' = calls \cup {call}
Moves(from, to) == calls' = (calls \ {from}) \cup {to}
Ends(call) == calls' = calls \ {call}

UnderDispute(o, stages) ==
  \E d \in DisputeIds : disputes[d].offer = o /\ disputes[d].status \in stages

-----------------------------------------------------------------------------
(* POST /disputes.  The page offers the button to both parties once the    *)
(* maker's window is over; the route checks again, then inserts, then      *)
(* marks the offer.                                                        *)

Raise(u, o) ==
  /\ row[o].status = "accepted"
  /\ row[o].takerConfirmed
  /\ ~row[o].makerConfirmed
  /\ ~row[o].disputeRaised
  /\ row[o].makerDue \in {"over", "silent"}
  /\ u \in {offers[o].maker, row[o].taker}
  /\ ~UnderDispute(o, {"open"})
  /\ Begins(RaiseCall(u, o, "checked"))
  /\ UNCHANGED <<vars, disputes, judges>>

InsertDispute(u, o, d) ==
  /\ RaiseCall(u, o, "checked") \in calls
  /\ disputes[d] = NoDispute
  /\ disputes' = [disputes EXCEPT ![d] = [offer |-> o, status |-> "open"]]
  /\ Moves(RaiseCall(u, o, "checked"), RaiseCall(u, o, "inserted"))
  /\ UNCHANGED <<vars, judges>>

(* What the watcher does not take back when the mark appears: a maker's    *)
(* confirmation on record or about to be, a refund about to be broadcast   *)
(* or mined.                                                               *)
InHand(o) ==
  {hand \in {"payInHand", "refundInHand"} :
    \/ /\ hand = "payInHand"
       /\ row[o].makerConfirmed \/ Task("Job3", o, "selected") \in picked
    \/ /\ hand = "refundInHand"
       /\ Task("Job2", o, "selected") \in picked \/ Tx("cancel", o) \in mempool}

MarkDisputed(u, o) ==
  /\ RaiseCall(u, o, "inserted") \in calls
  /\ row' = [row EXCEPT ![o].disputeRaised = TRUE]
  /\ grounds' = IF "disputed" \in grounds[o] THEN grounds
                ELSE [grounds EXCEPT ![o] = @ \cup {"disputed"} \cup InHand(o)]
  /\ Ends(RaiseCall(u, o, "inserted"))
  /\ UNCHANGED <<vaultVars, chat, web, picked, mempool, faults, drops>>
  /\ UNCHANGED <<disputes, judges>>

-----------------------------------------------------------------------------
(* POST /disputes/:id/accept: look for an assignment, insert one, set the  *)
(* dispute in_review whatever its status is by then.                       *)

Accept(a, d) ==
  /\ disputes[d].status = "open"
  /\ judges[d] = {}
  /\ Begins(AcceptCall(a, d, "checked"))
  /\ UNCHANGED <<vars, disputes, judges>>

Assign(a, d) ==
  /\ AcceptCall(a, d, "checked") \in calls
  /\ judges' = [judges EXCEPT ![d] = @ \cup {a}]
  /\ Moves(AcceptCall(a, d, "checked"), AcceptCall(a, d, "assigned"))
  /\ UNCHANGED <<vars, disputes>>

BeginReviewMisspelt(a, d) ==
  /\ AcceptCall(a, d, "assigned") \in calls
  /\ disputes' = [disputes EXCEPT ![d].status = "under_review"]
  /\ Ends(AcceptCall(a, d, "assigned"))
  /\ UNCHANGED <<vars, judges>>

BeginReviewFirst(a, d) ==
  /\ AcceptCall(a, d, "checked") \in calls
  /\ disputes' = [disputes EXCEPT ![d].status = "in_review"]
  /\ UNCHANGED <<vars, judges, calls>>

BeginReview(a, d) ==
  /\ AcceptCall(a, d, "assigned") \in calls
  /\ disputes' = [disputes EXCEPT ![d].status = "in_review"]
  /\ Ends(AcceptCall(a, d, "assigned"))
  /\ UNCHANGED <<vars, judges>>

-----------------------------------------------------------------------------
(* PATCH /disputes/:id/resolve.  The disputes page shows the two verdicts  *)
(* to the judge of a dispute in review; the route checks neither.  A       *)
(* release is left to Job1, a refund only rewrites the row.                *)

Resolve(a, d, verdict) ==
  /\ disputes[d].status = "in_review"
  /\ a \in judges[d]
  /\ disputes' = [disputes EXCEPT ![d].status = "resolved"]
  /\ Witnessed(disputes[d].offer, "verdict")
  /\ Begins(VerdictCall(verdict, d))
  /\ UNCHANGED <<vaultVars, row, chat, web, picked, mempool, faults, drops, judges>>

(* The third resolution, 'escalate', ends the dispute and decides nothing. *)
Escalate(a, d) ==
  /\ disputes[d].status = "in_review"
  /\ a \in judges[d]
  /\ disputes' = [disputes EXCEPT ![d].status = "resolved"]
  /\ UNCHANGED <<vars, judges, calls>>

ApplyVerdict(d, verdict) ==
  /\ VerdictCall(verdict, d) \in calls
  /\ LET o == disputes[d].offer
     IN row' = IF verdict = "release_to_taker"
               THEN [row EXCEPT ![o].makerConfirmed = TRUE]
               ELSE [row EXCEPT ![o].status = "cancelled"]
  /\ Ends(VerdictCall(verdict, d))
  /\ UNCHANGED <<vaultVars, chat, web, picked, mempool, grounds, faults, drops>>
  /\ UNCHANGED <<disputes, judges>>

-----------------------------------------------------------------------------
(* POST /admin/manage/offers/:id/release and /cancel.  openDisputeFor and  *)
(* the offers page look for disputes that are open, not in review.         *)

ForceSettlement(call, o) ==
  /\ row[o].status = "accepted"
  /\ ~UnderDispute(o, {"open"})
  /\ Begins(ForceCall(call, o, "checked"))
  /\ UNCHANGED <<vars, disputes, judges>>

ForceBroadcast(call, o) ==
  /\ ForceCall(call, o, "checked") \in calls
  /\ IF Estimate(call, o)
     THEN /\ mempool' = mempool \cup {Tx(call, o)}
          /\ Witnessed(o, "forced")
          /\ Moves(ForceCall(call, o, "checked"), ForceCall(call, o, "sent"))
     ELSE /\ Ends(ForceCall(call, o, "checked"))
          /\ UNCHANGED <<mempool, grounds>>
  /\ UNCHANGED <<vaultVars, row, chat, web, picked, faults, drops, disputes, judges>>

ForceRecord(call, o) ==
  /\ ForceCall(call, o, "sent") \in calls
  /\ row' = [row EXCEPT ![o].status = IF call = "release" THEN "released" ELSE "cancelled"]
  /\ chat' = chat \ {o}
  /\ Ends(ForceCall(call, o, "sent"))
  /\ UNCHANGED <<vaultVars, web, picked, mempool, grounds, faults, drops, disputes, judges>>

(* A database or RPC error, or a restart, ends a request where it is. *)
CallLost(call) ==
  /\ faults < MaxFaults
  /\ call \in calls
  /\ Ends(call)
  /\ faults' = faults + 1
  /\ UNCHANGED <<vaultVars, row, chat, web, picked, mempool, grounds, drops, disputes, judges>>

-----------------------------------------------------------------------------
CourtNext ==
  \/ \E u \in Users, o \in OfferIds :
       \/ Raise(u, o)
       \/ \E d \in DisputeIds : InsertDispute(u, o, d)
       \/ MarkDisputed(u, o)
  \/ \E a \in Admins, d \in DisputeIds :
       \/ Accept(a, d) \/ Assign(a, d) \/ BeginReview(a, d)
       \/ Escalate(a, d)
       \/ \E verdict \in Verdicts : Resolve(a, d, verdict)
  \/ \E d \in DisputeIds, verdict \in Verdicts : ApplyVerdict(d, verdict)
  \/ \E call \in {"release", "cancel"}, o \in OfferIds :
       ForceSettlement(call, o) \/ ForceBroadcast(call, o) \/ ForceRecord(call, o)
  \/ \E call \in calls : CallLost(call)

TradeNext == Next /\ UNCHANGED courtVars

CourtSpec == CourtInit /\ [][TradeNext \/ CourtNext]_allVars

(* The trade's fairness, and a request under way runs to its end; nobody   *)
(* has to raise, accept or judge anything.                                 *)
CourtFairSpec ==
  /\ CourtSpec
  /\ Fairness
  /\ \A d \in DisputeIds, verdict \in Verdicts : WF_allVars(ApplyVerdict(d, verdict))
  /\ \A call \in {"release", "cancel"}, o \in OfferIds :
       WF_allVars(ForceBroadcast(call, o)) /\ WF_allVars(ForceRecord(call, o))
  /\ \A u \in Users, o \in OfferIds :
       WF_allVars(MarkDisputed(u, o) \/ \E d \in DisputeIds : InsertDispute(u, o, d))
  /\ \A a \in Admins, d \in DisputeIds : WF_allVars(Assign(a, d) \/ BeginReview(a, d))

-----------------------------------------------------------------------------
(* Properties. *)

(* README.md:43: under a dispute there is no automatic release.  With      *)
(* disputes, verdicts and forced settlements in every order, escrow leaves *)
(* the contract only on TradePromise's grounds: both parties' own          *)
(* confirmations, an admin's decision, or, for what the watcher had in     *)
(* hand when dispute_raised was set and for trades without that mark, the  *)
(* maker's silence and the taker's lateness.  Once the mark is there no    *)
(* job starts a settlement by the clock.                                   *)
CourtKeepsPromise == Promise!Spec

(* A dispute is only ever raised over a payment the taker confirmed on     *)
(* chain, and only under a judge does it leave the state open.             *)
DisputeHasStanding ==
  \A d \in DisputeIds : disputes[d].status # "none" =>
    /\ offers[disputes[d].offer].takerConfirmed
    /\ disputes[d].status \in {"in_review", "resolved"} => judges[d] # {}

-----------------------------------------------------------------------------
(* What the repository says and the code does not keep. *)

(* README.md:46 "they click either ... and the smart contract executes     *)
(* immediately", disputes.ts:238 "p2pReleaseWatcher Job1 handles refund":  *)
(* no job looks at a row that is already cancelled.                        *)
RefundVerdictIsExecuted ==
  \A d \in DisputeIds :
    VerdictCall("refund_maker", d) \in calls ~>
      \E o \in OfferIds : disputes[d].offer = o /\ Settled(o)
=============================================================================
