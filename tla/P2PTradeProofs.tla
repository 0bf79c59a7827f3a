--------------------------- MODULE P2PTradeProofs ---------------------------
(***************************************************************************)
(* Proofs about the trade pipeline, alone and under the dispute court, for *)
(* any users, offers, admins, disputes, job settings and bounds: its       *)
(* contract calls are steps of the escrow contract (so what VaultProofs    *)
(* establishes holds of the pipeline), and it keeps the promise of         *)
(* TradePromise, whatever the court decides.  The last sections are about  *)
(* settlements: made once, on grounds that stay, and never out of reach.   *)
(***************************************************************************)
EXTENDS DisputeCourt, VaultProofs

(* What the contract says of an offer: nothing is confirmed before it is   *)
(* accepted, and an unused id reads as Open.                               *)
ChainFacts ==
  \A o \in OfferIds :
    /\ offers[o].status = "Open" =>
         /\ offers[o].taker = NoAddress
         /\ ~offers[o].takerConfirmed
         /\ ~offers[o].makerConfirmed
    /\ offers[o].maker = NoAddress => offers[o].status = "Open"

(* An admin decided the offer: the ground of DisputeCourt's steps, which   *)
(* the pipeline alone never adds (Undecided).                              *)
Decided(o) == "forced" \in grounds[o] \/ "verdict" \in grounds[o]
USE DEF Decided

(* What a recorded row says is backed by the chain or by what happened.    *)
RowFacts ==
  \A o \in OfferIds :
    /\ row[o].status # "none" => offers[o].maker # NoAddress
    /\ row[o].taker # NoAddress => row[o].taker = offers[o].taker
    /\ row[o].takerConfirmed => offers[o].takerConfirmed /\ row[o].status # "none"
    /\ row[o].makerConfirmed =>
         \/ offers[o].makerConfirmed
         \/ "makerSilent" \in grounds[o]
         \/ Decided(o)
    /\ Decided(o) => offers[o].maker # NoAddress
    /\ row[o].takerDue # "unset" =>
         /\ row[o].status \notin {"none", "open"}
         /\ offers[o].taker # NoAddress
    /\ row[o].takerDue = "over" => "takerLate" \in grounds[o]
    /\ row[o].makerDue = "silent" => "makerSilent" \in grounds[o]
    /\ "paidInTime" \in grounds[o] => row[o].takerConfirmed

(* A browser sends its PATCH only for what was mined, and a taker's window *)
(* opens once.                                                             *)
FlowFacts ==
  \A f \in web :
    /\ offers[f.id].maker # NoAddress
    /\ f.op # "create" => row[f.id].status # "none"
    /\ f.op = "accept" /\ f.step # "clicked" => offers[f.id].taker = f.who
    /\ f.op = "accept" /\ f.step = "mined" => row[f.id].takerDue = "unset"
    /\ f.op = "takerConfirm" /\ f.step = "mined" => offers[f.id].takerConfirmed
    /\ f.op = "makerConfirm" /\ f.step = "mined" => offers[f.id].makerConfirmed
    /\ \A g \in web : g.who = f.who /\ g.id = f.id => g = f

Payable(o) ==
  \/ Decided(o)
  \/ /\ offers[o].takerConfirmed
     /\ offers[o].makerConfirmed \/ "makerSilent" \in grounds[o]

Lapsed(o) ==
  \/ Decided(o)
  \/ row[o].takerDue = "over" /\ "paidInTime" \notin grounds[o]

(* What the watcher holds, and what it has broadcast, is still justified,  *)
(* however long ago it was selected.                                       *)
TaskFacts ==
  \A t \in picked :
    /\ t.job = "Job1" => Payable(t.id)
    /\ t.job = "Job2" => Lapsed(t.id)
    /\ t.job = "Job3" => "makerSilent" \in grounds[t.id]

TxFacts ==
  \A t \in mempool :
    /\ t.call = "release" => Payable(t.id)
    /\ t.call = "cancel" => Lapsed(t.id)

TradeInv ==
  /\ VaultTypeOK
  /\ TradeTypeOK
  /\ ChainFacts
  /\ RowFacts
  /\ FlowFacts
  /\ TaskFacts
  /\ TxFacts

-----------------------------------------------------------------------------
(* The contract. *)

(* Nothing the chain said of a created offer is taken back. *)
ChainGrows ==
  \A o \in OfferIds :
    /\ offers[o].maker # NoAddress => offers'[o].maker = offers[o].maker
    /\ offers[o].taker # NoAddress => offers'[o].taker = offers[o].taker
    /\ offers[o].takerConfirmed => offers'[o].takerConfirmed
    /\ offers[o].makerConfirmed => offers'[o].makerConfirmed

(* A call the pipeline makes: on a fresh id, on an offer that exists, or,   *)
(* for the platform, on one that was taken.                                 *)
PipelineCall(u, o) ==
  \/ \E amount \in Amounts : offers[o] = ZeroOffer /\ createP2POffer(u, o, amount)
  \/ /\ offers[o].maker # NoAddress
     /\ \/ acceptP2POffer(u, o)
        \/ takerConfirm(u, o)
        \/ makerConfirm(u, o)
        \/ makerCancelOffer(u, o)
        \/ releaseP2POffer(o)
        \/ cancelP2POffer(o)

LEMMA ChainStep ==
  ASSUME VaultTypeOK, ChainFacts, NEW u \in Users, NEW o \in OfferIds,
         PipelineCall(u, o) \/ UNCHANGED offers
  PROVE  ChainFacts' /\ ChainGrows
<1>1. CASE UNCHANGED offers
  BY <1>1 DEF ChainFacts, ChainGrows
<1>2. ASSUME NEW amount \in Amounts, offers[o] = ZeroOffer, createP2POffer(u, o, amount)
      PROVE  ChainFacts' /\ ChainGrows
  BY <1>2, VaultAssumption
     DEF createP2POffer, ZeroOffer, ChainFacts, ChainGrows, VaultTypeOK, P2POffer, Accounts
<1>3. ASSUME offers[o].maker # NoAddress,
             \/ acceptP2POffer(u, o)
             \/ takerConfirm(u, o)
             \/ makerConfirm(u, o)
             \/ makerCancelOffer(u, o)
             \/ releaseP2POffer(o)
             \/ cancelP2POffer(o)
      PROVE  ChainFacts' /\ ChainGrows
  BY <1>3 DEF acceptP2POffer, takerConfirm, makerConfirm, makerCancelOffer, releaseP2POffer,
     cancelP2POffer, Refund, CanRelease, ChainFacts, ChainGrows, VaultTypeOK, P2POffer
<1> QED BY <1>1, <1>2, <1>3 DEF PipelineCall

(* What may be settled by the platform was created. *)
LEMMA PayableExists ==
  ASSUME ChainFacts, RowFacts, NEW o \in OfferIds, Payable(o)
  PROVE  offers[o].maker # NoAddress
BY DEF Payable, RowFacts, ChainFacts

LEMMA LapsedExists ==
  ASSUME ChainFacts, RowFacts, NEW o \in OfferIds, Lapsed(o)
  PROVE  offers[o].maker # NoAddress
BY DEF Lapsed, RowFacts, ChainFacts

(* Every contract call of a step comes after what makes it possible. *)
LEMMA CallsOfStep ==
  ASSUME TradeInv, Next
  PROVE  UNCHANGED vaultVars \/ \E u \in Users, o \in OfferIds : PipelineCall(u, o)
<1> USE DEF TradeInv
<1>1. ASSUME NEW u \in Users, NEW o \in OfferIds, NEW amount \in Amounts,
             CreateMined(u, o, amount)
      PROVE  PipelineCall(u, o)
  BY <1>1 DEF CreateMined, PipelineCall
<1>2. ASSUME NEW u \in Users, NEW o \in OfferIds, NEW op \in Ops, CallMined(op, u, o)
      PROVE  PipelineCall(u, o)
  <2>1. offers[o].maker # NoAddress
    BY <1>2 DEF CallMined, FlowFacts, Flow
  <2> QED BY <1>2, <2>1 DEF CallMined, Call, PipelineCall
<1>3. ASSUME NEW call \in {"release", "cancel"}, NEW o \in OfferIds, Mine(call, o)
      PROVE  UNCHANGED vaultVars \/ \E u \in Users : PipelineCall(u, o)
  <2>1. CASE UNCHANGED vaultVars
    BY <2>1
  <2>2. CASE call = "release" /\ releaseP2POffer(o)
    <3>1. offers[o].maker # NoAddress
      BY <2>2 DEF releaseP2POffer, CanRelease, ChainFacts
    <3>2. offers[o].maker \in Users
      BY <3>1 DEF VaultTypeOK, P2POffer
    <3> QED BY <2>2, <3>1, <3>2 DEF PipelineCall
  <2>3. CASE call = "cancel" /\ cancelP2POffer(o)
    <3>1. offers[o].maker # NoAddress
      BY <1>3, <2>3, LapsedExists DEF Mine, TxFacts, Tx
    <3>2. offers[o].maker \in Users
      BY <3>1 DEF VaultTypeOK, P2POffer
    <3> QED BY <2>3, <3>1, <3>2 DEF PipelineCall
  <2> QED BY <1>3, <2>1, <2>2, <2>3 DEF Mine
<1>4. ASSUME NEW u \in Users, NEW o \in OfferIds, NEW op \in Ops,
             Click(op, u, o) \/ CallFailed(op, u, o) \/ Decline(op, u, o)
      PROVE  UNCHANGED vaultVars
  BY <1>4 DEF Click, CallFailed, Decline
<1>5. ASSUME NEW u \in Users, NEW o \in OfferIds,
             \/ PostOffer(u, o)
             \/ PatchAccepted(u, o) \/ PatchAcceptedError(u, o) \/ PatchAcceptAgain(u, o)
             \/ PatchTakerConfirmed(u, o) \/ PatchMakerConfirmed(u, o)
             \/ PatchCancelled(u, o) \/ PostMessage(u, o)
      PROVE  UNCHANGED vaultVars
  BY <1>5 DEF PostOffer, PatchAccepted, PatchAcceptedError, PatchAcceptAgain,
     PatchTakerConfirmed, PatchMakerConfirmed, PatchCancelled, PostMessage
<1>6. ASSUME BrowserNext
      PROVE  UNCHANGED vaultVars \/ \E u \in Users, o \in OfferIds : PipelineCall(u, o)
  BY <1>1, <1>2, <1>4, <1>5, <1>6 DEF BrowserNext
<1>7. ASSUME WatcherNext PROVE UNCHANGED vaultVars
  BY <1>7 DEF WatcherNext, Select, Broadcast, Record, DeleteChat, AutoConfirm, ApiStops
<1>8. ASSUME NEW o \in OfferIds, TimePasses(o) PROVE UNCHANGED vaultVars
  BY <1>8 DEF TimePasses, TakerWindowEnds, MakerWindowEnds, MakerStaysSilent
<1>9. ASSUME NEW f \in web, FlowLost(f) PROVE UNCHANGED vaultVars
  BY <1>9 DEF FlowLost
<1>10. ASSUME NEW call \in {"release", "cancel"}, NEW o \in OfferIds, TxDropped(call, o)
       PROVE  UNCHANGED vaultVars
  BY <1>10 DEF TxDropped
<1> QED BY <1>3, <1>6, <1>7, <1>8, <1>9, <1>10 DEF Next, ChainNext

(* So a step of the pipeline is a step of the contract or leaves it alone. *)
LEMMA PipelineIsVaultStep ==
  ASSUME NEW u \in Users, NEW o \in OfferIds, PipelineCall(u, o)
  PROVE  VaultNext
BY DEF PipelineCall, VaultNext

-----------------------------------------------------------------------------
(* Types. *)

LEMMA InitInv == Init => TradeInv
<1> SUFFICES ASSUME Init PROVE TradeInv
  OBVIOUS
<1>1. VaultTypeOK
  BY InitType DEF Init
<1>2. NoRow \in Row
  BY DEF NoRow, Row
<1>3. TradeTypeOK
  BY <1>2, P2PAssumption DEF Init, TradeInit, TradeTypeOK
<1>4. ChainFacts
  BY DEF Init, VaultInit, ZeroOffer, ChainFacts
<1>5. RowFacts
  BY DEF Init, TradeInit, NoRow, RowFacts
<1>6. FlowFacts /\ TaskFacts /\ TxFacts
  BY DEF Init, TradeInit, FlowFacts, TaskFacts, TxFacts
<1> QED BY <1>1, <1>3, <1>4, <1>5, <1>6 DEF TradeInv

LEMMA TypeStep ==
  ASSUME TradeTypeOK, VaultTypeOK, Next
  PROVE  TradeTypeOK'
<1> USE DEF TradeTypeOK
<1>1. ASSUME NEW u \in Users, NEW o \in OfferIds, NEW amount \in Amounts,
             CreateMined(u, o, amount)
      PROVE  TradeTypeOK'
  BY <1>1 DEF CreateMined, Flow, Flows, Ops
<1>2. ASSUME NEW u \in Users, NEW o \in OfferIds, NEW op \in Ops,
             Click(op, u, o) \/ CallMined(op, u, o) \/ CallFailed(op, u, o) \/ Decline(op, u, o)
      PROVE  TradeTypeOK'
  BY <1>2 DEF Click, CallMined, CallFailed, Decline, Flow, Flows
<1>3. ASSUME NEW r \in Row
      PROVE  /\ [NoRow EXCEPT !.status = "open"] \in Row
             /\ \A u \in Users : Taken(r, u) \in Row
             /\ [r EXCEPT !.takerConfirmed = TRUE, !.makerDue = "running"] \in Row
             /\ [r EXCEPT !.makerConfirmed = TRUE] \in Row
             /\ [r EXCEPT !.takerDue = "over"] \in Row
             /\ [r EXCEPT !.makerDue = "over"] \in Row
             /\ [r EXCEPT !.makerDue = "silent"] \in Row
             /\ [r EXCEPT !.status = "released"] \in Row
             /\ [r EXCEPT !.status = "cancelled"] \in Row
  BY DEF Row, NoRow, Taken
<1>4. ASSUME NEW o \in OfferIds, NEW r \in Row
      PROVE  row[o] \in Row /\ [row EXCEPT ![o] = r] \in [OfferIds -> Row]
  OBVIOUS
<1>5. ASSUME NEW u \in Users, NEW o \in OfferIds,
             \/ PostOffer(u, o) \/ PatchAccepted(u, o) \/ PatchAcceptedError(u, o)
             \/ PatchAcceptAgain(u, o) \/ PatchTakerConfirmed(u, o)
             \/ PatchMakerConfirmed(u, o) \/ PatchCancelled(u, o)
      PROVE  TradeTypeOK'
  <2>1. row' \in [OfferIds -> Row]
    <3>1. CASE PostOffer(u, o)
      BY <1>3, <1>4, <3>1 DEF PostOffer
    <3>2. CASE PatchAccepted(u, o)
      BY <1>3, <1>4, <3>2 DEF PatchAccepted
    <3>3. CASE PatchAcceptAgain(u, o)
      BY <1>3, <1>4, <3>3 DEF PatchAcceptAgain
    <3>4. CASE PatchTakerConfirmed(u, o)
      BY <1>3, <1>4, <3>4 DEF PatchTakerConfirmed
    <3>5. CASE PatchMakerConfirmed(u, o)
      BY <1>3, <1>4, <3>5 DEF PatchMakerConfirmed
    <3>6. CASE PatchCancelled(u, o)
      BY <1>3, <1>4, <3>6 DEF PatchCancelled
    <3>7. CASE PatchAcceptedError(u, o)
      BY <3>7 DEF PatchAcceptedError
    <3> QED BY <1>5, <3>1, <3>2, <3>3, <3>4, <3>5, <3>6, <3>7
  <2>2. web' \subseteq Flows
    BY <1>5 DEF PostOffer, PatchAccepted, PatchAcceptedError, PatchAcceptAgain,
       PatchTakerConfirmed, PatchMakerConfirmed, PatchCancelled, Flow, Flows, Ops
  <2>3. grounds' \in [OfferIds -> SUBSET Events]
    BY <1>5 DEF PostOffer, PatchAccepted, PatchAcceptedError, PatchAcceptAgain,
       PatchTakerConfirmed, PatchMakerConfirmed, PatchCancelled, Events
  <2>4. faults' \in 0 .. MaxFaults
    BY <1>5, P2PAssumption DEF PostOffer, PatchAccepted, PatchAcceptedError, PatchAcceptAgain,
       PatchTakerConfirmed, PatchMakerConfirmed, PatchCancelled
  <2>5. UNCHANGED <<chat, picked, mempool, drops>>
    BY <1>5 DEF PostOffer, PatchAccepted, PatchAcceptedError, PatchAcceptAgain,
       PatchTakerConfirmed, PatchMakerConfirmed, PatchCancelled
  <2> QED BY <2>1, <2>2, <2>3, <2>4, <2>5
<1>6. ASSUME NEW u \in Users, NEW o \in OfferIds, PostMessage(u, o) PROVE TradeTypeOK'
  BY <1>6 DEF PostMessage
<1>7. ASSUME NEW o \in OfferIds, TimePasses(o) PROVE TradeTypeOK'
  <2>1. CASE TakerWindowEnds(o)
    <3>1. row' \in [OfferIds -> Row]
      BY <1>3, <1>4, <2>1 DEF TakerWindowEnds
    <3> QED BY <2>1, <3>1 DEF TakerWindowEnds, Witnessed, Events
  <2>2. CASE MakerWindowEnds(o)
    <3>1. row' \in [OfferIds -> Row]
      BY <1>3, <1>4, <2>2 DEF MakerWindowEnds
    <3> QED BY <2>2, <3>1 DEF MakerWindowEnds
  <2>3. CASE MakerStaysSilent(o)
    <3>1. row' \in [OfferIds -> Row]
      BY <1>3, <1>4, <2>3 DEF MakerStaysSilent
    <3> QED BY <2>3, <3>1 DEF MakerStaysSilent, Witnessed, Events
  <2> QED BY <1>7, <2>1, <2>2, <2>3 DEF TimePasses
<1>8. ASSUME NEW f \in web, FlowLost(f) PROVE TradeTypeOK'
  BY <1>8, P2PAssumption DEF FlowLost
<1>9. ASSUME NEW job \in Jobs, Select(job) PROVE TradeTypeOK'
  <2>1. \E B \in SUBSET OfferIds :
          picked' = picked \cup {Task(job, o, "selected") : o \in B}
    <3>1. Wanted(job) \subseteq OfferIds
      BY P2PAssumption
      DEF Wanted, BothConfirmed, TakerTimedOut, MakerTimedOut, Finished
    <3> QED BY <1>9, <3>1 DEF Select, Batches
  <2>2. picked' \subseteq Tasks
    BY <2>1 DEF Task, Tasks
  <2> QED BY <1>9, <2>2 DEF Select
<1>10. ASSUME NEW job \in Jobs, NEW o \in OfferIds,
              Broadcast(job, o) \/ Record(job, o) \/ DeleteChat(job, o)
       PROVE  TradeTypeOK'
  <2>1. CASE Broadcast(job, o)
    BY <2>1 DEF Broadcast, Task, Tasks, Tx, Txs, CallOf
  <2>2. CASE Record(job, o)
    <3>1. row' \in [OfferIds -> Row]
      <4>1. job \in {"Job1", "Job2"}
        BY <2>2 DEF Record
      <4>2. CASE job = "Job1"
        BY <1>3, <1>4, <2>2, <4>2 DEF Record
      <4>3. CASE job = "Job2"
        BY <1>3, <1>4, <2>2, <4>3 DEF Record
      <4> QED BY <4>1, <4>2, <4>3
    <3> QED BY <2>2, <3>1 DEF Record, Task, Tasks
  <2>3. CASE DeleteChat(job, o)
    BY <2>3 DEF DeleteChat
  <2> QED BY <1>10, <2>1, <2>2, <2>3
<1>11. ASSUME NEW o \in OfferIds, AutoConfirm(o) PROVE TradeTypeOK'
  <2>1. row' \in [OfferIds -> Row]
    BY <1>3, <1>4, <1>11 DEF AutoConfirm
  <2> QED BY <1>11, <2>1 DEF AutoConfirm
<1>12. ASSUME ApiStops PROVE TradeTypeOK'
  BY <1>12, P2PAssumption DEF ApiStops
<1>13. ASSUME NEW call \in {"release", "cancel"}, NEW o \in OfferIds,
              Mine(call, o) \/ TxDropped(call, o)
       PROVE  TradeTypeOK'
  BY <1>13, P2PAssumption DEF Mine, TxDropped
<1> QED BY <1>1, <1>2, <1>5, <1>6, <1>7, <1>8, <1>9, <1>10, <1>11, <1>12, <1>13
       DEF Next, BrowserNext, WatcherNext, ChainNext

-----------------------------------------------------------------------------
(* The invariant, part by part. *)

LEMMA ChainStepOfNext ==
  ASSUME TradeInv, Next
  PROVE  ChainFacts' /\ ChainGrows
<1>1. CASE UNCHANGED vaultVars
  BY <1>1 DEF vaultVars, ChainFacts, ChainGrows, TradeInv
<1>2. CASE \E u \in Users, o \in OfferIds : PipelineCall(u, o)
  BY <1>2, ChainStep DEF TradeInv
<1> QED BY <1>1, <1>2, CallsOfStep

(* Steps that write neither rows nor the history. *)
LEMMA RowFactsKept ==
  ASSUME RowFacts, ChainGrows, UNCHANGED <<row, grounds>>
  PROVE  RowFacts'
BY DEF RowFacts, ChainGrows

LEMMA RowStep ==
  ASSUME TradeInv, ChainGrows, Next
  PROVE  RowFacts'
<1> USE DEF TradeInv
<1>1. ASSUME NEW u \in Users, NEW o \in OfferIds, PostOffer(u, o) PROVE RowFacts'
  <2>1. offers[o].maker # NoAddress
    BY <1>1 DEF PostOffer, FlowFacts, Flow
  <2>2. CASE row[o].status = "none"
    <3>1. row' = [row EXCEPT ![o] = [NoRow EXCEPT !.status = "open"]]
      BY <1>1, <2>2 DEF PostOffer
    <3>2. "paidInTime" \notin grounds[o] \/ row[o].takerConfirmed
      BY DEF RowFacts
    <3> QED BY <1>1, <2>1, <2>2, <3>1, <3>2 DEF PostOffer, vaultVars, RowFacts, NoRow, TradeTypeOK, Row
  <2>3. CASE row[o].status # "none"
    <3>1. row' = row
      BY <1>1, <2>3 DEF PostOffer, TradeTypeOK
    <3> QED BY <1>1, <3>1, RowFactsKept DEF PostOffer
  <2> QED BY <2>2, <2>3
<1>2. ASSUME NEW u \in Users, NEW o \in OfferIds,
             \/ PatchAccepted(u, o)
             \/ PatchAcceptAgain(u, o) /\ row[o].status = "open"
      PROVE  RowFacts'
  <2>1. u # NoAddress /\ offers[o].taker = u /\ offers[o].maker # NoAddress
    BY <1>2, VaultAssumption
       DEF PatchAccepted, PatchAcceptAgain, FlowFacts, Flow, Accounts
  <2>2. row' = [row EXCEPT ![o] = Taken(@, u)] /\ UNCHANGED <<grounds, offers>>
    BY <1>2 DEF PatchAccepted, PatchAcceptAgain, vaultVars
  <2> QED BY <2>1, <2>2 DEF Taken, RowFacts, TradeTypeOK, Row
<1>3. ASSUME NEW u \in Users, NEW o \in OfferIds,
             PatchAcceptAgain(u, o), row[o].status # "open"
      PROVE  RowFacts'
  <2>1. row' = row
    BY <1>3 DEF PatchAcceptAgain, TradeTypeOK
  <2> QED BY <1>3, <2>1, RowFactsKept DEF PatchAcceptAgain
<1>4. ASSUME NEW u \in Users, NEW o \in OfferIds, PatchTakerConfirmed(u, o)
      PROVE  RowFacts'
  <2>1. offers[o].takerConfirmed /\ offers[o].maker # NoAddress /\ row[o].status # "none"
    BY <1>4 DEF PatchTakerConfirmed, FlowFacts, Flow
  <2>2. grounds'[o] \subseteq grounds[o] \cup {"paidInTime"} /\ grounds[o] \subseteq grounds'[o]
    BY <1>4 DEF PatchTakerConfirmed, TradeTypeOK
  <2>3. \A p \in OfferIds \ {o} : row'[p] = row[p] /\ grounds'[p] = grounds[p]
    BY <1>4 DEF PatchTakerConfirmed, TradeTypeOK
  <2>4. row'[o] = [row[o] EXCEPT !.takerConfirmed = TRUE, !.makerDue = "running"]
    BY <1>4 DEF PatchTakerConfirmed, TradeTypeOK
  <2>5. UNCHANGED offers
    BY <1>4 DEF PatchTakerConfirmed, vaultVars
  <2>6. /\ row'[o].status = row[o].status /\ row'[o].taker = row[o].taker
        /\ row'[o].takerConfirmed /\ row'[o].makerConfirmed = row[o].makerConfirmed
        /\ row'[o].takerDue = row[o].takerDue /\ row'[o].makerDue = "running"
    BY <2>4 DEF TradeTypeOK, Row
  <2>7. SUFFICES ASSUME NEW p \in OfferIds PROVE RowFacts!(p)'
    BY DEF RowFacts
  <2>8. CASE p = o
    BY <2>1, <2>2, <2>5, <2>6, <2>8 DEF RowFacts
  <2>9. CASE p # o
    BY <2>3, <2>5, <2>9 DEF RowFacts
  <2> QED BY <2>8, <2>9
<1>5. ASSUME NEW u \in Users, NEW o \in OfferIds, PatchMakerConfirmed(u, o)
      PROVE  RowFacts'
  <2>1. offers[o].makerConfirmed /\ offers[o].maker # NoAddress
    BY <1>5 DEF PatchMakerConfirmed, FlowFacts, Flow
  <2> QED BY <1>5, <2>1 DEF PatchMakerConfirmed, vaultVars, RowFacts, TradeTypeOK, Row
<1>6. ASSUME NEW u \in Users, NEW o \in OfferIds, PatchCancelled(u, o)
      PROVE  RowFacts'
  <2>1. offers[o].maker # NoAddress
    BY <1>6 DEF PatchCancelled, FlowFacts, Flow
  <2> QED BY <1>6, <2>1 DEF PatchCancelled, vaultVars, RowFacts, TradeTypeOK, Row
<1>7. ASSUME NEW o \in OfferIds, TakerWindowEnds(o) PROVE RowFacts'
  BY <1>7 DEF TakerWindowEnds, Witnessed, vaultVars, RowFacts, TradeTypeOK, Row
<1>8. ASSUME NEW o \in OfferIds, MakerWindowEnds(o) \/ MakerStaysSilent(o) PROVE RowFacts'
  BY <1>8 DEF MakerWindowEnds, MakerStaysSilent, Witnessed, vaultVars, RowFacts, TradeTypeOK, Row
<1>9. ASSUME NEW job \in Jobs, NEW o \in OfferIds, Record(job, o) PROVE RowFacts'
  <2>1. offers[o].maker # NoAddress
    <3>1. Payable(o) \/ Lapsed(o)
      BY <1>9 DEF Record, TaskFacts, Task
    <3> QED BY <3>1, PayableExists, LapsedExists
  <2>2. row'[o].status \notin {"none", "open"}
    BY <1>9 DEF Record, TradeTypeOK, Row
  <2> QED BY <1>9, <2>1, <2>2 DEF Record, vaultVars, RowFacts, TradeTypeOK, Row
<1>10. ASSUME NEW o \in OfferIds, AutoConfirm(o) PROVE RowFacts'
  <2>1. "makerSilent" \in grounds[o]
    BY <1>10 DEF AutoConfirm, TaskFacts, Task
  <2> QED BY <1>10, <2>1 DEF AutoConfirm, vaultVars, RowFacts, TradeTypeOK, Row
<1>11. ASSUME NEW u \in Users, NEW o \in OfferIds,
              \/ \E amount \in Amounts : CreateMined(u, o, amount)
              \/ \E op \in Ops : \/ Click(op, u, o) \/ CallMined(op, u, o)
                                \/ CallFailed(op, u, o) \/ Decline(op, u, o)
              \/ PatchAcceptedError(u, o)
              \/ PostMessage(u, o)
       PROVE  RowFacts'
  <2>1. UNCHANGED <<row, grounds>>
    BY <1>11 DEF CreateMined, Click, CallMined, CallFailed, Decline, PatchAcceptedError, PostMessage
  <2> QED BY <2>1, RowFactsKept
<1>12. ASSUME NEW f \in web, FlowLost(f) PROVE RowFacts'
  BY <1>12, RowFactsKept DEF FlowLost
<1>13. ASSUME NEW job \in Jobs,
              \/ Select(job)
              \/ \E o \in OfferIds : Broadcast(job, o) \/ DeleteChat(job, o)
              \/ ApiStops
       PROVE  RowFacts'
  <2>1. UNCHANGED <<row, grounds>>
    BY <1>13 DEF Select, Broadcast, DeleteChat, ApiStops
  <2> QED BY <2>1, RowFactsKept
<1>14. ASSUME ChainNext PROVE RowFacts'
  <2>1. UNCHANGED <<row, grounds>>
    BY <1>14 DEF ChainNext, Mine, TxDropped
  <2> QED BY <2>1, RowFactsKept
<1>15. ASSUME ApiStops PROVE RowFacts'
  BY <1>15, RowFactsKept DEF ApiStops
<1> QED BY <1>1, <1>2, <1>3, <1>4, <1>5, <1>6, <1>7, <1>8, <1>9, <1>10, <1>11, <1>12, <1>13,
           <1>14, <1>15
       DEF Next, BrowserNext, TimePasses, WatcherNext

(* What a step does to the facts flows, tasks and transactions rest on. *)
Onward ==
  /\ ChainGrows
  /\ \A o \in OfferIds :
       /\ row[o].status # "none" => row'[o].status # "none"
       /\ Payable(o) => Payable(o)'
       /\ Lapsed(o) => Lapsed(o)'
       /\ "makerSilent" \in grounds[o] => "makerSilent" \in grounds'[o]

LEMMA OnwardStep ==
  ASSUME TradeInv, ChainGrows, Next
  PROVE  Onward
<1> USE DEF TradeInv
<1>1. ASSUME UNCHANGED <<row, grounds>> PROVE Onward
  BY <1>1 DEF Onward, ChainGrows, Payable, Lapsed
<1>2. ASSUME NEW o \in OfferIds,
             \A p \in OfferIds \ {o} : row'[p] = row[p] /\ grounds'[p] = grounds[p],
             grounds[o] \subseteq grounds'[o],
             row'[o].status # "none",
             Lapsed(o) => Lapsed(o)'
      PROVE  Onward
  BY <1>2 DEF Onward, ChainGrows, Payable, Lapsed
<1>3. ASSUME NEW u \in Users, NEW o \in OfferIds, PostOffer(u, o) PROVE Onward
  <2>1. (row'[o].status # "none" /\ row'[o].takerDue = row[o].takerDue) \/ row[o].status = "none"
    BY <1>3 DEF PostOffer, TradeTypeOK
  <2>2. row[o].status = "none" => row[o].takerDue = "unset" /\ row'[o].status # "none"
    BY <1>3 DEF PostOffer, RowFacts, NoRow, TradeTypeOK
  <2>3. Lapsed(o) => Lapsed(o)'
    BY <1>3, <2>1, <2>2 DEF PostOffer, Lapsed
  <2> QED BY <1>2, <1>3, <2>1, <2>2, <2>3 DEF PostOffer, TradeTypeOK
<1>4. ASSUME NEW u \in Users, NEW o \in OfferIds,
             PatchAccepted(u, o) \/ PatchAcceptAgain(u, o)
      PROVE  Onward
  <2>1. row[o].status # "none"
    BY <1>4 DEF PatchAccepted, PatchAcceptAgain, FlowFacts, Flow
  <2>2. CASE row' = row
    BY <1>1, <1>4, <2>2 DEF PatchAccepted, PatchAcceptAgain
  <2>3. CASE row' # row
    <3>1. row[o].takerDue = "unset"
      BY <1>4, <2>3 DEF PatchAccepted, PatchAcceptAgain, FlowFacts, Flow, RowFacts, TradeTypeOK
    <3>2. row'[o].status = "accepted"
      BY <1>4, <2>3 DEF PatchAccepted, PatchAcceptAgain, Taken, TradeTypeOK, Row
    <3> QED BY <1>2, <1>4, <3>1, <3>2 DEF PatchAccepted, PatchAcceptAgain, Lapsed, TradeTypeOK
  <2> QED BY <2>2, <2>3
<1>5. ASSUME NEW u \in Users, NEW o \in OfferIds,
             \/ PatchTakerConfirmed(u, o)
             \/ PatchMakerConfirmed(u, o)
             \/ PatchCancelled(u, o)
      PROVE  Onward
  <2>1. row[o].status # "none"
    BY <1>5 DEF PatchTakerConfirmed, PatchMakerConfirmed, PatchCancelled, FlowFacts, Flow
  <2>2. row'[o].status # "none" /\ row'[o].takerDue = row[o].takerDue
    <3>1. row \in [OfferIds -> Row]
      BY DEF TradeTypeOK
    <3>2. CASE PatchTakerConfirmed(u, o)
      BY <2>1, <3>1, <3>2 DEF PatchTakerConfirmed, Row
    <3>3. CASE PatchMakerConfirmed(u, o)
      BY <2>1, <3>1, <3>3 DEF PatchMakerConfirmed, Row
    <3>4. CASE PatchCancelled(u, o)
      BY <2>1, <3>1, <3>4 DEF PatchCancelled, Row
    <3> QED BY <1>5, <3>2, <3>3, <3>4
  <2>3. grounds[o] \subseteq grounds'[o] /\ (row[o].takerDue = "over" => grounds' = grounds)
    BY <1>5 DEF PatchTakerConfirmed, PatchMakerConfirmed, PatchCancelled, TradeTypeOK
  <2>4. \A p \in OfferIds \ {o} : row'[p] = row[p] /\ grounds'[p] = grounds[p]
    BY <1>5 DEF PatchTakerConfirmed, PatchMakerConfirmed, PatchCancelled, TradeTypeOK
  <2>5. Lapsed(o) => Lapsed(o)'
    BY <2>2, <2>3 DEF Lapsed
  <2> QED BY <1>2, <2>2, <2>3, <2>4, <2>5
<1>6. ASSUME NEW o \in OfferIds, TimePasses(o) PROVE Onward
  <2>1. row[o].status # "none" => row'[o].status # "none"
    BY <1>6 DEF TimePasses, TakerWindowEnds, MakerWindowEnds, MakerStaysSilent, TradeTypeOK, Row
  <2>2. Lapsed(o) => Lapsed(o)'
    BY <1>6 DEF TimePasses, TakerWindowEnds, MakerWindowEnds, MakerStaysSilent, Witnessed, Lapsed,
       TradeTypeOK, Row
  <2>3. grounds[o] \subseteq grounds'[o]
    BY <1>6 DEF TimePasses, TakerWindowEnds, MakerWindowEnds, MakerStaysSilent, Witnessed,
       TradeTypeOK
  <2>4. \A p \in OfferIds \ {o} : row'[p] = row[p] /\ grounds'[p] = grounds[p]
    BY <1>6 DEF TimePasses, TakerWindowEnds, MakerWindowEnds, MakerStaysSilent, Witnessed,
       TradeTypeOK
  <2> QED BY <2>1, <2>2, <2>3, <2>4 DEF Onward, ChainGrows, Payable, Lapsed
<1>7. ASSUME NEW job \in Jobs, NEW o \in OfferIds, Record(job, o) \/ AutoConfirm(o)
      PROVE  Onward
  <2>1. row'[o].takerDue = row[o].takerDue /\ (row[o].status # "none" => row'[o].status # "none")
    BY <1>7 DEF Record, AutoConfirm, TradeTypeOK, Row
  <2>2. UNCHANGED grounds /\ \A p \in OfferIds \ {o} : row'[p] = row[p]
    BY <1>7 DEF Record, AutoConfirm, TradeTypeOK
  <2> QED BY <2>1, <2>2 DEF Onward, ChainGrows, Payable, Lapsed
<1>8. ASSUME NEW u \in Users, NEW o \in OfferIds,
              \/ \E amount \in Amounts : CreateMined(u, o, amount)
              \/ \E op \in Ops : \/ Click(op, u, o) \/ CallMined(op, u, o)
                                \/ CallFailed(op, u, o) \/ Decline(op, u, o)
              \/ PatchAcceptedError(u, o)
              \/ PostMessage(u, o)
      PROVE  UNCHANGED <<row, grounds>>
  BY <1>8 DEF CreateMined, Click, CallMined, CallFailed, Decline, PatchAcceptedError, PostMessage
<1>9. ASSUME \/ \E f \in web : FlowLost(f)
             \/ \E job \in Jobs : \/ Select(job)
                                  \/ \E o \in OfferIds : Broadcast(job, o) \/ DeleteChat(job, o)
             \/ ApiStops
             \/ ChainNext
      PROVE  UNCHANGED <<row, grounds>>
  BY <1>9 DEF FlowLost, Select, Broadcast, DeleteChat, ApiStops, ChainNext, Mine, TxDropped
<1>10. ASSUME NEW o \in OfferIds, AutoConfirm(o) PROVE Onward
  <2>1. \E job \in Jobs : TRUE
    BY <1>10 DEF AutoConfirm, TradeTypeOK, Tasks, Task
  <2> QED BY <1>7, <1>10, <2>1
<1> QED BY <1>1, <1>3, <1>4, <1>5, <1>6, <1>7, <1>8, <1>9, <1>10
       DEF Next, BrowserNext, WatcherNext

(* A step that starts no flow and opens no taker's window. *)
LEMMA FlowsKept ==
  ASSUME TradeTypeOK, FlowFacts, Onward, web' \subseteq web,
         \A o \in OfferIds : row[o].takerDue = "unset" => row'[o].takerDue = "unset"
  PROVE  FlowFacts'
<1>1. \A f \in web : f.id \in OfferIds /\ f.who \in Users
  BY DEF TradeTypeOK, Flows
<1> QED BY <1>1, VaultAssumption DEF FlowFacts, Onward, ChainGrows, Accounts

(* A flow that moves on, in place of the flow it was. *)
LEMMA FlowMoves ==
  ASSUME TradeTypeOK, FlowFacts, Onward,
         NEW op \in Ops, NEW u \in Users, NEW o \in OfferIds, NEW s, NEW t,
         Flow(op, u, o, s) \in web,
         web' = (web \ {Flow(op, u, o, s)}) \cup {Flow(op, u, o, t)},
         \A p \in OfferIds : row[p].takerDue = "unset" => row'[p].takerDue = "unset" \/ p = o,
         \A f \in web \ {Flow(op, u, o, s)} :
           f.id = o /\ f.op = "accept" /\ f.step = "mined" => row'[o].takerDue = "unset",
         op = "accept" /\ t # "clicked" => offers'[o].taker = u,
         op = "accept" /\ t = "mined" => row'[o].takerDue = "unset",
         op = "takerConfirm" /\ t = "mined" => offers'[o].takerConfirmed,
         op = "makerConfirm" /\ t = "mined" => offers'[o].makerConfirmed
  PROVE  FlowFacts'
<1>1. \A f \in web : f.id \in OfferIds /\ f.who \in Users
  BY DEF TradeTypeOK, Flows
<1>2. /\ offers'[o].maker # NoAddress
      /\ op # "create" => row'[o].status # "none"
  BY DEF FlowFacts, Flow, Onward, ChainGrows
<1>3. ASSUME NEW f \in web, f # Flow(op, u, o, s)
      PROVE  /\ offers'[f.id].maker # NoAddress
             /\ f.op # "create" => row'[f.id].status # "none"
             /\ f.op = "accept" /\ f.step # "clicked" => offers'[f.id].taker = f.who
             /\ f.op = "accept" /\ f.step = "mined" => row'[f.id].takerDue = "unset"
             /\ f.op = "takerConfirm" /\ f.step = "mined" => offers'[f.id].takerConfirmed
             /\ f.op = "makerConfirm" /\ f.step = "mined" => offers'[f.id].makerConfirmed
             /\ ~(f.who = u /\ f.id = o)
  BY <1>1, <1>3, VaultAssumption DEF FlowFacts, Onward, ChainGrows, Accounts, Flow
<1> QED BY <1>2, <1>3 DEF FlowFacts, Flow

LEMMA FlowStep ==
  ASSUME TradeInv, Onward, Next
  PROVE  FlowFacts'
<1> USE DEF TradeInv
<1>1. ASSUME NEW u \in Users, NEW o \in OfferIds, NEW amount \in Amounts,
             CreateMined(u, o, amount)
      PROVE  FlowFacts'
  <2>1. \A f \in web : f.id # o
    BY <1>1 DEF CreateMined, ZeroOffer, FlowFacts
  <2>2. offers'[o].maker = u /\ u # NoAddress
    BY <1>1, VaultAssumption DEF CreateMined, createP2POffer, ZeroOffer, VaultTypeOK, Accounts
  <2>3. row' = row /\ \A p \in OfferIds \ {o} : offers'[p] = offers[p]
    BY <1>1 DEF CreateMined, createP2POffer, VaultTypeOK
  <2>4. \A f \in web : f.id \in OfferIds
    BY DEF TradeTypeOK, Flows
  <2>5. web' = web \cup {Flow("create", u, o, "mined")}
    BY <1>1 DEF CreateMined
  <2> QED BY <2>1, <2>2, <2>3, <2>4, <2>5 DEF FlowFacts, Flow
<1>2. ASSUME NEW u \in Users, NEW o \in OfferIds, NEW op \in Ops, Click(op, u, o)
      PROVE  FlowFacts'
  <2>1. row[o].status # "none" /\ offers[o].maker # NoAddress
    BY <1>2 DEF Click, CanClick, RowFacts, Ops
  <2> QED BY <1>2, <2>1 DEF Click, vaultVars, FlowFacts, Flow
<1>3. ASSUME NEW u \in Users, NEW o \in OfferIds, NEW op \in Ops, CallMined(op, u, o)
      PROVE  FlowFacts'
  <2>1. op = "accept" => offers'[o].taker = u /\ offers[o].taker = NoAddress
    BY <1>3 DEF CallMined, Call, acceptP2POffer, ChainFacts, VaultTypeOK, P2POffer
  <2>2. op = "accept" => row[o].takerDue = "unset"
    BY <2>1 DEF RowFacts
  <2>3. op = "takerConfirm" => offers'[o].takerConfirmed
    BY <1>3 DEF CallMined, Call, takerConfirm, VaultTypeOK, P2POffer
  <2>4. op = "makerConfirm" => offers'[o].makerConfirmed
    BY <1>3 DEF CallMined, Call, makerConfirm, VaultTypeOK, P2POffer
  <2>5. row' = row /\ Flow(op, u, o, "clicked") \in web
        /\ web' = (web \ {Flow(op, u, o, "clicked")}) \cup {Flow(op, u, o, "mined")}
    BY <1>3 DEF CallMined
  <2>6. \A f \in web : f.id = o /\ f.op = "accept" /\ f.step = "mined" => row[o].takerDue = "unset"
    BY DEF FlowFacts
  <2> QED BY <2>1, <2>2, <2>3, <2>4, <2>5, <2>6, FlowMoves
<1>4. ASSUME NEW u \in Users, NEW o \in OfferIds, PatchAccepted(u, o)
      PROVE  FlowFacts'
  <2>1. offers[o].taker = u /\ UNCHANGED offers
    BY <1>4 DEF PatchAccepted, FlowFacts, Flow, vaultVars
  <2>2. ASSUME NEW f \in web, f.id = o, f.op = "accept", f.step = "mined"
        PROVE  f = Flow("accept", u, o, "mined")
    BY <1>4, <2>1, <2>2 DEF PatchAccepted, FlowFacts, Flow
  <2>3. /\ Flow("accept", u, o, "mined") \in web
        /\ web' = (web \ {Flow("accept", u, o, "mined")}) \cup {Flow("accept", u, o, "patched")}
        /\ \A p \in OfferIds \ {o} : row'[p] = row[p]
    BY <1>4 DEF PatchAccepted, TradeTypeOK
  <2>4. "accept" \in Ops
    BY DEF Ops
  <2> QED BY <2>1, <2>2, <2>3, <2>4, FlowMoves
<1>5. ASSUME NEW u \in Users, NEW o \in OfferIds, PatchAcceptedError(u, o)
      PROVE  FlowFacts'
  <2>1. offers'[o].taker = u
    BY <1>5 DEF PatchAcceptedError, FlowFacts, Flow, vaultVars
  <2>2. /\ Flow("accept", u, o, "mined") \in web
        /\ web' = (web \ {Flow("accept", u, o, "mined")}) \cup {Flow("accept", u, o, "patched")}
        /\ row' = row
    BY <1>5 DEF PatchAcceptedError
  <2>3. "accept" \in Ops
    BY DEF Ops
  <2>4. \A f \in web : f.id = o /\ f.op = "accept" /\ f.step = "mined" => row[o].takerDue = "unset"
    BY DEF FlowFacts
  <2> QED BY <2>1, <2>2, <2>3, <2>4, FlowMoves
<1>6. ASSUME NEW u \in Users, NEW o \in OfferIds, PatchAcceptAgain(u, o)
      PROVE  FlowFacts'
  <2>1. offers[o].taker = u /\ UNCHANGED offers
    BY <1>6 DEF PatchAcceptAgain, FlowFacts, Flow, vaultVars
  <2>2. ASSUME NEW f \in web', f.id = o PROVE ~(f.op = "accept" /\ f.step = "mined")
    BY <1>6, <2>1, <2>2 DEF PatchAcceptAgain, FlowFacts, Flow
  <2>3. web' \subseteq web /\ \A p \in OfferIds \ {o} : row'[p] = row[p]
    BY <1>6 DEF PatchAcceptAgain, TradeTypeOK
  <2>4. \A f \in web : f.id \in OfferIds
    BY DEF TradeTypeOK, Flows
  <2>5. \A p \in OfferIds : row[p].status # "none" => row'[p].status # "none"
    BY DEF Onward
  <2> QED BY <2>1, <2>2, <2>3, <2>4, <2>5 DEF FlowFacts
<1>7. ASSUME NEW u \in Users, NEW o \in OfferIds,
             \/ \E op \in Ops : CallFailed(op, u, o) \/ Decline(op, u, o)
             \/ PostOffer(u, o)
             \/ PatchTakerConfirmed(u, o)
             \/ PatchMakerConfirmed(u, o)
             \/ PatchCancelled(u, o)
             \/ PostMessage(u, o)
      PROVE  FlowFacts'
  <2>1. web' \subseteq web
    BY <1>7 DEF CallFailed, Decline, PostOffer, PatchTakerConfirmed, PatchMakerConfirmed,
       PatchCancelled, PostMessage
  <2>2. ASSUME NEW p \in OfferIds, row[p].takerDue = "unset" PROVE row'[p].takerDue = "unset"
    <3>1. CASE PostOffer(u, o)
      BY <3>1, <2>2 DEF PostOffer, NoRow, TradeTypeOK
    <3>2. CASE PatchTakerConfirmed(u, o) \/ PatchMakerConfirmed(u, o) \/ PatchCancelled(u, o)
      <4>1. CASE PatchTakerConfirmed(u, o)
        BY <4>1, <2>2 DEF PatchTakerConfirmed, TradeTypeOK, Row
      <4>2. CASE PatchMakerConfirmed(u, o)
        BY <4>2, <2>2 DEF PatchMakerConfirmed, TradeTypeOK, Row
      <4>3. CASE PatchCancelled(u, o)
        BY <4>3, <2>2 DEF PatchCancelled, TradeTypeOK, Row
      <4> QED BY <3>2, <4>1, <4>2, <4>3
    <3>3. CASE (\E op \in Ops : CallFailed(op, u, o) \/ Decline(op, u, o)) \/ PostMessage(u, o)
      BY <3>3, <2>2 DEF CallFailed, Decline, PostMessage
    <3> QED BY <1>7, <3>1, <3>2, <3>3
  <2> QED BY <2>1, <2>2, FlowsKept
<1>8. ASSUME NEW o \in OfferIds, TimePasses(o) PROVE FlowFacts'
  <2>1. web' \subseteq web
    BY <1>8 DEF TimePasses, TakerWindowEnds, MakerWindowEnds, MakerStaysSilent
  <2>2. ASSUME NEW p \in OfferIds, row[p].takerDue = "unset" PROVE row'[p].takerDue = "unset"
    BY <1>8, <2>2 DEF TimePasses, TakerWindowEnds, MakerWindowEnds, MakerStaysSilent,
       TradeTypeOK, Row
  <2> QED BY <2>1, <2>2, FlowsKept
<1>9. ASSUME NEW o \in OfferIds, (\E job \in Jobs : Record(job, o)) \/ AutoConfirm(o)
      PROVE  FlowFacts'
  <2>1. web' \subseteq web
    BY <1>9 DEF Record, AutoConfirm
  <2>2. ASSUME NEW p \in OfferIds, row[p].takerDue = "unset" PROVE row'[p].takerDue = "unset"
    BY <1>9, <2>2 DEF Record, AutoConfirm, TradeTypeOK, Row
  <2> QED BY <2>1, <2>2, FlowsKept
<1>10. ASSUME \/ \E f \in web : FlowLost(f)
              \/ \E job \in Jobs : \/ Select(job)
                                   \/ \E o \in OfferIds : Broadcast(job, o) \/ DeleteChat(job, o)
              \/ ApiStops
              \/ ChainNext
       PROVE  FlowFacts'
  <2>1. web' \subseteq web /\ row' = row
    BY <1>10 DEF FlowLost, Select, Broadcast, DeleteChat, ApiStops, ChainNext, Mine, TxDropped
  <2> QED BY <2>1, FlowsKept
<1> QED BY <1>1, <1>2, <1>3, <1>4, <1>5, <1>6, <1>7, <1>8, <1>9, <1>10
       DEF Next, BrowserNext, WatcherNext

(* Browsers touch neither the watcher's rows nor the mempool. *)
LEMMA BrowserFrame == BrowserNext => UNCHANGED <<picked, mempool>>
<1>1. ASSUME NEW u \in Users, NEW o \in OfferIds,
             \/ \E amount \in Amounts : CreateMined(u, o, amount)
             \/ \E op \in Ops : \/ Click(op, u, o) \/ CallMined(op, u, o)
                               \/ CallFailed(op, u, o) \/ Decline(op, u, o)
      PROVE  UNCHANGED <<picked, mempool>>
  BY <1>1 DEF CreateMined, Click, CallMined, CallFailed, Decline
<1>2. ASSUME NEW u \in Users, NEW o \in OfferIds,
             \/ PostOffer(u, o) \/ PatchAccepted(u, o) \/ PatchAcceptedError(u, o)
             \/ PatchAcceptAgain(u, o) \/ PatchTakerConfirmed(u, o)
             \/ PatchMakerConfirmed(u, o) \/ PatchCancelled(u, o) \/ PostMessage(u, o)
      PROVE  UNCHANGED <<picked, mempool>>
  BY <1>2 DEF PostOffer, PatchAccepted, PatchAcceptedError, PatchAcceptAgain,
     PatchTakerConfirmed, PatchMakerConfirmed, PatchCancelled, PostMessage
<1> QED BY <1>1, <1>2 DEF BrowserNext

LEMMA TaskStep ==
  ASSUME TradeInv, Onward, Next
  PROVE  TaskFacts'
<1> USE DEF TradeInv
<1>1. \A t \in picked : t.id \in OfferIds
  BY DEF TradeTypeOK, Tasks
<1>2. ASSUME picked' \subseteq picked PROVE TaskFacts'
  BY <1>1, <1>2 DEF TaskFacts, Onward
<1>3. ASSUME NEW job \in Jobs, Select(job) PROVE TaskFacts'
  <2>1. PICK B \in SUBSET Wanted(job) :
          picked' = picked \cup {Task(job, o, "selected") : o \in B}
    BY <1>3 DEF Select, Batches
  <2>2. ASSUME NEW o \in Wanted(job)
        PROVE  /\ o \in OfferIds
               /\ job = "Job1" => Payable(o)
               /\ job = "Job2" => Lapsed(o)
               /\ job = "Job3" => "makerSilent" \in grounds[o]
    BY <2>2, P2PAssumption
    DEF Wanted, BothConfirmed, TakerTimedOut, MakerTimedOut, Finished, RowFacts,
        Payable, Lapsed
  <2>3. ASSUME NEW t \in picked'
        PROVE  /\ t.id \in OfferIds
               /\ t.job = "Job1" => Payable(t.id)
               /\ t.job = "Job2" => Lapsed(t.id)
               /\ t.job = "Job3" => "makerSilent" \in grounds[t.id]
    BY <1>1, <2>1, <2>2, <2>3 DEF TaskFacts, Task
  <2> QED BY <2>3 DEF TaskFacts, Onward
<1>4. ASSUME NEW job \in Jobs, NEW o \in OfferIds, Broadcast(job, o) PROVE TaskFacts'
  <2>1. (job = "Job1" /\ Payable(o)) \/ (job = "Job2" /\ Lapsed(o))
    <3>1. (job = "Job1" \/ job = "Job2") /\ Task(job, o, "selected") \in picked
      BY <1>4 DEF Broadcast
    <3>2. Task(job, o, "selected").job = job /\ Task(job, o, "selected").id = o
      BY DEF Task
    <3>3. /\ job = "Job1" => Payable(o)
          /\ job = "Job2" => Lapsed(o)
      <4> DEFINE t == Task(job, o, "selected")
      <4>1. /\ t.job = "Job1" => Payable(t.id)
            /\ t.job = "Job2" => Lapsed(t.id)
        BY <3>1, Zenon DEF TaskFacts
      <4> QED BY <4>1, <3>2, Zenon
    <3> QED BY <3>1, <3>3, Zenon
  <2>2. picked' \subseteq picked \cup {Task(job, o, "sent")}
    BY <1>4 DEF Broadcast
  <2> QED BY <1>1, <2>1, <2>2 DEF TaskFacts, Onward, Task
<1>5. ASSUME NEW job \in Jobs, NEW o \in OfferIds, Record(job, o) PROVE TaskFacts'
  <2>1. job = "Job1" => Payable(o)
    BY <1>5 DEF Record, TaskFacts, Task
  <2>2. \/ job = "Job1" /\ picked' \subseteq picked \cup {Task(job, o, "recorded")}
        \/ picked' \subseteq picked
    BY <1>5 DEF Record
  <2> QED BY <1>1, <1>2, <2>1, <2>2 DEF TaskFacts, Onward, Task
<1>6. ASSUME BrowserNext \/ \E f \in web : FlowLost(f) PROVE picked' \subseteq picked
  BY <1>6, BrowserFrame DEF FlowLost
<1>7. ASSUME \E o \in OfferIds : TimePasses(o) PROVE picked' \subseteq picked
  BY <1>7 DEF TimePasses, TakerWindowEnds, MakerWindowEnds, MakerStaysSilent
<1>8. ASSUME \/ \E job \in Jobs, o \in OfferIds : DeleteChat(job, o)
             \/ \E o \in OfferIds : AutoConfirm(o)
             \/ ApiStops
      PROVE  picked' \subseteq picked
  BY <1>8 DEF DeleteChat, AutoConfirm, ApiStops
<1>9. ASSUME ChainNext PROVE picked' \subseteq picked
  BY <1>9 DEF ChainNext, Mine, TxDropped
<1> QED BY <1>2, <1>3, <1>4, <1>5, <1>6, <1>7, <1>8, <1>9 DEF Next, WatcherNext

LEMMA TxStep ==
  ASSUME TradeInv, Onward, Next
  PROVE  TxFacts'
<1> USE DEF TradeInv
<1>1. \A t \in mempool : t.id \in OfferIds
  BY DEF TradeTypeOK, Txs
<1>2. ASSUME mempool' \subseteq mempool PROVE TxFacts'
  BY <1>1, <1>2 DEF TxFacts, Onward
<1>3. ASSUME NEW job \in Jobs, NEW o \in OfferIds, Broadcast(job, o) PROVE TxFacts'
  <2>1. (job = "Job1" /\ Payable(o)) \/ (job = "Job2" /\ Lapsed(o))
    <3>1. (job = "Job1" \/ job = "Job2") /\ Task(job, o, "selected") \in picked
      BY <1>3 DEF Broadcast
    <3>2. Task(job, o, "selected").job = job /\ Task(job, o, "selected").id = o
      BY DEF Task
    <3>3. /\ job = "Job1" => Payable(o)
          /\ job = "Job2" => Lapsed(o)
      <4> DEFINE t == Task(job, o, "selected")
      <4>1. /\ t.job = "Job1" => Payable(t.id)
            /\ t.job = "Job2" => Lapsed(t.id)
        BY <3>1, Zenon DEF TaskFacts
      <4> QED BY <4>1, <3>2, Zenon
    <3> QED BY <3>1, <3>3, Zenon
  <2>2. mempool' \subseteq mempool \cup {Tx(CallOf(job), o)}
    BY <1>3 DEF Broadcast
  <2> QED BY <1>1, <2>1, <2>2 DEF TxFacts, Onward, Tx, CallOf
<1>4. ASSUME BrowserNext \/ \E f \in web : FlowLost(f) PROVE mempool' \subseteq mempool
  BY <1>4, BrowserFrame DEF FlowLost
<1>5. ASSUME \E o \in OfferIds : TimePasses(o) PROVE mempool' \subseteq mempool
  BY <1>5 DEF TimePasses, TakerWindowEnds, MakerWindowEnds, MakerStaysSilent
<1>6. ASSUME \/ \E job \in Jobs : \/ Select(job)
                                  \/ \E o \in OfferIds : Record(job, o) \/ DeleteChat(job, o)
             \/ \E o \in OfferIds : AutoConfirm(o)
             \/ ApiStops
      PROVE  mempool' \subseteq mempool
  BY <1>6 DEF Select, Record, DeleteChat, AutoConfirm, ApiStops
<1>7. ASSUME ChainNext PROVE mempool' \subseteq mempool
  BY <1>7 DEF ChainNext, Mine, TxDropped
<1> QED BY <1>2, <1>3, <1>4, <1>5, <1>6, <1>7 DEF Next, WatcherNext

LEMMA StepInv == TradeInv /\ [Next]_vars => TradeInv'
<1>1. ASSUME TradeInv, Next PROVE TradeInv'
  <2>1. UNCHANGED vaultVars \/ VaultNext
    BY <1>1, CallsOfStep, PipelineIsVaultStep
  <2>2. VaultTypeOK'
    BY <1>1, <2>1, StepType DEF TradeInv
  <2>3. TradeTypeOK'
    BY <1>1, TypeStep DEF TradeInv
  <2>4. ChainFacts' /\ ChainGrows
    BY <1>1, ChainStepOfNext
  <2>5. Onward
    BY <1>1, <2>4, OnwardStep
  <2>6. RowFacts'
    BY <1>1, <2>4, RowStep
  <2>7. FlowFacts' /\ TaskFacts' /\ TxFacts'
    BY <1>1, <2>5, FlowStep, TaskStep, TxStep
  <2> QED BY <2>2, <2>3, <2>4, <2>6, <2>7 DEF TradeInv
<1>2. ASSUME TradeInv, UNCHANGED vars PROVE TradeInv'
  BY <1>2 DEF vars, vaultVars, tradeVars, TradeInv, VaultTypeOK, TradeTypeOK, ChainFacts, RowFacts,
     FlowFacts, TaskFacts, TxFacts, Payable, Lapsed
<1> QED BY <1>1, <1>2

LEMMA InvHolds == Spec => []TradeInv
BY InitInv, StepInv, PTL DEF Spec

(* Only the court hears and decides: of the pipeline's own grounds none is *)
(* an admin's and none a dispute's.                                        *)
Disputed(o) == "disputed" \in grounds[o]
Undecided == \A o \in OfferIds : ~Decided(o) /\ ~Disputed(o)

(* The court's grounds stay as they are. *)
CourtRests ==
  \A o \in OfferIds : \A g \in {"forced", "verdict", "disputed", "payInHand", "refundInHand"} :
    g \in grounds'[o] <=> g \in grounds[o]

LEMMA GroundsMove ==
  ASSUME TradeTypeOK, Next
  PROVE  CourtRests /\ \A o \in OfferIds : grounds[o] \subseteq grounds'[o]
<1> USE DEF TradeTypeOK, CourtRests
<1> DEFINE Moved == CourtRests /\ \A o \in OfferIds : grounds[o] \subseteq grounds'[o]
<1>1. ASSUME NEW u \in Users, NEW o \in OfferIds, PatchTakerConfirmed(u, o) PROVE Moved
  BY <1>1 DEF PatchTakerConfirmed
<1>2. ASSUME NEW o \in OfferIds, TimePasses(o) PROVE Moved
  BY <1>2 DEF TimePasses, TakerWindowEnds, MakerWindowEnds, MakerStaysSilent, Witnessed
<1>3. ASSUME NEW u \in Users, NEW o \in OfferIds,
             \/ \E amount \in Amounts : CreateMined(u, o, amount)
             \/ \E op \in Ops : \/ Click(op, u, o) \/ CallMined(op, u, o)
                               \/ CallFailed(op, u, o) \/ Decline(op, u, o)
             \/ PostOffer(u, o)
             \/ PatchAccepted(u, o) \/ PatchAcceptedError(u, o) \/ PatchAcceptAgain(u, o)
             \/ PatchMakerConfirmed(u, o) \/ PatchCancelled(u, o) \/ PostMessage(u, o)
      PROVE  UNCHANGED grounds
  BY <1>3 DEF CreateMined, Click, CallMined, CallFailed, Decline, PostOffer, PatchAccepted,
     PatchAcceptedError, PatchAcceptAgain, PatchMakerConfirmed, PatchCancelled, PostMessage
<1>4. ASSUME (\E f \in web : FlowLost(f)) \/ WatcherNext \/ ChainNext
      PROVE  UNCHANGED grounds
  BY <1>4 DEF FlowLost, WatcherNext, Select, Broadcast, Record, DeleteChat, AutoConfirm,
     ApiStops, ChainNext, Mine, TxDropped
<1>5. UNCHANGED grounds => Moved
  OBVIOUS
<1> QED BY <1>1, <1>2, <1>3, <1>4, <1>5 DEF Next, BrowserNext

LEMMA UndecidedHolds == Spec => []Undecided
<1>1. Init => Undecided
  BY DEF Init, TradeInit, Undecided, Disputed
<1>2. ASSUME TradeInv, Undecided, Next PROVE Undecided'
  BY <1>2, GroundsMove DEF TradeInv, Undecided, Disputed, CourtRests
<1>3. ASSUME Undecided, UNCHANGED vars PROVE Undecided'
  BY <1>3 DEF Undecided, Disputed, vars, tradeVars
<1>4. TradeInv /\ Undecided /\ [Next]_vars => Undecided'
  BY <1>2, <1>3
<1> QED BY <1>1, <1>4, InvHolds, PTL DEF Spec

(* Every state of the pipeline is well formed, for any bounds. *)
THEOREM TradeTypeCorrect == Spec => []TradeTypeOK
<1>1. TradeInv => TradeTypeOK
  BY DEF TradeInv
<1> QED BY <1>1, InvHolds, PTL

(* The row never names a taker the contract would not pay, and never shows *)
(* a confirmation that was neither given on chain nor earned by silence.   *)
THEOREM RecordsAlwaysBacked == Spec => []RecordsAreBacked
<1>1. TradeInv /\ Undecided => RecordsAreBacked
  BY DEF TradeInv, RowFacts, RecordsAreBacked, Undecided
<1> QED BY <1>1, InvHolds, UndecidedHolds, PTL

(* The pipeline drives the contract only through its functions, so what    *)
(* VaultProofs shows of the contract holds here: no release or refund of a *)
(* trade fails for lack of USDC.                                           *)
THEOREM PipelineDrivesContract == Spec => VaultSpec
<1>1. Init => VaultInit
  BY DEF Init
<1>2. TradeInv /\ [Next]_vars => [VaultNext]_vaultVars
  <2>1. ASSUME TradeInv, Next PROVE [VaultNext]_vaultVars
    BY <2>1, CallsOfStep, PipelineIsVaultStep
  <2>2. ASSUME UNCHANGED vars PROVE UNCHANGED vaultVars
    BY <2>2 DEF vars
  <2> QED BY <2>1, <2>2
<1> QED BY <1>1, <1>2, InvHolds, PTL DEF Spec, VaultSpec

THEOREM TradeEscrowCovered == Spec => []EscrowCovered
BY PipelineDrivesContract, EscrowAlwaysCovered, PTL

-----------------------------------------------------------------------------
(* The pipeline implements TradePromise. *)

PromiseStep == [Promise!Next]_(Promise!promiseVars)

(* A step that leaves the contract and the history alone stutters. *)
LEMMA PromiseStutters ==
  ASSUME UNCHANGED <<offers, grounds>>
  PROVE  PromiseStep
<1>1. \A o \in OfferIds : Stage(o)' = Stage(o) /\ Known(o)' = Known(o)
  BY DEF Stage, Known
<1> QED BY <1>1 DEF PromiseStep, Promise!promiseVars

(* A step that only adds a ground is Learn. *)
LEMMA PromiseLearns ==
  ASSUME TradeTypeOK, VaultTypeOK, NEW o \in OfferIds, NEW g \in Promise!Grounds,
         g \notin {"disputed"} \cup Promise!Hands,
         \A p \in OfferIds :
           /\ Stage(p)' = Stage(p)
           /\ offers'[p].maker = offers[p].maker
           /\ offers'[p].taker = offers[p].taker
           /\ Known(p)' = IF p = o THEN Known(o) \cup {g} ELSE Known(p)
  PROVE  PromiseStep
<1>1. Promise!Learn(o, g)
  BY DEF Promise!Learn
<1> QED BY <1>1 DEF PromiseStep, Promise!Next

(* The contract calls, one by one. *)
LEMMA CreateKeepsPromise ==
  ASSUME TradeInv, NEW u \in Users, NEW o \in OfferIds, NEW amount \in Amounts,
         offers[o] = ZeroOffer, createP2POffer(u, o, amount), UNCHANGED grounds
  PROVE  PromiseStep
<1>1. /\ offers'[o].maker = u /\ offers'[o].taker = NoAddress /\ offers'[o].status = "Open"
      /\ ~offers'[o].takerConfirmed /\ ~offers'[o].makerConfirmed
      /\ \A p \in OfferIds \ {o} : offers'[p] = offers[p]
  BY DEF createP2POffer, ZeroOffer, TradeInv, VaultTypeOK
<1>2. u # NoAddress
  BY VaultAssumption DEF Accounts
<1>3. /\ Stage(o) = "none" /\ Stage(o)' = "listed"
      /\ Known(o)' = Known(o)
      /\ offers'[o].taker = offers[o].taker
  BY <1>1, <1>2 DEF Stage, Known, ZeroOffer
<1>4. \A p \in OfferIds \ {o} : Stage(p)' = Stage(p) /\ Known(p)' = Known(p)
  BY <1>1 DEF Stage, Known
<1>5. Promise!Post(o, u)
  BY <1>1, <1>3, <1>4 DEF Promise!Post
<1> QED BY <1>5 DEF PromiseStep, Promise!Next

LEMMA CallKeepsPromise ==
  ASSUME TradeInv, NEW u \in Users, NEW o \in OfferIds, offers[o].maker # NoAddress,
         UNCHANGED grounds,
         \/ acceptP2POffer(u, o)
         \/ takerConfirm(u, o)
         \/ makerConfirm(u, o)
         \/ makerCancelOffer(u, o)
         \/ releaseP2POffer(o) /\ Promise!EnoughToPay(Known(o))
         \/ cancelP2POffer(o) /\ Promise!EnoughToRefund(Known(o))
  PROVE  PromiseStep
<1> USE DEF TradeInv
<1>1. \A p \in OfferIds \ {o} : offers'[p] = offers[p]
  BY DEF acceptP2POffer, takerConfirm, makerConfirm, makerCancelOffer, releaseP2POffer,
     cancelP2POffer, Refund, VaultTypeOK
<1>2. \A p \in OfferIds \ {o} : Stage(p)' = Stage(p) /\ Known(p)' = Known(p)
  BY <1>1 DEF Stage, Known
<1>3. CASE acceptP2POffer(u, o)
  <2>1. offers'[o] = [offers[o] EXCEPT !.taker = u, !.status = "Accepted"]
    BY <1>3 DEF acceptP2POffer, VaultTypeOK
  <2>2. /\ offers'[o].maker = offers[o].maker /\ offers'[o].taker = u
        /\ offers'[o].status = "Accepted" /\ offers[o].status = "Open" /\ offers[o].maker # u
        /\ offers'[o].takerConfirmed = offers[o].takerConfirmed
        /\ offers'[o].makerConfirmed = offers[o].makerConfirmed
    BY <1>3, <2>1 DEF acceptP2POffer, VaultTypeOK, P2POffer
  <2>3. Stage(o) = "listed" /\ Stage(o)' = "taken" /\ Known(o)' = Known(o)
    BY <2>2 DEF Stage, Known
  <2>4. Promise!Take(o, u)
    BY <1>1, <1>2, <2>2, <2>3 DEF Promise!Take
  <2> QED BY <2>4 DEF PromiseStep, Promise!Next
<1>4. CASE takerConfirm(u, o)
  <2>1. /\ offers'[o].maker = offers[o].maker /\ offers'[o].taker = offers[o].taker
        /\ offers'[o].status = offers[o].status /\ offers'[o].takerConfirmed
        /\ offers'[o].makerConfirmed = offers[o].makerConfirmed
    BY <1>4 DEF takerConfirm, VaultTypeOK, P2POffer
  <2>2. Stage(o)' = Stage(o) /\ Known(o)' = Known(o) \cup {"takerConfirmed"}
    BY <2>1 DEF Stage, Known
  <2>3. "takerConfirmed" \in Promise!Grounds \ ({"disputed"} \cup Promise!Hands)
    BY DEF Promise!Grounds, Promise!Hands
  <2> QED BY <1>1, <1>2, <2>1, <2>2, <2>3, PromiseLearns
<1>5. CASE makerConfirm(u, o)
  <2>1. /\ offers'[o].maker = offers[o].maker /\ offers'[o].taker = offers[o].taker
        /\ offers'[o].status = offers[o].status /\ offers'[o].makerConfirmed
        /\ offers'[o].takerConfirmed = offers[o].takerConfirmed
    BY <1>5 DEF makerConfirm, VaultTypeOK, P2POffer
  <2>2. Stage(o)' = Stage(o) /\ Known(o)' = Known(o) \cup {"makerConfirmed"}
    BY <2>1 DEF Stage, Known
  <2>3. "makerConfirmed" \in Promise!Grounds \ ({"disputed"} \cup Promise!Hands)
    BY DEF Promise!Grounds, Promise!Hands
  <2> QED BY <1>1, <1>2, <2>1, <2>2, <2>3, PromiseLearns
<1>6. CASE /\ Refund(o)
           /\ \/ offers[o].status = "Open"
              \/ offers[o].status = "Accepted" /\ Promise!EnoughToRefund(Known(o))
  <2>1. /\ offers'[o].maker = offers[o].maker /\ offers'[o].taker = offers[o].taker
        /\ offers'[o].status = "Cancelled"
        /\ offers'[o].takerConfirmed = offers[o].takerConfirmed
        /\ offers'[o].makerConfirmed = offers[o].makerConfirmed
    BY <1>6 DEF Refund, VaultTypeOK, P2POffer
  <2>2. Stage(o)' = "refunded" /\ Known(o)' = Known(o)
    BY <2>1 DEF Stage, Known
  <2>3. CASE offers[o].status = "Open"
    <3>1. Stage(o) = "listed"
      BY <2>3 DEF Stage
    <3>2. Promise!RefundSeller(o)
      BY <1>1, <1>2, <2>1, <2>2, <3>1 DEF Promise!RefundSeller
    <3> QED BY <3>2 DEF PromiseStep, Promise!Next
  <2>4. CASE offers[o].status = "Accepted" /\ Promise!EnoughToRefund(Known(o))
    <3>1. Stage(o) = "taken"
      BY <2>4 DEF Stage
    <3>2. Promise!RefundSeller(o)
      BY <1>1, <1>2, <2>1, <2>2, <2>4, <3>1 DEF Promise!RefundSeller
    <3> QED BY <3>2 DEF PromiseStep, Promise!Next
  <2> QED BY <1>6, <2>3, <2>4
<1>7. CASE releaseP2POffer(o) /\ Promise!EnoughToPay(Known(o))
  <2>1. /\ offers'[o].maker = offers[o].maker /\ offers'[o].taker = offers[o].taker
        /\ offers'[o].status = "Released" /\ offers[o].status = "Accepted"
        /\ offers'[o].takerConfirmed = offers[o].takerConfirmed
        /\ offers'[o].makerConfirmed = offers[o].makerConfirmed
    BY <1>7 DEF releaseP2POffer, CanRelease, VaultTypeOK, P2POffer
  <2>2. Stage(o) = "taken" /\ Stage(o)' = "paidOut" /\ Known(o)' = Known(o)
    BY <2>1 DEF Stage, Known
  <2>3. Promise!PayBuyer(o)
    BY <1>1, <1>2, <1>7, <2>1, <2>2 DEF Promise!PayBuyer
  <2> QED BY <2>3 DEF PromiseStep, Promise!Next
<1>8. ASSUME cancelP2POffer(o)
      PROVE  Refund(o) /\ offers[o].status \in {"Open", "Accepted"}
  BY <1>8 DEF cancelP2POffer, CanCancel
<1>9. makerCancelOffer(u, o) => Refund(o) /\ offers[o].status = "Open"
  BY DEF makerCancelOffer
<1> QED BY <1>3, <1>4, <1>5, <1>6, <1>7, <1>8, <1>9

(* History grows by one ground at a time. *)
LEMMA GroundsKeepPromise ==
  ASSUME TradeInv, NEW o \in OfferIds, UNCHANGED offers,
         NEW g \in {"takerLate", "makerSilent", "paidInTime", "forced", "verdict"},
         grounds' = [grounds EXCEPT ![o] = @ \cup {g}]
  PROVE  PromiseStep
<1>1. g \in Promise!Grounds /\ g \notin {"disputed"} \cup Promise!Hands
  BY DEF Promise!Grounds, Promise!Hands
<1>2. \A p \in OfferIds : /\ Stage(p)' = Stage(p)
                         /\ Known(p)' = IF p = o THEN Known(o) \cup {g} ELSE Known(p)
  BY DEF Stage, Known, TradeInv, TradeTypeOK
<1> QED BY <1>1, <1>2, PromiseLearns DEF TradeInv

(* What the platform has broadcast is owed on the promise's grounds. *)
Owed ==
  \A o \in OfferIds :
    /\ Tx("release", o) \in mempool => Promise!EnoughToPay(Known(o))
    /\ Tx("cancel", o) \in mempool => Promise!EnoughToRefund(Known(o))

LEMMA StepKeepsPromise == TradeInv /\ Owed /\ [Next]_vars => PromiseStep
<1> SUFFICES ASSUME TradeInv, Owed, [Next]_vars PROVE PromiseStep
  OBVIOUS
<1> USE DEF TradeInv
<1>1. ASSUME NEW u \in Users, NEW o \in OfferIds, NEW amount \in Amounts,
             CreateMined(u, o, amount)
      PROVE  PromiseStep
  BY <1>1, CreateKeepsPromise DEF CreateMined
<1>2. ASSUME NEW u \in Users, NEW o \in OfferIds, NEW op \in Ops, CallMined(op, u, o)
      PROVE  PromiseStep
  <2>1. offers[o].maker # NoAddress
    BY <1>2 DEF CallMined, FlowFacts, Flow
  <2> QED BY <1>2, <2>1, CallKeepsPromise DEF CallMined, Call
<1>3. ASSUME NEW call \in {"release", "cancel"}, NEW o \in OfferIds, Mine(call, o)
      PROVE  PromiseStep
  <2>1. CASE UNCHANGED vaultVars
    BY <1>3, <2>1, PromiseStutters DEF Mine, vaultVars
  <2>2. CASE call = "release" /\ releaseP2POffer(o)
    <3>1. Promise!EnoughToPay(Known(o))
      BY <1>3, <2>2 DEF Mine, Owed
    <3>2. offers[o].maker \in Users /\ offers[o].maker # NoAddress
      BY <2>2 DEF releaseP2POffer, CanRelease, ChainFacts, VaultTypeOK, P2POffer
    <3> QED BY <1>3, <2>2, <3>1, <3>2, CallKeepsPromise DEF Mine
  <2>3. CASE call = "cancel" /\ cancelP2POffer(o)
    <3>1. Lapsed(o) /\ Promise!EnoughToRefund(Known(o))
      BY <1>3, <2>3 DEF Mine, TxFacts, Owed, Tx
    <3>2. offers[o].maker \in Users /\ offers[o].maker # NoAddress
      BY <3>1, LapsedExists DEF VaultTypeOK, P2POffer
    <3> QED BY <1>3, <2>3, <3>1, <3>2, CallKeepsPromise DEF Mine
  <2> QED BY <1>3, <2>1, <2>2, <2>3 DEF Mine
<1>4. ASSUME NEW call \in {"release", "cancel"}, NEW o \in OfferIds, TxDropped(call, o)
      PROVE  PromiseStep
  BY <1>4, PromiseStutters DEF TxDropped, vaultVars
<1>5. ASSUME NEW u \in Users, NEW o \in OfferIds, PatchTakerConfirmed(u, o)
      PROVE  PromiseStep
  <2>2. CASE row[o].takerDue = "running"
    BY <1>5, <2>2, GroundsKeepPromise DEF PatchTakerConfirmed, vaultVars
  <2>3. CASE row[o].takerDue # "running"
    BY <1>5, <2>3, PromiseStutters DEF PatchTakerConfirmed, vaultVars
  <2> QED BY <2>2, <2>3
<1>6. ASSUME NEW u \in Users, NEW o \in OfferIds,
              \/ \E op \in Ops : Click(op, u, o) \/ CallFailed(op, u, o) \/ Decline(op, u, o)
              \/ PostOffer(u, o)
              \/ PatchAccepted(u, o) \/ PatchAcceptedError(u, o) \/ PatchAcceptAgain(u, o)
              \/ PatchMakerConfirmed(u, o)
              \/ PatchCancelled(u, o)
              \/ PostMessage(u, o)
      PROVE  PromiseStep
  <2>1. UNCHANGED <<offers, grounds>>
    BY <1>6 DEF Click, CallFailed, Decline, PostOffer, PatchAccepted, PatchAcceptedError,
       PatchAcceptAgain, PatchMakerConfirmed, PatchCancelled, PostMessage, vaultVars
  <2> QED BY <2>1, PromiseStutters
<1>7. ASSUME NEW o \in OfferIds, TimePasses(o) PROVE PromiseStep
  <2>2. CASE TakerWindowEnds(o)
    BY <2>2, GroundsKeepPromise DEF TakerWindowEnds, Witnessed, vaultVars
  <2>3. CASE MakerStaysSilent(o)
    BY <2>3, GroundsKeepPromise DEF MakerStaysSilent, Witnessed, vaultVars
  <2>4. CASE MakerWindowEnds(o)
    BY <2>4, PromiseStutters DEF MakerWindowEnds, vaultVars
  <2> QED BY <1>7, <2>2, <2>3, <2>4 DEF TimePasses
<1>8. ASSUME NEW f \in web, FlowLost(f) PROVE PromiseStep
  BY <1>8, PromiseStutters DEF FlowLost, vaultVars
<1>9. ASSUME WatcherNext PROVE PromiseStep
  <2>1. UNCHANGED <<offers, grounds>>
    BY <1>9 DEF WatcherNext, Select, Broadcast, Record, DeleteChat, AutoConfirm, ApiStops, vaultVars
  <2> QED BY <2>1, PromiseStutters
<1>10. CASE UNCHANGED vars
  BY <1>10, PromiseStutters DEF vars, vaultVars, tradeVars
<1> QED BY <1>1, <1>2, <1>3, <1>4, <1>5, <1>6, <1>7, <1>8, <1>9, <1>10
       DEF Next, BrowserNext, ChainNext

(* Nothing is promised yet when nothing is listed. *)
LEMMA PromiseInit == Init => Promise!Init
<1> SUFFICES ASSUME Init PROVE Promise!Init
  OBVIOUS
<1>1. \A o \in OfferIds : /\ offers[o] = ZeroOffer
                         /\ grounds[o] = {}
  BY DEF Init, VaultInit, TradeInit
<1>2. \A o \in OfferIds : /\ Stage(o) = "none" /\ Known(o) = {}
                         /\ offers[o].maker = NoAddress /\ offers[o].taker = NoAddress
  BY <1>1 DEF Stage, Known, ZeroOffer
<1> QED BY <1>2 DEF Promise!Init

(* The pipeline keeps its promise to both parties, for any number of users *)
(* and offers, any jobs running, and any number of lost requests, restarts *)
(* and dropped transactions.                                               *)
THEOREM PipelineKeepsPromise == Spec => KeepsPromise
<1>1. ASSUME TradeInv, Undecided, NEW o \in OfferIds
      PROVE  /\ Tx("release", o) \in mempool => Promise!EnoughToPay(Known(o))
             /\ Tx("cancel", o) \in mempool => Promise!EnoughToRefund(Known(o))
  <2>1. "disputed" \notin Known(o)
    BY <1>1 DEF Undecided, Disputed, Known
  <2>2. /\ Tx("release", o) \in mempool => Payable(o)
        /\ Tx("cancel", o) \in mempool => Lapsed(o) /\ RowFacts
    BY <1>1 DEF TradeInv, TxFacts, Tx
  <2>3. Payable(o) => /\ "takerConfirmed" \in Known(o)
                      /\ "makerConfirmed" \in Known(o) \/ "makerSilent" \in Known(o)
    BY <1>1 DEF Undecided, Payable, Known
  <2>4. Lapsed(o) /\ RowFacts => "takerLate" \in Known(o) /\ "paidInTime" \notin Known(o)
    BY <1>1 DEF Undecided, Lapsed, RowFacts, Known
  <2> QED BY <2>1, <2>2, <2>3, <2>4
          DEF Promise!EnoughToPay, Promise!EnoughToRefund, Promise!ByClock
<1>2. TradeInv /\ Undecided => Owed
  BY <1>1 DEF Owed
<1> QED BY <1>2, PromiseInit, InvHolds, UndecidedHolds, StepKeepsPromise, PTL
        DEF Spec, KeepsPromise, Promise!Spec, PromiseStep

-----------------------------------------------------------------------------
(* The court. *)

(* Between its checks and its writes the world moves on under a request;   *)
(* what it rests on stays: the payment a dispute is about, the judge of an *)
(* assigned one, the verdict of a resolved one, the offer to be forced.    *)
CallFacts(c) ==
  /\ c.kind = "raise" => offers[c.on].takerConfirmed
  /\ c.kind = "accept" => disputes[c.on].status # "none"
  /\ c.kind = "accept" /\ c.step = "assigned" => judges[c.on] # {}
  /\ c.kind = "resolve" =>
       disputes[c.on].status # "none" /\ "verdict" \in grounds[disputes[c.on].offer]
  /\ c.kind = "force" => offers[c.on].maker # NoAddress
  /\ c.kind = "force" /\ c.step = "sent" => "forced" \in grounds[c.on]

CourtFacts ==
  /\ \A d \in DisputeIds : disputes[d].status # "none" =>
       /\ disputes[d].offer \in OfferIds
       /\ offers[disputes[d].offer].takerConfirmed
       /\ disputes[d].status \in {"in_review", "resolved"} => judges[d] # {}
  /\ \A c \in calls : CallFacts(c)

CourtInv == TradeInv /\ CourtTypeOK /\ CourtFacts

LEMMA CourtStarts == CourtInit => CourtInv
<1> SUFFICES ASSUME CourtInit PROVE CourtInv
  OBVIOUS
<1>1. TradeInv
  BY InitInv DEF CourtInit
<1>2. NoDispute \in Dispute
  BY DEF NoDispute, Dispute
<1>3. CourtTypeOK
  BY <1>2 DEF CourtInit, CourtTypeOK
<1>4. CourtFacts
  BY DEF CourtInit, CourtFacts, NoDispute
<1> QED BY <1>1, <1>3, <1>4 DEF CourtInv

(* A step of the court makes no contract call; it changes rows and the     *)
(* history only so that all that was decided or paid stays so.             *)
CourtOnward ==
  /\ UNCHANGED <<offers, web>>
  /\ \A o \in OfferIds :
       /\ grounds[o] \subseteq grounds'[o]
       /\ "paidInTime" \in grounds'[o] => "paidInTime" \in grounds[o]
       /\ row[o].status # "none" => row'[o].status # "none"
       /\ row'[o].takerDue = row[o].takerDue

LEMMA CourtOnwardStep ==
  ASSUME TradeTypeOK, CourtNext
  PROVE  CourtOnward /\ UNCHANGED <<vaultVars, picked>>
<1> USE DEF TradeTypeOK
<1>1. ASSUME NEW u \in Users, NEW o \in OfferIds,
             Raise(u, o) \/ (\E d \in DisputeIds : InsertDispute(u, o, d))
      PROVE  UNCHANGED vars
  BY <1>1 DEF Raise, InsertDispute, vars
<1>2. ASSUME NEW a \in Admins, NEW d \in DisputeIds,
             Accept(a, d) \/ Assign(a, d) \/ BeginReview(a, d) \/ Escalate(a, d)
      PROVE  UNCHANGED vars
  BY <1>2 DEF Accept, Assign, BeginReview, Escalate, vars
<1>3. UNCHANGED vars => CourtOnward /\ UNCHANGED <<vaultVars, picked>>
  BY DEF vars, vaultVars, tradeVars, CourtOnward
<1>4. ASSUME NEW u \in Users, NEW o \in OfferIds, MarkDisputed(u, o)
      PROVE  CourtOnward /\ UNCHANGED <<vaultVars, picked>>
  <2>1. "paidInTime" \notin InHand(o)
    BY DEF InHand
  <2>2. row'[o].status = row[o].status /\ row'[o].takerDue = row[o].takerDue
    BY <1>4 DEF MarkDisputed, Row
  <2>3. \A p \in OfferIds \ {o} : row'[p] = row[p] /\ grounds'[p] = grounds[p]
    BY <1>4 DEF MarkDisputed
  <2>4. /\ grounds[o] \subseteq grounds'[o]
        /\ grounds'[o] \subseteq grounds[o] \cup {"disputed"} \cup InHand(o)
    BY <1>4 DEF MarkDisputed
  <2> QED BY <1>4, <2>1, <2>2, <2>3, <2>4 DEF MarkDisputed, CourtOnward, vaultVars
<1>5. ASSUME NEW a \in Admins, NEW d \in DisputeIds, NEW verdict \in Verdicts,
             Resolve(a, d, verdict)
      PROVE  CourtOnward /\ UNCHANGED <<vaultVars, picked>>
  BY <1>5 DEF Resolve, Witnessed, CourtOnward, vaultVars
<1>6. ASSUME NEW d \in DisputeIds, NEW verdict \in Verdicts, ApplyVerdict(d, verdict)
      PROVE  CourtOnward /\ UNCHANGED <<vaultVars, picked>>
  <2>1. CASE verdict = "release_to_taker"
    BY <1>6, <2>1 DEF ApplyVerdict, CourtOnward, vaultVars, Row
  <2>2. CASE verdict # "release_to_taker"
    BY <1>6, <2>2 DEF ApplyVerdict, CourtOnward, vaultVars, Row
  <2> QED BY <2>1, <2>2
<1>7. ASSUME NEW call \in {"release", "cancel"}, NEW o \in OfferIds,
             ForceSettlement(call, o)
      PROVE  UNCHANGED vars
  BY <1>7 DEF ForceSettlement, vars
<1>8. ASSUME NEW call \in {"release", "cancel"}, NEW o \in OfferIds, ForceBroadcast(call, o)
      PROVE  CourtOnward /\ UNCHANGED <<vaultVars, picked>>
  BY <1>8 DEF ForceBroadcast, Witnessed, CourtOnward, vaultVars
<1>9. ASSUME NEW call \in {"release", "cancel"}, NEW o \in OfferIds, ForceRecord(call, o)
      PROVE  CourtOnward /\ UNCHANGED <<vaultVars, picked>>
  BY <1>9 DEF ForceRecord, CourtOnward, vaultVars, Row
<1>10. ASSUME NEW call \in calls, CallLost(call)
       PROVE  CourtOnward /\ UNCHANGED <<vaultVars, picked>>
  BY <1>10 DEF CallLost, CourtOnward, vaultVars
<1> QED BY <1>1, <1>2, <1>3, <1>4, <1>5, <1>6, <1>7, <1>8, <1>9, <1>10 DEF CourtNext

(* So what the pipeline has in hand stays justified. *)
LEMMA CourtKeepsHands ==
  ASSUME TradeInv, CourtOnward
  PROVE  /\ Onward
         /\ ChainFacts'
         /\ FlowFacts'
         /\ picked' = picked => TaskFacts'
<1> USE DEF TradeInv
<1>1. Onward
  BY DEF CourtOnward, Onward, ChainGrows, Payable, Lapsed
<1>2. ChainFacts'
  BY DEF CourtOnward, ChainFacts
<1>3. FlowFacts'
  BY <1>1, FlowsKept DEF CourtOnward
<1>4. ASSUME picked' = picked PROVE TaskFacts'
  BY <1>1, <1>4 DEF TaskFacts, Onward, TradeTypeOK, Tasks
<1> QED BY <1>1, <1>2, <1>3, <1>4

(* Types of what the court writes. *)
LEMMA CourtTypeStep ==
  ASSUME CourtInv, CourtNext
  PROVE  TradeTypeOK' /\ CourtTypeOK'
<1> USE DEF CourtInv, TradeInv, TradeTypeOK, CourtTypeOK
<1>1. ASSUME NEW r \in Row
      PROVE  /\ [r EXCEPT !.disputeRaised = TRUE] \in Row
             /\ [r EXCEPT !.makerConfirmed = TRUE] \in Row
             /\ [r EXCEPT !.status = "released"] \in Row
             /\ [r EXCEPT !.status = "cancelled"] \in Row
             /\ \A o \in OfferIds : [row EXCEPT ![o] = r] \in [OfferIds -> Row]
  BY DEF Row
<1>2. ASSUME NEW x \in Dispute
      PROVE  /\ [x EXCEPT !.status = "in_review"] \in Dispute
             /\ [x EXCEPT !.status = "resolved"] \in Dispute
             /\ \A o \in OfferIds : [offer |-> o, status |-> "open"] \in Dispute
  BY DEF Dispute
<1>3. ASSUME NEW u \in Users, NEW o \in OfferIds, Raise(u, o)
      PROVE  TradeTypeOK' /\ CourtTypeOK'
  <2>1. RaiseCall(u, o, "checked") \in Calls  BY DEF RaiseCall, Calls
  <2> QED  BY <1>3, <2>1 DEF Raise, Begins, vars, vaultVars, tradeVars
<1>4. ASSUME NEW u \in Users, NEW o \in OfferIds, NEW d \in DisputeIds, InsertDispute(u, o, d)
      PROVE  TradeTypeOK' /\ CourtTypeOK'
  <2>1. RaiseCall(u, o, "inserted") \in Calls  BY DEF RaiseCall, Calls
  <2> QED  BY <1>2, <1>4, <2>1 DEF InsertDispute, Moves, vars, tradeVars
<1>5. ASSUME NEW u \in Users, NEW o \in OfferIds, MarkDisputed(u, o)
      PROVE  TradeTypeOK' /\ CourtTypeOK'
  <2>1. {"disputed"} \cup InHand(o) \subseteq Events
    BY DEF InHand, Events
  <2>2. grounds' \in [OfferIds -> SUBSET Events]
    BY <1>5, <2>1 DEF MarkDisputed
  <2> QED BY <1>1, <1>5, <2>2 DEF MarkDisputed, Ends
<1>6. ASSUME NEW a \in Admins, NEW d \in DisputeIds, Accept(a, d)
      PROVE  TradeTypeOK' /\ CourtTypeOK'
  <2>1. AcceptCall(a, d, "checked") \in Calls  BY DEF AcceptCall, Calls
  <2> QED  BY <1>6, <2>1 DEF Accept, Begins, vars, tradeVars
<1>7. ASSUME NEW a \in Admins, NEW d \in DisputeIds, Assign(a, d)
      PROVE  TradeTypeOK' /\ CourtTypeOK'
  <2>1. AcceptCall(a, d, "assigned") \in Calls  BY DEF AcceptCall, Calls
  <2> QED  BY <1>7, <2>1 DEF Assign, Moves, vars, tradeVars
<1>8. ASSUME NEW a \in Admins, NEW d \in DisputeIds, BeginReview(a, d) \/ Escalate(a, d)
      PROVE  TradeTypeOK' /\ CourtTypeOK'
  <2>1. TradeTypeOK' /\ judges' \in [DisputeIds -> SUBSET Admins] /\ calls' \subseteq Calls
    BY <1>8 DEF BeginReview, Escalate, Ends, vars, tradeVars
  <2>2. disputes' \in [DisputeIds -> Dispute]
    <3>1. \/ disputes' = [disputes EXCEPT ![d] = [@ EXCEPT !.status = "in_review"]]
          \/ disputes' = [disputes EXCEPT ![d] = [@ EXCEPT !.status = "resolved"]]
      BY <1>8 DEF BeginReview, Escalate
    <3>2. disputes[d] \in Dispute
      OBVIOUS
    <3>3. /\ [disputes[d] EXCEPT !.status = "in_review"] \in Dispute
          /\ [disputes[d] EXCEPT !.status = "resolved"] \in Dispute
      BY <1>2, <3>2
    <3> QED BY <3>1, <3>3
  <2> QED BY <2>1, <2>2
<1>9. ASSUME NEW a \in Admins, NEW d \in DisputeIds, NEW verdict \in Verdicts,
             Resolve(a, d, verdict)
      PROVE  TradeTypeOK' /\ CourtTypeOK'
  <2>1. VerdictCall(verdict, d) \in Calls  BY DEF VerdictCall, Calls
  <2>2. "verdict" \in Events  BY DEF Events
  <2>3. disputes[d].offer \in OfferIds  BY <1>9 DEF Resolve, CourtFacts
  <2>4. disputes' \in [DisputeIds -> Dispute]
    <3>1. disputes' = [disputes EXCEPT ![d] = [@ EXCEPT !.status = "resolved"]]
      BY <1>9 DEF Resolve
    <3> QED  BY <1>2, <2>3, <3>1
  <2> QED  BY <1>9, <2>1, <2>2, <2>3, <2>4 DEF Resolve, Witnessed, Begins
<1>10. ASSUME NEW d \in DisputeIds, NEW verdict \in Verdicts, ApplyVerdict(d, verdict)
       PROVE  TradeTypeOK' /\ CourtTypeOK'
  <2>1. row' \in [OfferIds -> Row]
    <3>1. PICK o \in OfferIds : o = disputes[d].offer
      BY <1>10 DEF ApplyVerdict, CourtFacts, CallFacts, VerdictCall
    <3>2. row[o] \in Row
      OBVIOUS
    <3>3. CASE verdict = "release_to_taker"
      BY <1>1, <1>10, <3>1, <3>2, <3>3 DEF ApplyVerdict
    <3>4. CASE verdict # "release_to_taker"
      BY <1>1, <1>10, <3>1, <3>2, <3>4 DEF ApplyVerdict
    <3> QED  BY <3>3, <3>4
  <2> QED  BY <1>10, <2>1 DEF ApplyVerdict, Ends
<1>11. ASSUME NEW call \in {"release", "cancel"}, NEW o \in OfferIds, ForceSettlement(call, o)
       PROVE  TradeTypeOK' /\ CourtTypeOK'
  <2>1. ForceCall(call, o, "checked") \in Calls  BY DEF ForceCall, Calls
  <2> QED  BY <1>11, <2>1 DEF ForceSettlement, Begins, vars, tradeVars
<1>12. ASSUME NEW call \in {"release", "cancel"}, NEW o \in OfferIds, ForceBroadcast(call, o)
       PROVE  TradeTypeOK' /\ CourtTypeOK'
  <2>1. ForceCall(call, o, "sent") \in Calls  BY DEF ForceCall, Calls
  <2>2. "forced" \in Events /\ Tx(call, o) \in Txs  BY DEF Events, Tx, Txs
  <2> QED  BY <1>12, <2>1, <2>2 DEF ForceBroadcast, Witnessed, Moves, Ends
<1>13. ASSUME NEW call \in {"release", "cancel"}, NEW o \in OfferIds, ForceRecord(call, o)
       PROVE  TradeTypeOK' /\ CourtTypeOK'
  <2>1. row' \in [OfferIds -> Row]
    <3>1. row[o] \in Row
      OBVIOUS
    <3>2. CASE call = "release"
      BY <1>1, <1>13, <3>1, <3>2 DEF ForceRecord
    <3>3. CASE call = "cancel"
      BY <1>1, <1>13, <3>1, <3>3 DEF ForceRecord
    <3> QED  BY <3>2, <3>3
  <2> QED  BY <1>13, <2>1 DEF ForceRecord, Ends
<1>14. ASSUME NEW call \in calls, CallLost(call)
       PROVE  TradeTypeOK' /\ CourtTypeOK'
  BY <1>14, P2PAssumption DEF CallLost, Ends
<1> QED BY <1>3, <1>4, <1>5, <1>6, <1>7, <1>8, <1>9, <1>10, <1>11, <1>12, <1>13, <1>14
        DEF CourtNext

(* Nothing a request or a dispute rests on is taken back. *)
CourtGrows ==
  /\ \A o \in OfferIds :
       /\ offers[o].takerConfirmed => offers'[o].takerConfirmed
       /\ offers[o].maker # NoAddress => offers'[o].maker # NoAddress
       /\ grounds[o] \subseteq grounds'[o]
  /\ \A d \in DisputeIds :
       /\ disputes[d].status # "none" =>
            disputes'[d].status # "none" /\ disputes'[d].offer = disputes[d].offer
       /\ judges[d] \subseteq judges'[d]

LEMMA CallFactsStay ==
  ASSUME CourtTypeOK, CourtFacts, CourtGrows, NEW c \in calls
  PROVE  CallFacts(c)'
<1>1. CallFacts(c)
  BY DEF CourtFacts
<1>2. /\ c.kind \in {"raise", "force"} => c.on \in OfferIds
      /\ c.kind \in {"accept", "resolve"} => c.on \in DisputeIds
  BY DEF CourtTypeOK, Calls
<1>3. c.kind = "resolve" => disputes[c.on].offer \in OfferIds
  BY <1>1, <1>2 DEF CallFacts, CourtFacts
<1> QED BY <1>1, <1>2, <1>3 DEF CallFacts, CourtGrows

(* A step that adds at most one request, and no dispute or stage of one. *)
LEMMA CourtFactsStay ==
  ASSUME CourtTypeOK, CourtFacts, CourtGrows,
         \A d \in DisputeIds : disputes'[d].status = disputes[d].status,
         \A c \in calls' \ calls : CallFacts(c)'
  PROVE  CourtFacts'
<1>1. \A c \in calls' : CallFacts(c)'
  BY CallFactsStay
<1>2. ASSUME NEW d \in DisputeIds, disputes'[d].status # "none"
      PROVE  /\ disputes'[d].offer \in OfferIds
             /\ offers'[disputes'[d].offer].takerConfirmed
             /\ disputes'[d].status \in {"in_review", "resolved"} => judges'[d] # {}
  BY <1>2 DEF CourtFacts, CourtGrows
<1> QED BY <1>1, <1>2 DEF CourtFacts

LEMMA CourtGrowsStep ==
  ASSUME CourtInv, CourtNext
  PROVE  CourtGrows
<1>1. CourtOnward
  BY CourtOnwardStep DEF CourtInv, TradeInv
<1>2. ASSUME NEW d \in DisputeIds, judges' = judges,
             \/ disputes' = disputes
             \/ \E o \in OfferIds :
                  disputes[d] = NoDispute
                  /\ disputes' = [disputes EXCEPT ![d] = [offer |-> o, status |-> "open"]]
             \/ disputes' = [disputes EXCEPT ![d].status = "in_review"]
             \/ disputes' = [disputes EXCEPT ![d].status = "resolved"]
      PROVE  CourtGrows
  BY <1>1, <1>2 DEF CourtOnward, CourtGrows, CourtInv, CourtTypeOK, Dispute, NoDispute
<1>3. ASSUME disputes' = disputes, \A d \in DisputeIds : judges[d] \subseteq judges'[d]
      PROVE  CourtGrows
  BY <1>1, <1>3 DEF CourtOnward, CourtGrows
<1>4. ASSUME NEW u \in Users, NEW o \in OfferIds, NEW d \in DisputeIds, InsertDispute(u, o, d)
      PROVE  CourtGrows
  BY <1>2, <1>4 DEF InsertDispute
<1>5. ASSUME NEW a \in Admins, NEW d \in DisputeIds,
             \/ BeginReview(a, d) \/ Escalate(a, d)
             \/ \E verdict \in Verdicts : Resolve(a, d, verdict)
      PROVE  CourtGrows
  BY <1>2, <1>5 DEF BeginReview, Escalate, Resolve
<1>6. ASSUME NEW a \in Admins, NEW d \in DisputeIds, Accept(a, d) \/ Assign(a, d)
      PROVE  CourtGrows
  BY <1>3, <1>6 DEF Accept, Assign, CourtInv, CourtTypeOK
<1>7. ASSUME NEW u \in Users, NEW o \in OfferIds, Raise(u, o) \/ MarkDisputed(u, o)
      PROVE  CourtGrows
  BY <1>3, <1>7 DEF Raise, MarkDisputed
<1>8. ASSUME NEW d \in DisputeIds, NEW verdict \in Verdicts, ApplyVerdict(d, verdict)
      PROVE  CourtGrows
  BY <1>3, <1>8 DEF ApplyVerdict
<1>9. ASSUME NEW call \in {"release", "cancel"}, NEW o \in OfferIds,
             ForceSettlement(call, o) \/ ForceBroadcast(call, o) \/ ForceRecord(call, o)
      PROVE  CourtGrows
  BY <1>3, <1>9 DEF ForceSettlement, ForceBroadcast, ForceRecord
<1>10. ASSUME NEW call \in calls, CallLost(call) PROVE CourtGrows
  BY <1>3, <1>10 DEF CallLost
<1> QED BY <1>4, <1>5, <1>6, <1>7, <1>8, <1>9, <1>10 DEF CourtNext

LEMMA CourtFactsStep ==
  ASSUME CourtInv, CourtNext
  PROVE  CourtFacts'
<1> USE DEF CourtInv, TradeInv
<1>1. CourtGrows
  BY CourtGrowsStep
<1>2. ASSUME disputes' = disputes, \A c \in calls' \ calls : CallFacts(c)' PROVE CourtFacts'
  BY <1>1, <1>2, CourtFactsStay
<1>3. ASSUME NEW u \in Users, NEW o \in OfferIds, Raise(u, o) PROVE CourtFacts'
  <2>1. offers'[o].takerConfirmed
    BY <1>1, <1>3 DEF Raise, RowFacts, CourtGrows
  <2>2. CallFacts(RaiseCall(u, o, "checked"))'
    BY <2>1 DEF CallFacts, RaiseCall
  <2> QED BY <1>2, <1>3, <2>2 DEF Raise, Begins
<1>4. ASSUME NEW u \in Users, NEW o \in OfferIds, NEW d \in DisputeIds, InsertDispute(u, o, d)
      PROVE  CourtFacts'
  <2>1. offers'[o].takerConfirmed
    BY <1>1, <1>4 DEF InsertDispute, CourtFacts, CallFacts, RaiseCall, CourtGrows
  <2>2. CallFacts(RaiseCall(u, o, "inserted"))'
    BY <2>1 DEF CallFacts, RaiseCall
  <2>3. \A c \in calls' : CallFacts(c)'
    BY <1>1, <1>4, <2>2, CallFactsStay DEF InsertDispute, Moves
  <2>4. /\ disputes'[d] = [offer |-> o, status |-> "open"]
        /\ \A e \in DisputeIds \ {d} : disputes'[e] = disputes[e]
    BY <1>4 DEF InsertDispute, CourtTypeOK
  <2> QED BY <1>1, <2>1, <2>3, <2>4 DEF CourtFacts, CourtGrows
<1>5. ASSUME NEW u \in Users, NEW o \in OfferIds, MarkDisputed(u, o) PROVE CourtFacts'
  BY <1>2, <1>5 DEF MarkDisputed, Ends
<1>6. ASSUME NEW a \in Admins, NEW d \in DisputeIds, Accept(a, d) PROVE CourtFacts'
  <2>1. CallFacts(AcceptCall(a, d, "checked"))'
    BY <1>6 DEF Accept, CallFacts, AcceptCall
  <2> QED BY <1>2, <1>6, <2>1 DEF Accept, Begins
<1>7. ASSUME NEW a \in Admins, NEW d \in DisputeIds, Assign(a, d) PROVE CourtFacts'
  <2>1. judges'[d] # {} /\ disputes[d].status # "none" /\ disputes' = disputes
    BY <1>7 DEF Assign, CourtTypeOK, CourtFacts, CallFacts, AcceptCall
  <2>2. CallFacts(AcceptCall(a, d, "assigned"))'
    BY <2>1 DEF CallFacts, AcceptCall
  <2> QED BY <1>2, <1>7, <2>1, <2>2 DEF Assign, Moves
<1>8. ASSUME NEW a \in Admins, NEW d \in DisputeIds, BeginReview(a, d) PROVE CourtFacts'
  <2>1. judges[d] # {} /\ disputes[d].status # "none" /\ judges' = judges
    BY <1>8 DEF BeginReview, CourtFacts, CallFacts, AcceptCall
  <2>2. \A c \in calls' : CallFacts(c)'
    BY <1>1, <1>8, CallFactsStay DEF BeginReview, Ends
  <2>3. \A e \in DisputeIds \ {d} : disputes'[e] = disputes[e]
    BY <1>8 DEF BeginReview, CourtTypeOK
  <2> QED BY <1>1, <2>1, <2>2, <2>3 DEF CourtFacts, CourtGrows
<1>9. ASSUME NEW a \in Admins, NEW d \in DisputeIds, NEW verdict \in Verdicts,
             Resolve(a, d, verdict)
      PROVE  CourtFacts'
  <2>1. judges[d] # {} /\ disputes[d].status # "none" /\ disputes[d].offer \in OfferIds
    BY <1>9 DEF Resolve, CourtFacts
  <2>2. disputes'[d].status # "none" /\ disputes'[d].offer = disputes[d].offer
    BY <1>1, <2>1 DEF CourtGrows
  <2>3. "verdict" \in grounds'[disputes[d].offer]
    BY <1>9, <2>1 DEF Resolve, Witnessed, TradeTypeOK
  <2>4. CallFacts(VerdictCall(verdict, d))'
    BY <2>2, <2>3 DEF CallFacts, VerdictCall
  <2>5. \A c \in calls' : CallFacts(c)'
    BY <1>1, <1>9, <2>4, CallFactsStay DEF Resolve, Begins
  <2>6. judges' = judges /\ \A e \in DisputeIds \ {d} : disputes'[e] = disputes[e]
    BY <1>9 DEF Resolve, CourtTypeOK
  <2> QED BY <1>1, <2>1, <2>2, <2>5, <2>6 DEF CourtFacts, CourtGrows
<1>10. ASSUME NEW d \in DisputeIds, NEW verdict \in Verdicts, ApplyVerdict(d, verdict)
       PROVE  CourtFacts'
  BY <1>2, <1>10 DEF ApplyVerdict, Ends
<1>15. ASSUME NEW a \in Admins, NEW d \in DisputeIds, Escalate(a, d) PROVE CourtFacts'
  <2>1. judges[d] # {} /\ disputes[d].status # "none" /\ judges' = judges /\ calls' = calls
    BY <1>15 DEF Escalate, CourtFacts
  <2>2. \A c \in calls' : CallFacts(c)'
    BY <1>1, <2>1, CallFactsStay
  <2>3. \A e \in DisputeIds \ {d} : disputes'[e] = disputes[e]
    BY <1>15 DEF Escalate, CourtTypeOK
  <2> QED BY <1>1, <2>1, <2>2, <2>3 DEF CourtFacts, CourtGrows
<1>11. ASSUME NEW call \in {"release", "cancel"}, NEW o \in OfferIds, ForceSettlement(call, o)
       PROVE  CourtFacts'
  <2>1. offers'[o].maker # NoAddress
    BY <1>1, <1>11 DEF ForceSettlement, RowFacts, CourtGrows
  <2>2. CallFacts(ForceCall(call, o, "checked"))'
    BY <2>1 DEF CallFacts, ForceCall
  <2> QED BY <1>2, <1>11, <2>2 DEF ForceSettlement, Begins
<1>12. ASSUME NEW call \in {"release", "cancel"}, NEW o \in OfferIds, ForceBroadcast(call, o)
       PROVE  CourtFacts'
  <2>1. CASE Estimate(call, o)
    <3>1. offers'[o].maker # NoAddress
      BY <1>1, <1>12 DEF ForceBroadcast, CourtFacts, CallFacts, ForceCall, CourtGrows
    <3>2. "forced" \in grounds'[o]
      BY <1>12, <2>1 DEF ForceBroadcast, Witnessed, TradeTypeOK
    <3>3. CallFacts(ForceCall(call, o, "sent"))'
      BY <3>1, <3>2 DEF CallFacts, ForceCall
    <3> QED BY <1>2, <1>12, <2>1, <3>3 DEF ForceBroadcast, Moves
  <2>2. CASE ~Estimate(call, o)
    BY <1>2, <1>12, <2>2 DEF ForceBroadcast, Ends
  <2> QED BY <2>1, <2>2
<1>13. ASSUME NEW call \in {"release", "cancel"}, NEW o \in OfferIds, ForceRecord(call, o)
       PROVE  CourtFacts'
  BY <1>2, <1>13 DEF ForceRecord, Ends
<1>14. ASSUME NEW call \in calls, CallLost(call) PROVE CourtFacts'
  BY <1>2, <1>14 DEF CallLost, Ends
<1> QED BY <1>3, <1>4, <1>5, <1>6, <1>7, <1>8, <1>9, <1>10, <1>11, <1>12, <1>13, <1>14, <1>15
        DEF CourtNext

(* What the court writes in a row, an admin decided. *)
LEMMA CourtRowStep ==
  ASSUME CourtInv, CourtNext
  PROVE  RowFacts'
<1> USE DEF CourtInv, TradeInv
<1>1. CourtOnward
  BY CourtOnwardStep
<1>2. ASSUME NEW o \in OfferIds,
             \A p \in OfferIds \ {o} : row'[p] = row[p] /\ grounds'[p] = grounds[p],
             offers[o].maker # NoAddress,
             row'[o].taker = row[o].taker,
             row'[o].takerConfirmed = row[o].takerConfirmed,
             row'[o].makerDue = row[o].makerDue,
             row'[o].makerConfirmed = row[o].makerConfirmed \/ Decided(o)',
             row'[o].status = row[o].status \/ row'[o].status \in {"released", "cancelled"}
      PROVE  RowFacts'
  <2>1. SUFFICES ASSUME NEW p \in OfferIds PROVE RowFacts!(p)'
    BY DEF RowFacts
  <2>2. CASE p = o
    BY <1>1, <1>2, <2>2 DEF RowFacts, CourtOnward
  <2>3. CASE p # o
    BY <1>1, <1>2, <2>3 DEF RowFacts, CourtOnward
  <2> QED BY <2>2, <2>3
<1>3. ASSUME UNCHANGED <<row, grounds>> PROVE RowFacts'
  BY <1>1, <1>3 DEF RowFacts, CourtOnward
<1>4. ASSUME NEW u \in Users, NEW o \in OfferIds,
             Raise(u, o) \/ (\E d \in DisputeIds : InsertDispute(u, o, d))
      PROVE  UNCHANGED <<row, grounds>>
  BY <1>4 DEF Raise, InsertDispute, vars, tradeVars
<1>5. ASSUME NEW a \in Admins, NEW d \in DisputeIds,
             Accept(a, d) \/ Assign(a, d) \/ BeginReview(a, d) \/ Escalate(a, d)
      PROVE  UNCHANGED <<row, grounds>>
  BY <1>5 DEF Accept, Assign, BeginReview, Escalate, vars, tradeVars
<1>6. ASSUME NEW u \in Users, NEW o \in OfferIds, MarkDisputed(u, o) PROVE RowFacts'
  <2>1. offers[o].maker # NoAddress
    BY <1>6 DEF MarkDisputed, CourtFacts, CallFacts, RaiseCall, ChainFacts
  <2>2. row' = [row EXCEPT ![o].disputeRaised = TRUE]
    BY <1>6 DEF MarkDisputed
  <2>3. \A p \in OfferIds \ {o} : row'[p] = row[p] /\ grounds'[p] = grounds[p]
    BY <1>6, <2>2 DEF MarkDisputed, TradeTypeOK
  <2> QED BY <1>2, <2>1, <2>2, <2>3 DEF TradeTypeOK, Row
<1>7. ASSUME NEW a \in Admins, NEW d \in DisputeIds, NEW verdict \in Verdicts,
             Resolve(a, d, verdict)
      PROVE  RowFacts'
  <2>1. PICK o \in OfferIds : o = disputes[d].offer /\ offers[o].takerConfirmed
    BY <1>7 DEF Resolve, CourtFacts
  <2>2. offers[o].maker # NoAddress
    BY <2>1 DEF ChainFacts
  <2>3. row' = row /\ \A p \in OfferIds \ {o} : grounds'[p] = grounds[p]
    BY <1>7, <2>1 DEF Resolve, Witnessed, TradeTypeOK
  <2> QED BY <1>2, <2>1, <2>2, <2>3
<1>8. ASSUME NEW d \in DisputeIds, NEW verdict \in Verdicts, ApplyVerdict(d, verdict)
      PROVE  RowFacts'
  <2>1. /\ disputes[d].status # "none"
        /\ "verdict" \in grounds[disputes[d].offer]
    BY <1>8 DEF ApplyVerdict, CourtFacts, CallFacts, VerdictCall
  <2>2. PICK o \in OfferIds : o = disputes[d].offer /\ offers[o].takerConfirmed
    BY <2>1 DEF CourtFacts
  <2>3. offers[o].maker # NoAddress
    BY <2>2 DEF ChainFacts
  <2>4. \/ row' = [row EXCEPT ![o].makerConfirmed = TRUE]
        \/ row' = [row EXCEPT ![o].status = "cancelled"]
    BY <1>8, <2>2 DEF ApplyVerdict
  <2>5. grounds' = grounds
    BY <1>8 DEF ApplyVerdict
  <2>6. CASE row' = [row EXCEPT ![o].makerConfirmed = TRUE]
    <3>1. /\ row'[o].makerConfirmed /\ Decided(o)'
          /\ row'[o].taker = row[o].taker /\ row'[o].takerConfirmed = row[o].takerConfirmed
          /\ row'[o].makerDue = row[o].makerDue /\ row'[o].status = row[o].status
          /\ \A p \in OfferIds \ {o} : row'[p] = row[p]
      BY <2>1, <2>2, <2>5, <2>6 DEF TradeTypeOK, Row
    <3> QED BY <1>2, <2>2, <2>3, <2>5, <3>1
  <2>7. CASE row' = [row EXCEPT ![o].status = "cancelled"]
    <3>1. /\ row'[o].makerConfirmed = row[o].makerConfirmed
          /\ row'[o].taker = row[o].taker /\ row'[o].takerConfirmed = row[o].takerConfirmed
          /\ row'[o].makerDue = row[o].makerDue /\ row'[o].status = "cancelled"
          /\ \A p \in OfferIds \ {o} : row'[p] = row[p]
      BY <2>2, <2>7 DEF TradeTypeOK, Row
    <3> QED BY <1>2, <2>2, <2>3, <2>5, <3>1
  <2> QED BY <2>4, <2>6, <2>7
<1>9. ASSUME NEW call \in {"release", "cancel"}, NEW o \in OfferIds, ForceSettlement(call, o)
      PROVE  UNCHANGED <<row, grounds>>
  BY <1>9 DEF ForceSettlement, vars, tradeVars
<1>10. ASSUME NEW call \in {"release", "cancel"}, NEW o \in OfferIds, ForceBroadcast(call, o)
       PROVE  RowFacts'
  <2>1. offers[o].maker # NoAddress
    BY <1>10 DEF ForceBroadcast, CourtFacts, CallFacts, ForceCall
  <2>2. row' = row /\ \A p \in OfferIds \ {o} : grounds'[p] = grounds[p]
    BY <1>10 DEF ForceBroadcast, Witnessed, TradeTypeOK
  <2> QED BY <1>2, <2>1, <2>2
<1>11. ASSUME NEW call \in {"release", "cancel"}, NEW o \in OfferIds, ForceRecord(call, o)
       PROVE  RowFacts'
  <2>1. offers[o].maker # NoAddress
    BY <1>11 DEF ForceRecord, CourtFacts, CallFacts, ForceCall
  <2>2. /\ row'[o].makerConfirmed = row[o].makerConfirmed
        /\ row'[o].taker = row[o].taker /\ row'[o].takerConfirmed = row[o].takerConfirmed
        /\ row'[o].makerDue = row[o].makerDue /\ row'[o].status \in {"released", "cancelled"}
        /\ \A p \in OfferIds \ {o} : row'[p] = row[p]
    BY <1>11 DEF ForceRecord, TradeTypeOK, Row
  <2>3. grounds' = grounds
    BY <1>11 DEF ForceRecord
  <2> QED BY <1>2, <2>1, <2>2, <2>3
<1>12. ASSUME NEW call \in calls, CallLost(call) PROVE UNCHANGED <<row, grounds>>
  BY <1>12 DEF CallLost
<1> QED BY <1>3, <1>4, <1>5, <1>6, <1>7, <1>8, <1>9, <1>10, <1>11, <1>12 DEF CourtNext

(* Of the court only a forced settlement broadcasts. *)
LEMMA CourtTxStep ==
  ASSUME CourtInv, CourtNext
  PROVE  TxFacts'
<1> USE DEF CourtInv, TradeInv
<1>1. Onward
  BY CourtOnwardStep, CourtKeepsHands
<1>2. \A t \in mempool : t.id \in OfferIds
  BY DEF TradeTypeOK, Txs
<1>3. ASSUME mempool' = mempool PROVE TxFacts'
  BY <1>1, <1>2, <1>3 DEF TxFacts, Onward
<1>4. ASSUME NEW call \in {"release", "cancel"}, NEW o \in OfferIds, ForceBroadcast(call, o)
      PROVE  TxFacts'
  <2>1. CASE Estimate(call, o)
    <3>1. "forced" \in grounds'[o] /\ mempool' = mempool \cup {Tx(call, o)}
      BY <1>4, <2>1 DEF ForceBroadcast, Witnessed, TradeTypeOK
    <3>2. Payable(o)' /\ Lapsed(o)'
      BY <3>1 DEF Payable, Lapsed
    <3> QED BY <1>1, <1>2, <3>1, <3>2 DEF TxFacts, Onward, Tx
  <2>2. CASE ~Estimate(call, o)
    BY <1>3, <1>4, <2>2 DEF ForceBroadcast
  <2> QED BY <2>1, <2>2
<1>5. ASSUME NEW u \in Users, NEW o \in OfferIds,
             Raise(u, o) \/ (\E d \in DisputeIds : InsertDispute(u, o, d)) \/ MarkDisputed(u, o)
      PROVE  mempool' = mempool
  BY <1>5 DEF Raise, InsertDispute, MarkDisputed, vars, tradeVars
<1>6. ASSUME NEW d \in DisputeIds,
             \/ \E a \in Admins :
                  \/ Accept(a, d) \/ Assign(a, d) \/ BeginReview(a, d) \/ Escalate(a, d)
                  \/ \E verdict \in Verdicts : Resolve(a, d, verdict)
             \/ \E verdict \in Verdicts : ApplyVerdict(d, verdict)
      PROVE  mempool' = mempool
  BY <1>6 DEF Accept, Assign, BeginReview, Escalate, Resolve, ApplyVerdict, vars, tradeVars
<1>7. ASSUME NEW call \in {"release", "cancel"}, NEW o \in OfferIds,
             ForceSettlement(call, o) \/ ForceRecord(call, o)
      PROVE  mempool' = mempool
  BY <1>7 DEF ForceSettlement, ForceRecord, vars, tradeVars
<1>8. ASSUME NEW call \in calls, CallLost(call) PROVE mempool' = mempool
  BY <1>8 DEF CallLost
<1> QED BY <1>3, <1>4, <1>5, <1>6, <1>7, <1>8 DEF CourtNext

(* A step of the pipeline under the court. *)
LEMMA TradeUnderCourt ==
  ASSUME CourtInv, TradeNext
  PROVE  CourtInv'
<1> USE DEF CourtInv
<1>1. TradeInv'
  BY StepInv DEF TradeNext
<1>2. CourtTypeOK'
  BY DEF TradeNext, courtVars, CourtTypeOK
<1>3. ChainGrows
  BY ChainStepOfNext DEF TradeNext
<1>4. \A o \in OfferIds : grounds[o] \subseteq grounds'[o]
  BY GroundsMove DEF TradeNext, TradeInv
<1>5. CourtGrows
  BY <1>3, <1>4 DEF CourtGrows, ChainGrows, TradeNext, courtVars
<1>6. CourtFacts'
  BY <1>5, CourtFactsStay DEF TradeNext, courtVars
<1> QED BY <1>1, <1>2, <1>6

LEMMA CourtStepInv == CourtInv /\ [TradeNext \/ CourtNext]_allVars => CourtInv'
<1>1. ASSUME CourtInv, CourtNext PROVE CourtInv'
  <2>1. CourtOnward /\ UNCHANGED <<vaultVars, picked>>
    BY <1>1, CourtOnwardStep DEF CourtInv, TradeInv
  <2>2. VaultTypeOK'
    BY <1>1, <2>1, StepType DEF CourtInv, TradeInv
  <2>3. ChainFacts' /\ FlowFacts' /\ TaskFacts'
    BY <1>1, <2>1, CourtKeepsHands DEF CourtInv
  <2> QED BY <1>1, <2>2, <2>3, CourtTypeStep, CourtFactsStep, CourtRowStep, CourtTxStep
          DEF CourtInv, TradeInv
<1>2. ASSUME CourtInv, UNCHANGED allVars PROVE CourtInv'
  <2>1. TradeInv'
    BY <1>2, StepInv DEF CourtInv, allVars
  <2>2. CourtTypeOK' /\ CourtFacts'
    BY <1>2 DEF allVars, courtVars, vars, vaultVars, tradeVars, CourtInv, CourtTypeOK, CourtFacts,
       CallFacts
  <2> QED BY <2>1, <2>2 DEF CourtInv
<1> QED BY <1>1, <1>2, TradeUnderCourt

(* What the court adds to the history are grounds the promise knows. *)
LEMMA CourtStepKeepsPromise ==
  ASSUME CourtInv, CourtNext
  PROVE  PromiseStep
<1> USE DEF CourtInv, TradeInv
<1>1. UNCHANGED offers
  BY CourtOnwardStep DEF CourtOnward
<1>3. ASSUME NEW a \in Admins, NEW d \in DisputeIds, NEW verdict \in Verdicts,
             Resolve(a, d, verdict)
      PROVE  PromiseStep
  <2>1. disputes[d].offer \in OfferIds
    BY <1>3 DEF Resolve, CourtFacts
  <2> QED BY <1>1, <1>3, <2>1, GroundsKeepPromise DEF Resolve, Witnessed
<1>4. ASSUME NEW call \in {"release", "cancel"}, NEW o \in OfferIds, ForceBroadcast(call, o)
      PROVE  PromiseStep
  <2>1. CASE Estimate(call, o)
    BY <1>1, <1>4, <2>1, GroundsKeepPromise DEF ForceBroadcast, Witnessed
  <2>2. CASE ~Estimate(call, o)
    BY <1>1, <1>4, <2>2, PromiseStutters DEF ForceBroadcast
  <2> QED BY <2>1, <2>2
<1>2. ASSUME NEW u \in Users, NEW o \in OfferIds, MarkDisputed(u, o) PROVE PromiseStep
  <2>1. CASE "disputed" \in grounds[o]
    BY <1>1, <1>2, <2>1, PromiseStutters DEF MarkDisputed
  <2>2. CASE "disputed" \notin grounds[o]
    <3>1. grounds' = [grounds EXCEPT ![o] = @ \cup {"disputed"} \cup InHand(o)]
      BY <1>2, <2>2 DEF MarkDisputed
    <3>2. \A p \in OfferIds :
            /\ Stage(p)' = Stage(p)
            /\ Known(p)' = IF p = o THEN Known(o) \cup {"disputed"} \cup InHand(o) ELSE Known(p)
      BY <1>1, <3>1 DEF Stage, Known, TradeTypeOK
    <3>3. "disputed" \notin Known(o)
      BY <2>2 DEF Known
    <3>4. InHand(o) \in SUBSET Promise!Hands
      BY DEF InHand, Promise!Hands
    <3>5. Promise!HearDispute(o, InHand(o))
      BY <1>1, <3>2, <3>3 DEF Promise!HearDispute
    <3> QED BY <3>4, <3>5 DEF PromiseStep, Promise!Next
  <2> QED BY <2>1, <2>2
<1>5. ASSUME NEW u \in Users, NEW o \in OfferIds,
             Raise(u, o) \/ (\E d \in DisputeIds : InsertDispute(u, o, d))
      PROVE  UNCHANGED grounds
  BY <1>5 DEF Raise, InsertDispute, vars, tradeVars
<1>6. ASSUME NEW d \in DisputeIds,
             \/ \E a \in Admins : \/ Accept(a, d) \/ Assign(a, d) \/ BeginReview(a, d)
                                 \/ Escalate(a, d)
             \/ \E verdict \in Verdicts : ApplyVerdict(d, verdict)
      PROVE  UNCHANGED grounds
  BY <1>6 DEF Accept, Assign, BeginReview, Escalate, ApplyVerdict, vars, tradeVars
<1>7. ASSUME NEW call \in {"release", "cancel"}, NEW o \in OfferIds,
             ForceSettlement(call, o) \/ ForceRecord(call, o)
      PROVE  UNCHANGED grounds
  BY <1>7 DEF ForceSettlement, ForceRecord, vars, tradeVars
<1>8. ASSUME NEW call \in calls, CallLost(call) PROVE UNCHANGED grounds
  BY <1>8 DEF CallLost
<1>9. UNCHANGED grounds => PromiseStep
  BY <1>1, PromiseStutters
<1> QED BY <1>2, <1>3, <1>4, <1>5, <1>6, <1>7, <1>8, <1>9 DEF CourtNext

LEMMA CourtInvHolds == CourtSpec => []CourtInv
BY CourtStarts, CourtStepInv, PTL DEF CourtSpec

(* Disputes, their judges and the requests under way keep their types,     *)
(* for any number of admins, disputes and requests.                        *)
THEOREM CourtTypeCorrect == CourtSpec => []CourtTypeOK
<1>1. CourtInv => CourtTypeOK
  BY DEF CourtInv
<1> QED BY <1>1, CourtInvHolds, PTL

(* A dispute is about a payment confirmed on chain, and has a judge once   *)
(* it is no longer open (DisputeHasStanding), however far apart the checks *)
(* of a request and its writes are.                                        *)
THEOREM DisputesHaveStanding == CourtSpec => []DisputeHasStanding
<1>1. CourtInv => DisputeHasStanding
  BY DEF CourtInv, CourtFacts, DisputeHasStanding
<1> QED BY <1>1, CourtInvHolds, PTL

(* What a dispute stops, and what was under way when it came: both         *)
(* confirmations are on record before Job1 acts; once the mark is set Job2 *)
(* and Job3 select the offer no more, and what they had in hand is named.  *)
BothSaid(o) == row[o].takerConfirmed /\ row[o].makerConfirmed

HeardFacts ==
  \A o \in OfferIds :
    /\ Disputed(o) => row[o].disputeRaised /\ row[o].takerConfirmed
    /\ Task("Job1", o, "selected") \in picked => BothSaid(o)
    /\ Tx("release", o) \in mempool => BothSaid(o) \/ Decided(o)
    /\ Disputed(o) /\ "payInHand" \notin grounds[o] /\ ~Decided(o) =>
         /\ Task("Job3", o, "selected") \notin picked
         /\ row[o].makerConfirmed => offers[o].makerConfirmed
    /\ Disputed(o) /\ "refundInHand" \notin grounds[o] /\ ~Decided(o) =>
         /\ Task("Job2", o, "selected") \notin picked
         /\ Tx("cancel", o) \notin mempool

(* A confirmation or a mark on record stays, and a maker's is new on record *)
(* only when it was given on chain, by Job3 or by a verdict.                *)
RowGrows ==
  \A o \in OfferIds :
    row[o].takerConfirmed =>
      /\ row'[o].takerConfirmed
      /\ row[o].disputeRaised => row'[o].disputeRaised
      /\ row[o].makerConfirmed => row'[o].makerConfirmed
      /\ row'[o].makerConfirmed =>
           \/ row[o].makerConfirmed
           \/ offers[o].makerConfirmed
           \/ Task("Job3", o, "selected") \in picked
           \/ Decided(o)

(* The watcher selects by its WHERE clauses, and broadcasts what it        *)
(* selected; what else is broadcast an admin decided.                      *)
HandGrows ==
  \A o \in OfferIds :
    /\ Task("Job1", o, "selected") \in picked' \ picked => o \in BothConfirmed
    /\ Task("Job2", o, "selected") \in picked' \ picked => o \in TakerTimedOut
    /\ Task("Job3", o, "selected") \in picked' \ picked => o \in MakerTimedOut
    /\ Tx("release", o) \in mempool' \ mempool =>
         Task("Job1", o, "selected") \in picked \/ Decided(o)'
    /\ Tx("cancel", o) \in mempool' \ mempool =>
         Task("Job2", o, "selected") \in picked \/ Decided(o)'

LEMMA HeardKept ==
  ASSUME TradeInv, HeardFacts, RowGrows, HandGrows,
         \A o \in OfferIds :
           /\ grounds[o] \subseteq grounds'[o]
           /\ \A g \in {"disputed", "payInHand", "refundInHand"} :
                g \in grounds'[o] <=> g \in grounds[o]
           /\ offers[o].makerConfirmed => offers'[o].makerConfirmed
  PROVE  HeardFacts'
<1>1. SUFFICES ASSUME NEW o \in OfferIds PROVE HeardFacts!(o)'
  BY DEF HeardFacts
<1>2. /\ Disputed(o)' <=> Disputed(o)
      /\ Decided(o) => Decided(o)'
  BY DEF Disputed
<1>3. Disputed(o)' => row'[o].disputeRaised /\ row'[o].takerConfirmed
  BY <1>2 DEF HeardFacts, RowGrows
<1>4. BothSaid(o) => BothSaid(o)'
  BY DEF BothSaid, RowGrows
<1>5. Task("Job1", o, "selected") \in picked' => BothSaid(o)'
  BY <1>4 DEF HeardFacts, HandGrows, BothConfirmed, BothSaid
<1>6. Tx("release", o) \in mempool' => BothSaid(o)' \/ Decided(o)'
  BY <1>2, <1>4 DEF HeardFacts, HandGrows
<1>7. ASSUME Disputed(o)', "payInHand" \notin grounds'[o], ~Decided(o)'
      PROVE  /\ Task("Job3", o, "selected") \notin picked'
             /\ row'[o].makerConfirmed => offers'[o].makerConfirmed
  <2>1. /\ Disputed(o) /\ "payInHand" \notin grounds[o] /\ ~Decided(o)
        /\ row[o].disputeRaised /\ row[o].takerConfirmed
    BY <1>2, <1>7 DEF HeardFacts
  <2>2. /\ Task("Job3", o, "selected") \notin picked
        /\ row[o].makerConfirmed => offers[o].makerConfirmed
    BY <2>1 DEF HeardFacts
  <2>3. o \notin MakerTimedOut
    BY <2>1 DEF MakerTimedOut
  <2> QED BY <2>1, <2>2, <2>3 DEF RowGrows, HandGrows
<1>8. ASSUME Disputed(o)', "refundInHand" \notin grounds'[o], ~Decided(o)'
      PROVE  /\ Task("Job2", o, "selected") \notin picked'
             /\ Tx("cancel", o) \notin mempool'
  <2>1. /\ Disputed(o) /\ "refundInHand" \notin grounds[o] /\ ~Decided(o)
        /\ row[o].takerConfirmed
    BY <1>2, <1>8 DEF HeardFacts
  <2>2. Task("Job2", o, "selected") \notin picked /\ Tx("cancel", o) \notin mempool
    BY <2>1 DEF HeardFacts
  <2>3. o \notin TakerTimedOut
    BY <2>1 DEF TakerTimedOut
  <2> QED BY <1>8, <2>2, <2>3 DEF HandGrows
<1> QED BY <1>3, <1>5, <1>6, <1>7, <1>8 DEF Disputed, BothSaid

(* The pipeline's steps. *)
LEMMA TradeRowGrows ==
  ASSUME TradeInv, Next
  PROVE  RowGrows
<1> USE DEF TradeInv, TradeTypeOK
<1>1. ASSUME NEW u \in Users, NEW o \in OfferIds, PostOffer(u, o) PROVE RowGrows
  <2>1. row[o].takerConfirmed => row'[o] = row[o]
    BY <1>1 DEF PostOffer, RowFacts
  <2> QED BY <1>1, <2>1 DEF PostOffer, RowGrows
<1>2. ASSUME NEW u \in Users, NEW o \in OfferIds, PatchAccepted(u, o) PROVE RowGrows
  BY <1>2 DEF PatchAccepted, Taken, RowGrows, Row
<1>3. ASSUME NEW u \in Users, NEW o \in OfferIds, PatchAcceptAgain(u, o) PROVE RowGrows
  BY <1>3 DEF PatchAcceptAgain, Taken, RowGrows, Row
<1>4. ASSUME NEW u \in Users, NEW o \in OfferIds, PatchTakerConfirmed(u, o) PROVE RowGrows
  BY <1>4 DEF PatchTakerConfirmed, RowGrows, Row
<1>5. ASSUME NEW u \in Users, NEW o \in OfferIds, PatchMakerConfirmed(u, o) PROVE RowGrows
  <2>1. offers[o].makerConfirmed
    BY <1>5 DEF PatchMakerConfirmed, FlowFacts, Flow
  <2> QED BY <1>5, <2>1 DEF PatchMakerConfirmed, RowGrows, Row
<1>6. ASSUME NEW u \in Users, NEW o \in OfferIds, PatchCancelled(u, o) PROVE RowGrows
  BY <1>6 DEF PatchCancelled, RowGrows, Row
<1>7. ASSUME NEW o \in OfferIds, TimePasses(o) PROVE RowGrows
  BY <1>7 DEF TimePasses, TakerWindowEnds, MakerWindowEnds, MakerStaysSilent, RowGrows, Row
<1>8. ASSUME NEW job \in Jobs, NEW o \in OfferIds, Record(job, o) PROVE RowGrows
  BY <1>8 DEF Record, RowGrows, Row
<1>9. ASSUME NEW o \in OfferIds, AutoConfirm(o) PROVE RowGrows
  BY <1>9 DEF AutoConfirm, RowGrows, Row
<1>10. ASSUME NEW u \in Users, NEW o \in OfferIds,
              \/ \E amount \in Amounts : CreateMined(u, o, amount)
              \/ \E op \in Ops : \/ Click(op, u, o) \/ CallMined(op, u, o)
                                \/ CallFailed(op, u, o) \/ Decline(op, u, o)
              \/ PatchAcceptedError(u, o)
              \/ PostMessage(u, o)
       PROVE  UNCHANGED row
  BY <1>10 DEF CreateMined, Click, CallMined, CallFailed, Decline, PatchAcceptedError, PostMessage
<1>11. ASSUME \/ \E f \in web : FlowLost(f)
              \/ \E job \in Jobs : \/ Select(job)
                                   \/ \E o \in OfferIds : Broadcast(job, o) \/ DeleteChat(job, o)
              \/ ApiStops
              \/ ChainNext
       PROVE  UNCHANGED row
  BY <1>11 DEF FlowLost, Select, Broadcast, DeleteChat, ApiStops, ChainNext, Mine, TxDropped
<1>12. UNCHANGED row => RowGrows
  BY DEF RowGrows
<1> QED
  BY <1>1, <1>2, <1>3, <1>4, <1>5, <1>6, <1>7, <1>8, <1>9, <1>10, <1>11, <1>12
  DEF Next, BrowserNext, WatcherNext

LEMMA TradeHandGrows ==
  ASSUME TradeInv, Next
  PROVE  HandGrows
<1> USE DEF TradeInv, TradeTypeOK
<1>1. ASSUME NEW job \in Jobs, Select(job) PROVE HandGrows
  <2>1. mempool' = mempool
    BY <1>1 DEF Select
  <2>2. ASSUME NEW o \in OfferIds, NEW j \in {"Job1", "Job2", "Job3"},
               Task(j, o, "selected") \in picked' \ picked
        PROVE  j = job /\ o \in Wanted(j)
    BY <1>1, <2>2 DEF Select, Batches, Task
  <2> QED BY <2>1, <2>2 DEF HandGrows, Wanted
<1>2. ASSUME NEW job \in Jobs, NEW o \in OfferIds, Broadcast(job, o) PROVE HandGrows
  <2>1. \A p \in OfferIds, j \in {"Job1", "Job2", "Job3"} :
          Task(j, p, "selected") \notin picked' \ picked
    BY <1>2 DEF Broadcast, Task
  <2>2. /\ mempool' \subseteq mempool \cup {Tx(CallOf(job), o)}
        /\ Task(job, o, "selected") \in picked /\ job \in {"Job1", "Job2"}
    BY <1>2 DEF Broadcast
  <2> QED BY <2>1, <2>2 DEF HandGrows, Tx, CallOf
<1>3. ASSUME NEW job \in Jobs, NEW o \in OfferIds, Record(job, o) PROVE HandGrows
  BY <1>3 DEF Record, Task, HandGrows
<1>4. picked' \subseteq picked /\ mempool' \subseteq mempool => HandGrows
  BY DEF HandGrows
<1>5. ASSUME \/ \E job \in Jobs, o \in OfferIds : DeleteChat(job, o)
             \/ \E o \in OfferIds : AutoConfirm(o) \/ TimePasses(o)
             \/ ApiStops
             \/ ChainNext
      PROVE  picked' \subseteq picked /\ mempool' \subseteq mempool
  BY <1>5 DEF DeleteChat, AutoConfirm, TimePasses, TakerWindowEnds, MakerWindowEnds,
     MakerStaysSilent, ApiStops, ChainNext, Mine, TxDropped
<1>6. ASSUME BrowserNext \/ \E f \in web : FlowLost(f)
      PROVE  picked' \subseteq picked /\ mempool' \subseteq mempool
  BY <1>6, BrowserFrame DEF FlowLost
<1> QED BY <1>1, <1>2, <1>3, <1>4, <1>5, <1>6 DEF Next, WatcherNext

(* The court's. *)
LEMMA CourtRowGrows ==
  ASSUME CourtInv, CourtNext
  PROVE  RowGrows
<1> USE DEF CourtInv, TradeInv, TradeTypeOK
<1>1. ASSUME NEW u \in Users, NEW o \in OfferIds, MarkDisputed(u, o) PROVE RowGrows
  BY <1>1 DEF MarkDisputed, RowGrows, Row
<1>2. ASSUME NEW d \in DisputeIds, NEW verdict \in Verdicts, ApplyVerdict(d, verdict)
      PROVE  RowGrows
  <2>1. disputes[d].offer \in OfferIds /\ Decided(disputes[d].offer)
    BY <1>2 DEF ApplyVerdict, CourtFacts, CallFacts, VerdictCall
  <2>2. PICK o \in OfferIds : o = disputes[d].offer /\ Decided(o)
    BY <2>1
  <2>3. \/ row' = [row EXCEPT ![o].makerConfirmed = TRUE]
        \/ row' = [row EXCEPT ![o].status = "cancelled"]
    BY <1>2, <2>2 DEF ApplyVerdict
  <2> QED BY <2>2, <2>3 DEF RowGrows, Row
<1>3. ASSUME NEW call \in {"release", "cancel"}, NEW o \in OfferIds, ForceRecord(call, o)
      PROVE  RowGrows
  BY <1>3 DEF ForceRecord, RowGrows, Row
<1>4. ASSUME NEW u \in Users, NEW o \in OfferIds,
             Raise(u, o) \/ (\E d \in DisputeIds : InsertDispute(u, o, d))
      PROVE  UNCHANGED row
  BY <1>4 DEF Raise, InsertDispute, vars, tradeVars
<1>5. ASSUME NEW a \in Admins, NEW d \in DisputeIds,
             \/ Accept(a, d) \/ Assign(a, d) \/ BeginReview(a, d) \/ Escalate(a, d)
             \/ \E verdict \in Verdicts : Resolve(a, d, verdict)
      PROVE  UNCHANGED row
  BY <1>5 DEF Accept, Assign, BeginReview, Escalate, Resolve, vars, tradeVars
<1>6. ASSUME NEW call \in {"release", "cancel"}, NEW o \in OfferIds,
             ForceSettlement(call, o) \/ ForceBroadcast(call, o)
      PROVE  UNCHANGED row
  BY <1>6 DEF ForceSettlement, ForceBroadcast, vars, tradeVars
<1>7. ASSUME NEW call \in calls, CallLost(call) PROVE UNCHANGED row
  BY <1>7 DEF CallLost
<1>8. UNCHANGED row => RowGrows
  BY DEF RowGrows
<1> QED BY <1>1, <1>2, <1>3, <1>4, <1>5, <1>6, <1>7, <1>8 DEF CourtNext

LEMMA CourtHandGrows ==
  ASSUME CourtInv, CourtNext
  PROVE  HandGrows
<1> USE DEF CourtInv, TradeInv, TradeTypeOK
<1>1. picked' = picked
  BY CourtOnwardStep
<1>2. ASSUME NEW call \in {"release", "cancel"}, NEW o \in OfferIds, ForceBroadcast(call, o)
      PROVE  HandGrows
  <2>1. CASE Estimate(call, o)
    <3>1. "forced" \in grounds'[o] /\ mempool' = mempool \cup {Tx(call, o)}
      BY <1>2, <2>1 DEF ForceBroadcast, Witnessed
    <3> QED BY <1>1, <3>1 DEF HandGrows, Tx
  <2>2. CASE ~Estimate(call, o)
    BY <1>1, <1>2, <2>2 DEF ForceBroadcast, HandGrows
  <2> QED BY <2>1, <2>2
<1>3. ASSUME NEW u \in Users, NEW o \in OfferIds,
             Raise(u, o) \/ (\E d \in DisputeIds : InsertDispute(u, o, d)) \/ MarkDisputed(u, o)
      PROVE  mempool' = mempool
  BY <1>3 DEF Raise, InsertDispute, MarkDisputed, vars, tradeVars
<1>4. ASSUME NEW d \in DisputeIds,
             \/ \E a \in Admins :
                  \/ Accept(a, d) \/ Assign(a, d) \/ BeginReview(a, d) \/ Escalate(a, d)
                  \/ \E verdict \in Verdicts : Resolve(a, d, verdict)
             \/ \E verdict \in Verdicts : ApplyVerdict(d, verdict)
      PROVE  mempool' = mempool
  BY <1>4 DEF Accept, Assign, BeginReview, Escalate, Resolve, ApplyVerdict, vars, tradeVars
<1>5. ASSUME NEW call \in {"release", "cancel"}, NEW o \in OfferIds,
             ForceSettlement(call, o) \/ ForceRecord(call, o)
      PROVE  mempool' = mempool
  BY <1>5 DEF ForceSettlement, ForceRecord, vars, tradeVars
<1>6. ASSUME NEW call \in calls, CallLost(call) PROVE mempool' = mempool
  BY <1>6 DEF CallLost
<1>7. mempool' = mempool => HandGrows
  BY <1>1 DEF HandGrows
<1> QED BY <1>2, <1>3, <1>4, <1>5, <1>6, <1>7 DEF CourtNext

(* Only the mark makes a dispute heard. *)
LEMMA CourtGroundsMove ==
  ASSUME CourtInv, CourtNext, ~ \E u \in Users, o \in OfferIds : MarkDisputed(u, o)
  PROVE  \A o \in OfferIds : \A g \in {"disputed", "payInHand", "refundInHand"} :
           g \in grounds'[o] <=> g \in grounds[o]
<1> USE DEF CourtInv, TradeInv, TradeTypeOK
<1>1. ASSUME NEW a \in Admins, NEW d \in DisputeIds, NEW verdict \in Verdicts,
             Resolve(a, d, verdict)
      PROVE  \E o \in OfferIds : Witnessed(o, "verdict")
  BY <1>1 DEF Resolve, CourtFacts
<1>2. ASSUME NEW call \in {"release", "cancel"}, NEW o \in OfferIds, ForceBroadcast(call, o)
      PROVE  Witnessed(o, "forced") \/ UNCHANGED grounds
  BY <1>2 DEF ForceBroadcast
<1>3. ASSUME NEW u \in Users, NEW o \in OfferIds,
             Raise(u, o) \/ (\E d \in DisputeIds : InsertDispute(u, o, d))
      PROVE  UNCHANGED grounds
  BY <1>3 DEF Raise, InsertDispute, vars, tradeVars
<1>4. ASSUME NEW d \in DisputeIds,
             \/ \E a \in Admins : \/ Accept(a, d) \/ Assign(a, d) \/ BeginReview(a, d)
                                 \/ Escalate(a, d)
             \/ \E verdict \in Verdicts : ApplyVerdict(d, verdict)
      PROVE  UNCHANGED grounds
  BY <1>4 DEF Accept, Assign, BeginReview, Escalate, ApplyVerdict, vars, tradeVars
<1>5. ASSUME NEW call \in {"release", "cancel"}, NEW o \in OfferIds,
             ForceSettlement(call, o) \/ ForceRecord(call, o)
      PROVE  UNCHANGED grounds
  BY <1>5 DEF ForceSettlement, ForceRecord, vars, tradeVars
<1>6. ASSUME NEW call \in calls, CallLost(call) PROVE UNCHANGED grounds
  BY <1>6 DEF CallLost
<1>7. \/ UNCHANGED grounds
      \/ \E o \in OfferIds : Witnessed(o, "verdict") \/ Witnessed(o, "forced")
  BY <1>1, <1>2, <1>3, <1>4, <1>5, <1>6 DEF CourtNext
<1> QED BY <1>7 DEF Witnessed

(* A dispute is being raised over a confirmation on record. *)
RaisedPaid == \A c \in calls : c.kind = "raise" => row[c.on].takerConfirmed

LEMMA RaisedPaidHolds == CourtSpec => []RaisedPaid
<1>1. CourtInit => RaisedPaid
  BY DEF CourtInit, RaisedPaid
<1>2. ASSUME CourtInv, RaisedPaid, RowGrows, NEW c \in calls, c.kind = "raise"
      PROVE  row'[c.on].takerConfirmed
  BY <1>2 DEF RaisedPaid, RowGrows, CourtInv, CourtTypeOK, Calls
<1>3. ASSUME CourtInv, RaisedPaid, TradeNext PROVE RaisedPaid'
  <2>1. RowGrows /\ calls' = calls
    BY <1>3, TradeRowGrows DEF CourtInv, TradeNext, courtVars
  <2> QED BY <1>2, <1>3, <2>1 DEF RaisedPaid
<1>4. ASSUME CourtInv, RaisedPaid, CourtNext PROVE RaisedPaid'
  <2>1. RowGrows
    BY <1>4, CourtRowGrows
  <2>2. ASSUME \A c \in calls' \ calls : c.kind = "raise" => row'[c.on].takerConfirmed
        PROVE  RaisedPaid'
    BY <1>2, <1>4, <2>1, <2>2 DEF RaisedPaid
  <2>3. ASSUME NEW u \in Users, NEW o \in OfferIds, Raise(u, o) PROVE RaisedPaid'
    BY <2>2, <2>3 DEF Raise, Begins, RaiseCall, vars, tradeVars
  <2>4. ASSUME NEW u \in Users, NEW o \in OfferIds, NEW d \in DisputeIds, InsertDispute(u, o, d)
        PROVE  RaisedPaid'
    <3>1. row[o].takerConfirmed /\ row' = row
      BY <1>4, <2>4 DEF InsertDispute, RaisedPaid, RaiseCall, vars, tradeVars
    <3> QED BY <2>2, <2>4, <3>1 DEF InsertDispute, Moves, RaiseCall
  <2>5. ASSUME NEW u \in Users, NEW o \in OfferIds, MarkDisputed(u, o) PROVE RaisedPaid'
    BY <2>2, <2>5 DEF MarkDisputed, Ends
  <2>6. ASSUME NEW a \in Admins, NEW d \in DisputeIds,
               \/ Accept(a, d) \/ Assign(a, d) \/ BeginReview(a, d) \/ Escalate(a, d)
               \/ \E verdict \in Verdicts : Resolve(a, d, verdict)
        PROVE  RaisedPaid'
    BY <2>2, <2>6 DEF Accept, Assign, BeginReview, Escalate, Resolve, Begins, Moves, Ends,
       AcceptCall, VerdictCall
  <2>7. ASSUME NEW d \in DisputeIds, NEW verdict \in Verdicts, ApplyVerdict(d, verdict)
        PROVE  RaisedPaid'
    BY <2>2, <2>7 DEF ApplyVerdict, Ends
  <2>8. ASSUME NEW call \in {"release", "cancel"}, NEW o \in OfferIds,
               ForceSettlement(call, o) \/ ForceBroadcast(call, o) \/ ForceRecord(call, o)
        PROVE  RaisedPaid'
    BY <2>2, <2>8 DEF ForceSettlement, ForceBroadcast, ForceRecord, Begins, Moves, Ends, ForceCall
  <2>9. ASSUME NEW call \in calls, CallLost(call) PROVE RaisedPaid'
    BY <2>2, <2>9 DEF CallLost, Ends
  <2> QED BY <1>4, <2>3, <2>4, <2>5, <2>6, <2>7, <2>8, <2>9 DEF CourtNext
<1>5. ASSUME RaisedPaid, UNCHANGED allVars PROVE RaisedPaid'
  BY <1>5 DEF RaisedPaid, allVars, courtVars, vars, tradeVars
<1>6. CourtInv /\ RaisedPaid /\ [TradeNext \/ CourtNext]_allVars => RaisedPaid'
  BY <1>3, <1>4, <1>5
<1> QED BY <1>1, <1>6, CourtInvHolds, PTL DEF CourtSpec

(* The mark itself: what the watcher has in hand is put on record with it. *)
LEMMA MarkIsHeard ==
  ASSUME CourtInv, RaisedPaid, HeardFacts, NEW u \in Users, NEW o \in OfferIds,
         MarkDisputed(u, o)
  PROVE  HeardFacts'
<1> USE DEF CourtInv, TradeInv, TradeTypeOK
<1>1. /\ UNCHANGED <<offers, picked, mempool>>
      /\ row' = [row EXCEPT ![o].disputeRaised = TRUE]
      /\ \A p \in OfferIds \ {o} : row'[p] = row[p] /\ grounds'[p] = grounds[p]
  BY DEF MarkDisputed, vaultVars
<1>2. /\ row'[o].disputeRaised
      /\ row'[o].takerConfirmed = row[o].takerConfirmed
      /\ row'[o].makerConfirmed = row[o].makerConfirmed
  BY <1>1 DEF Row
<1>3. ASSUME NEW p \in OfferIds, p # o PROVE HeardFacts!(p)'
  BY <1>1, <1>3 DEF HeardFacts, Disputed, BothSaid
<1>4. HeardFacts!(o)'
  <2>1. row[o].takerConfirmed
    BY DEF MarkDisputed, RaisedPaid, RaiseCall
  <2>2. CASE "disputed" \in grounds[o]
    BY <1>1, <1>2, <2>1, <2>2 DEF MarkDisputed, HeardFacts, Disputed, BothSaid
  <2>3. CASE "disputed" \notin grounds[o]
    <3>1. grounds'[o] = grounds[o] \cup {"disputed"} \cup InHand(o)
      BY <2>3 DEF MarkDisputed
    <3>2. Decided(o) => Decided(o)'
      BY <3>1
    <3>3. "payInHand" \notin grounds'[o] =>
            /\ ~row[o].makerConfirmed
            /\ Task("Job3", o, "selected") \notin picked
      BY <3>1 DEF InHand
    <3>4. "refundInHand" \notin grounds'[o] =>
            /\ Task("Job2", o, "selected") \notin picked
            /\ Tx("cancel", o) \notin mempool
      BY <3>1 DEF InHand
    <3>5. /\ Task("Job1", o, "selected") \in picked => BothSaid(o)
          /\ Tx("release", o) \in mempool => BothSaid(o) \/ Decided(o)
      BY DEF HeardFacts
    <3> QED BY <1>1, <1>2, <2>1, <3>2, <3>3, <3>4, <3>5 DEF Disputed, BothSaid
  <2> QED BY <2>2, <2>3
<1> QED BY <1>3, <1>4 DEF HeardFacts

LEMMA HeardHolds == CourtSpec => []HeardFacts
<1>1. CourtInit => HeardFacts
  BY DEF CourtInit, Init, TradeInit, HeardFacts, Disputed
<1>2. ASSUME CourtInv, HeardFacts, TradeNext PROVE HeardFacts'
  <2>1. RowGrows /\ HandGrows /\ ChainGrows
    BY <1>2, TradeRowGrows, TradeHandGrows, ChainStepOfNext DEF CourtInv, TradeNext
  <2>2. CourtRests /\ \A o \in OfferIds : grounds[o] \subseteq grounds'[o]
    BY <1>2, GroundsMove DEF CourtInv, TradeInv, TradeNext
  <2> QED BY <1>2, <2>1, <2>2, HeardKept DEF CourtInv, CourtRests, ChainGrows
<1>3. ASSUME CourtInv, RaisedPaid, HeardFacts, CourtNext PROVE HeardFacts'
  <2>1. CASE \E u \in Users, o \in OfferIds : MarkDisputed(u, o)
    BY <1>3, <2>1, MarkIsHeard
  <2>2. CASE ~ \E u \in Users, o \in OfferIds : MarkDisputed(u, o)
    <3>1. RowGrows /\ HandGrows /\ CourtOnward
      BY <1>3, CourtRowGrows, CourtHandGrows, CourtOnwardStep DEF CourtInv, TradeInv
    <3> QED BY <1>3, <2>2, <3>1, CourtGroundsMove, HeardKept DEF CourtInv, CourtOnward
  <2> QED BY <2>1, <2>2
<1>4. ASSUME HeardFacts, UNCHANGED allVars PROVE HeardFacts'
  BY <1>4 DEF HeardFacts, Disputed, BothSaid, allVars, vars, vaultVars, tradeVars
<1>5. CourtInv /\ RaisedPaid /\ HeardFacts /\ [TradeNext \/ CourtNext]_allVars => HeardFacts'
  BY <1>2, <1>3, <1>4
<1> QED BY <1>1, <1>5, CourtInvHolds, RaisedPaidHolds, PTL DEF CourtSpec

LEMMA CourtOwes ==
  ASSUME CourtInv, HeardFacts
  PROVE  Owed
<1> USE DEF CourtInv, TradeInv
<1>1. SUFFICES ASSUME NEW o \in OfferIds
               PROVE  /\ Tx("release", o) \in mempool => Promise!EnoughToPay(Known(o))
                      /\ Tx("cancel", o) \in mempool => Promise!EnoughToRefund(Known(o))
  BY DEF Owed
<1>2. Decided(o) => Promise!AdminDecided(Known(o))
  BY DEF Known, Promise!AdminDecided
<1>3. ASSUME Tx("release", o) \in mempool, ~Decided(o) PROVE Promise!EnoughToPay(Known(o))
  <2>1. Payable(o) /\ row[o].makerConfirmed
    BY <1>3 DEF TxFacts, Tx, HeardFacts, BothSaid
  <2>2. /\ "takerConfirmed" \in Known(o)
        /\ "makerConfirmed" \in Known(o) \/ "makerSilent" \in Known(o)
    BY <1>3, <2>1 DEF Payable, Known
  <2>3. "disputed" \in Known(o) => "payInHand" \in Known(o) \/ "makerConfirmed" \in Known(o)
    BY <1>3, <2>1 DEF HeardFacts, Disputed, Known
  <2> QED BY <2>2, <2>3 DEF Promise!EnoughToPay, Promise!ByClock
<1>4. ASSUME Tx("cancel", o) \in mempool, ~Decided(o) PROVE Promise!EnoughToRefund(Known(o))
  <2>1. Lapsed(o)
    BY <1>4 DEF TxFacts, Tx
  <2>2. "takerLate" \in Known(o) /\ "paidInTime" \notin Known(o)
    BY <1>4, <2>1 DEF Lapsed, RowFacts, Known
  <2>3. "disputed" \in Known(o) => "refundInHand" \in Known(o)
    BY <1>4 DEF HeardFacts, Disputed, Known
  <2> QED BY <2>2, <2>3 DEF Promise!EnoughToRefund, Promise!ByClock
<1> QED BY <1>2, <1>3, <1>4 DEF Promise!EnoughToPay, Promise!EnoughToRefund

(* Under disputes, verdicts and forced settlements in every order and with *)
(* all four jobs running, escrow leaves the contract only on the promise's *)
(* grounds (CourtKeepsPromise): once a dispute is on record, an admin's    *)
(* decision or both parties' own confirmations, unless the watcher had the *)
(* settlement in hand at that moment (README.md:43).                       *)
THEOREM CourtSettlesOnGrounds == CourtSpec => CourtKeepsPromise
<1>1. CourtInit => Promise!Init
  BY PromiseInit DEF CourtInit
<1>2. CourtInv /\ HeardFacts /\ [TradeNext \/ CourtNext]_allVars => PromiseStep
  <2>1. ASSUME CourtInv, HeardFacts, TradeNext PROVE PromiseStep
    BY <2>1, CourtOwes, StepKeepsPromise DEF CourtInv, TradeNext
  <2>2. ASSUME CourtInv, HeardFacts, UNCHANGED allVars PROVE PromiseStep
    BY <2>2, CourtOwes, StepKeepsPromise DEF CourtInv, allVars
  <2>3. ASSUME CourtInv, CourtNext PROVE PromiseStep
    BY <2>3, CourtStepKeepsPromise
  <2> QED BY <2>1, <2>2, <2>3
<1> QED BY <1>1, <1>2, CourtInvHolds, HeardHolds, PTL
       DEF CourtSpec, CourtKeepsPromise, Promise!Spec, PromiseStep

(* The court makes no contract call of its own: rows, verdicts and forced  *)
(* settlements reach the contract through the platform's transactions, as  *)
(* the pipeline's do.                                                      *)
THEOREM CourtDrivesContract == CourtSpec => VaultSpec
<1>1. CourtInit => VaultInit
  BY DEF CourtInit, Init
<1>2. CourtInv /\ [TradeNext \/ CourtNext]_allVars => [VaultNext]_vaultVars
  <2>1. ASSUME CourtInv, TradeNext PROVE [VaultNext]_vaultVars
    BY <2>1, CallsOfStep, PipelineIsVaultStep DEF CourtInv, TradeNext
  <2>2. ASSUME CourtInv, CourtNext PROVE UNCHANGED vaultVars
    BY <2>2, CourtOnwardStep DEF CourtInv, TradeInv
  <2>3. ASSUME UNCHANGED allVars PROVE UNCHANGED vaultVars
    BY <2>3 DEF allVars, vars
  <2> QED BY <2>1, <2>2, <2>3
<1> QED BY <1>1, <1>2, CourtInvHolds, PTL DEF CourtSpec, VaultSpec

(* So no verdict and no forced settlement can fail for lack of USDC        *)
(* (EscrowCovered), whatever is disputed, decided and forced at once.      *)
THEOREM CourtEscrowCovered == CourtSpec => []EscrowCovered
BY CourtDrivesContract, EscrowAlwaysCovered, PTL

(* And whoever decides, a release pays the account that accepted on chain  *)
(* at least 99% of the lot and a refund pays the maker all of it           *)
(* (PaidInFull).                                                           *)
THEOREM CourtPaysInFull == CourtSpec => PaidInFull
BY CourtDrivesContract, SettlingPaysInFull, PTL

-----------------------------------------------------------------------------
(* No offer is settled twice.  The contract alone allows it, when a maker  *)
(* posts the same offer again in the same block; with fresh ids a settled  *)
(* struct is final, though a release and a refund of one offer may both be *)
(* in the mempool and a forced settlement may race a watcher's.            *)

SettledForGood == \A o \in OfferIds : Settled(o) => offers'[o] = offers[o]

LEMMA TradeSettlesOnce ==
  ASSUME TradeInv, Next
  PROVE  SettledForGood
<1>1. CASE UNCHANGED vaultVars
  BY <1>1 DEF SettledForGood, vaultVars
<1>2. CASE \E u \in Users, o \in OfferIds : PipelineCall(u, o)
  <2>1. PICK u \in Users, o \in OfferIds : PipelineCall(u, o)
    BY <1>2
  <2>2. \/ \E x : offers' = [offers EXCEPT ![o] = x]
        \/ UNCHANGED offers
    <3>1. ASSUME NEW amount \in Amounts, createP2POffer(u, o, amount)
          PROVE  \E x : offers' = [offers EXCEPT ![o] = x]
      BY <3>1 DEF createP2POffer
    <3>2. ASSUME acceptP2POffer(u, o) \/ takerConfirm(u, o) \/ makerConfirm(u, o)
          PROVE  \E x : offers' = [offers EXCEPT ![o] = x]
      BY <3>2 DEF acceptP2POffer, takerConfirm, makerConfirm
    <3>3. ASSUME makerCancelOffer(u, o) \/ cancelP2POffer(o) \/ releaseP2POffer(o)
          PROVE  \E x : offers' = [offers EXCEPT ![o] = x]
      BY <3>3 DEF makerCancelOffer, cancelP2POffer, releaseP2POffer, Refund
    <3> QED BY <2>1, <3>1, <3>2, <3>3 DEF PipelineCall
  <2>3. ~ Settled(o)
    BY <2>1 DEF PipelineCall, acceptP2POffer, takerConfirm, makerConfirm, makerCancelOffer,
       cancelP2POffer, releaseP2POffer, CanCancel, CanRelease, Settled, ZeroOffer
  <2>4. \A p \in OfferIds : p # o => offers'[p] = offers[p]
    BY <2>2 DEF TradeInv, VaultTypeOK
  <2> QED BY <2>3, <2>4 DEF SettledForGood
<1> QED BY <1>1, <1>2, CallsOfStep

(* Under the court too, a release and a refund of one offer that race each *)
(* other, or a settlement repeated by another job or admin, settle it once *)
(* and leave what was settled as it is.                                    *)
THEOREM SettledOnceAndForAll == CourtSpec => [][SettledForGood]_vaultVars
<1>1. CourtInv /\ [TradeNext \/ CourtNext]_allVars => [SettledForGood]_vaultVars
  <2>1. ASSUME CourtInv, TradeNext PROVE SettledForGood
    BY <2>1, TradeSettlesOnce DEF CourtInv, TradeNext
  <2>2. ASSUME CourtInv, CourtNext PROVE UNCHANGED vaultVars
    BY <2>2, CourtOnwardStep DEF CourtInv, TradeInv
  <2>3. ASSUME UNCHANGED allVars PROVE UNCHANGED vaultVars
    BY <2>3 DEF allVars, vars
  <2> QED BY <2>1, <2>2, <2>3
<1> QED BY <1>1, CourtInvHolds, PTL DEF CourtSpec
-----------------------------------------------------------------------------
(* No trade on record falls between the jobs' SELECTs.                     *)

(* The escrow has left, or a transaction that settles it is in the         *)
(* mempool, or the network dropped one.                                    *)
UnderWay(o) == Settled(o) \/ (\E t \in mempool : t.id = o) \/ drops > 0

(* An accepted row is selected by a job or will be when its window ends,   *)
(* and can be released until its escrow has left; a final row has its      *)
(* settlement under way.                                                   *)
TradeInReach ==
  \A o \in OfferIds :
    /\ row[o].status = "accepted" =>
         /\ CanRelease(o) \/ Settled(o)
         /\ \/ row[o].takerDue = "running"
            \/ row[o].makerDue \in {"running", "over"}
            \/ o \in BothConfirmed \cup TakerTimedOut \cup MakerTimedOut
    /\ row[o].status \in {"released", "cancelled"} => UnderWay(o)

(* A window is open once there is something to wait for, and nobody        *)
(* disputes: the pipeline without the court.                               *)
ClocksRun ==
  \A o \in OfferIds :
    /\ row[o].status = "accepted" => row[o].takerDue # "unset"
    /\ row[o].takerConfirmed => row[o].makerDue # "unset"
    /\ ~row[o].disputeRaised

(* A release that was broadcast has somebody to pay. *)
ReleasesPay == \A t \in mempool : t.call = "release" => offers[t.id].taker # NoAddress

(* Whoever records an outcome has seen a settlement sent or mined, and the *)
(* contract knows the taker of an offer that was accepted.                 *)
EndsKnown ==
  /\ \A o \in OfferIds : /\ row[o].status \in {"released", "cancelled"} => UnderWay(o)
                         /\ offers[o].status = "Accepted" => offers[o].taker # NoAddress
  /\ \A t \in picked : t.step = "sent" => UnderWay(t.id)
  /\ \A f \in web : f.op = "cancel" /\ f.step = "mined" => Settled(f.id)

ReachInv == ClocksRun /\ ReleasesPay /\ EndsKnown

LEMMA ClocksStep ==
  ASSUME TradeInv, ClocksRun, Next
  PROVE  ClocksRun'
<1> USE DEF TradeInv, TradeTypeOK, ClocksRun
<1>1. ASSUME NEW u \in Users, NEW o \in OfferIds, PostOffer(u, o) PROVE ClocksRun'
  BY <1>1 DEF PostOffer, NoRow, Row
<1>2. ASSUME NEW u \in Users, NEW o \in OfferIds, PatchAccepted(u, o) PROVE ClocksRun'
  BY <1>2 DEF PatchAccepted, Taken, Row
<1>3. ASSUME NEW u \in Users, NEW o \in OfferIds, PatchAcceptAgain(u, o) PROVE ClocksRun'
  BY <1>3 DEF PatchAcceptAgain, Taken, Row
<1>4. ASSUME NEW u \in Users, NEW o \in OfferIds, PatchTakerConfirmed(u, o) PROVE ClocksRun'
  BY <1>4 DEF PatchTakerConfirmed, Row
<1>5. ASSUME NEW u \in Users, NEW o \in OfferIds,
             PatchMakerConfirmed(u, o) \/ PatchCancelled(u, o)
      PROVE  ClocksRun'
  BY <1>5 DEF PatchMakerConfirmed, PatchCancelled, Row
<1>6. ASSUME NEW o \in OfferIds, TimePasses(o) PROVE ClocksRun'
  BY <1>6 DEF TimePasses, TakerWindowEnds, MakerWindowEnds, MakerStaysSilent, Row
<1>7. ASSUME NEW job \in Jobs, NEW o \in OfferIds, Record(job, o) PROVE ClocksRun'
  BY <1>7 DEF Record, Row
<1>8. ASSUME NEW o \in OfferIds, AutoConfirm(o) PROVE ClocksRun'
  BY <1>8 DEF AutoConfirm, Row
<1>9. CASE UNCHANGED row
  BY <1>9
<1>10. ASSUME NEW u \in Users, NEW o \in OfferIds,
              \/ \E amount \in Amounts : CreateMined(u, o, amount)
              \/ \E op \in Ops : \/ Click(op, u, o) \/ CallMined(op, u, o)
                                \/ CallFailed(op, u, o) \/ Decline(op, u, o)
              \/ PatchAcceptedError(u, o)
              \/ PostMessage(u, o)
       PROVE  UNCHANGED row
  BY <1>10 DEF CreateMined, Click, CallMined, CallFailed, Decline, PatchAcceptedError, PostMessage
<1>11. ASSUME \/ \E f \in web : FlowLost(f)
              \/ \E job \in Jobs : \/ Select(job)
                                   \/ \E o \in OfferIds : Broadcast(job, o) \/ DeleteChat(job, o)
              \/ ApiStops
              \/ ChainNext
       PROVE  UNCHANGED row
  BY <1>11 DEF FlowLost, Select, Broadcast, DeleteChat, ApiStops, ChainNext, Mine, TxDropped
<1> QED
  BY <1>1, <1>2, <1>3, <1>4, <1>5, <1>6, <1>7, <1>8, <1>9, <1>10, <1>11
  DEF Next, BrowserNext, WatcherNext

LEMMA BrowserKeepsDrops == BrowserNext => UNCHANGED drops
<1>1. ASSUME NEW u \in Users, NEW o \in OfferIds,
             \/ \E amount \in Amounts : CreateMined(u, o, amount)
             \/ \E op \in Ops : \/ Click(op, u, o) \/ CallMined(op, u, o)
                               \/ CallFailed(op, u, o) \/ Decline(op, u, o)
      PROVE  UNCHANGED drops
  BY <1>1 DEF CreateMined, Click, CallMined, CallFailed, Decline
<1>2. ASSUME NEW u \in Users, NEW o \in OfferIds,
             \/ PostOffer(u, o)
             \/ PatchAccepted(u, o) \/ PatchAcceptedError(u, o) \/ PatchAcceptAgain(u, o)
             \/ PatchTakerConfirmed(u, o) \/ PatchMakerConfirmed(u, o)
             \/ PatchCancelled(u, o) \/ PostMessage(u, o)
      PROVE  UNCHANGED drops
  BY <1>2 DEF PostOffer, PatchAccepted, PatchAcceptedError, PatchAcceptAgain,
     PatchTakerConfirmed, PatchMakerConfirmed, PatchCancelled, PostMessage
<1> QED BY <1>1, <1>2 DEF BrowserNext

(* A transaction leaves the mempool settling its offer, finding it settled *)
(* by another, or dropped.                                                 *)
LEMMA UnderWayStays ==
  ASSUME TradeInv, ReleasesPay, Next, NEW o \in OfferIds, UnderWay(o)
  PROVE  UnderWay(o)'
<1> USE DEF TradeInv
<1>1. CASE Settled(o)
  BY <1>1, TradeSettlesOnce DEF SettledForGood, Settled, UnderWay
<1>2. CASE drops > 0
  <2>1. drops' = drops \/ drops' = drops + 1
    <3>1. BrowserNext \/ (\E f \in web : FlowLost(f)) => drops' = drops
      BY BrowserKeepsDrops DEF FlowLost
    <3>2. WatcherNext \/ (\E p \in OfferIds : TimePasses(p)) => drops' = drops
      BY DEF WatcherNext, Select, Broadcast, Record, DeleteChat, AutoConfirm, ApiStops,
         TimePasses, TakerWindowEnds, MakerWindowEnds, MakerStaysSilent
    <3>3. ChainNext => drops' = drops \/ drops' = drops + 1
      BY DEF ChainNext, Mine, TxDropped
    <3> QED BY <3>1, <3>2, <3>3 DEF Next
  <2> QED BY <1>2, <2>1, P2PAssumption DEF TradeTypeOK, UnderWay
<1>3. ASSUME NEW t \in mempool, t.id = o PROVE UnderWay(o)'
  <2>1. t \in Txs
    BY DEF TradeTypeOK
  <2>2. ASSUME NEW call \in {"release", "cancel"}, Mine(call, o), t = Tx(call, o)
        PROVE  Settled(o)'
    <3>1. offers[o] \in P2POffer
      BY DEF VaultTypeOK
    <3>2. CASE call = "release" /\ releaseP2POffer(o)
      BY <3>2 DEF releaseP2POffer, VaultTypeOK, Settled
    <3>3. CASE call = "cancel" /\ cancelP2POffer(o)
      BY <3>3 DEF cancelP2POffer, Refund, VaultTypeOK, Settled
    <3>4. CASE ~Estimate(call, o) /\ UNCHANGED vaultVars
      <4>1. call = "release" => offers[o].taker # NoAddress
        BY <2>2 DEF ReleasesPay, Tx
      <4>2. offers[o].status \in {"Open", "Accepted", "Released", "Cancelled"}
        BY <3>1 DEF P2POffer, OfferStatus
      <4>3. call = "release" => offers[o].status # "Open"
        BY <4>1 DEF ChainFacts
      <4> QED BY <3>4, <4>1, <4>2, <4>3 DEF Estimate, CanRelease, CanCancel, Settled, vaultVars
    <3> QED BY <2>2, <3>2, <3>3, <3>4 DEF Mine
  <2>3. ASSUME t \notin mempool' PROVE Settled(o)' \/ drops' > 0
    <3>1. ChainNext
      <4>1. BrowserNext \/ (\E f \in web : FlowLost(f)) => mempool' = mempool
        BY BrowserFrame DEF FlowLost
      <4>2. WatcherNext \/ (\E p \in OfferIds : TimePasses(p)) => mempool \subseteq mempool'
        BY DEF WatcherNext, Select, Broadcast, Record, DeleteChat, AutoConfirm, ApiStops,
           TimePasses, TakerWindowEnds, MakerWindowEnds, MakerStaysSilent
      <4> QED BY <2>3, <4>1, <4>2 DEF Next
    <3>2. PICK call \in {"release", "cancel"}, p \in OfferIds : Mine(call, p) \/ TxDropped(call, p)
      BY <3>1 DEF ChainNext
    <3>3. t = Tx(call, p)
      BY <2>3, <3>2 DEF Mine, TxDropped
    <3>4. p = o
      BY <1>3, <3>3 DEF Tx
    <3>5. CASE TxDropped(call, p)
      BY <3>5, P2PAssumption DEF TxDropped, TradeTypeOK
    <3> QED BY <2>2, <3>2, <3>3, <3>4, <3>5
  <2> QED BY <1>3, <2>3 DEF UnderWay
<1> QED BY <1>1, <1>2, <1>3 DEF UnderWay

LEMMA ReleasesStep ==
  ASSUME TradeInv, Onward, ReleasesPay, Next
  PROVE  ReleasesPay'
<1> USE DEF TradeInv
<1>1. \A t \in mempool : t.id \in OfferIds
  BY DEF TradeTypeOK, Txs
<1>2. CASE mempool' \subseteq mempool
  BY <1>1, <1>2 DEF ReleasesPay, Onward, ChainGrows
<1>3. ASSUME NEW job \in Jobs, NEW o \in OfferIds, Broadcast(job, o), ~(mempool' \subseteq mempool)
      PROVE  ReleasesPay'
  <2>1. /\ mempool' = mempool \cup {Tx(CallOf(job), o)}
        /\ Estimate(CallOf(job), o)
        /\ UNCHANGED vaultVars
    BY <1>3 DEF Broadcast
  <2>2. CallOf(job) = "release" => offers[o].taker # NoAddress
    BY <2>1 DEF Estimate, CanRelease
  <2> QED BY <2>1, <2>2 DEF ReleasesPay, Tx, vaultVars
<1>4. BrowserNext \/ (\E f \in web : FlowLost(f)) => mempool' = mempool
  BY BrowserFrame DEF FlowLost
<1>5. \/ \E job \in Jobs : \/ Select(job)
                           \/ \E o \in OfferIds : Record(job, o) \/ DeleteChat(job, o)
      \/ \E o \in OfferIds : AutoConfirm(o) \/ TimePasses(o)
      \/ ApiStops
      \/ ChainNext
      => mempool' \subseteq mempool
  BY DEF Select, Record, DeleteChat, AutoConfirm, ApiStops, TimePasses, TakerWindowEnds,
     MakerWindowEnds, MakerStaysSilent, ChainNext, Mine, TxDropped
<1> QED BY <1>2, <1>3, <1>4, <1>5 DEF Next, WatcherNext

(* Whoever writes a final status has seen the settlement. *)
LEMMA EndsWritten ==
  ASSUME TradeInv, EndsKnown, Next, NEW o \in OfferIds,
         row'[o].status \in {"released", "cancelled"}
  PROVE  UnderWay(o)
<1> USE DEF TradeInv, TradeTypeOK
<1>1. CASE row[o].status \in {"released", "cancelled"}
  BY <1>1 DEF EndsKnown
<1>2. ASSUME NEW u \in Users, NEW p \in OfferIds, PatchCancelled(u, p),
             row[o].status \notin {"released", "cancelled"}
      PROVE  UnderWay(o)
  <2>1. p = o
    BY <1>2 DEF PatchCancelled
  <2> QED BY <1>2, <2>1 DEF PatchCancelled, EndsKnown, Flow, UnderWay
<1>3. ASSUME NEW job \in Jobs, NEW p \in OfferIds, Record(job, p),
             row[o].status \notin {"released", "cancelled"}
      PROVE  UnderWay(o)
  <2>1. p = o
    BY <1>3 DEF Record
  <2> QED BY <1>3, <2>1 DEF Record, EndsKnown, Task
<1>4. ASSUME NEW u \in Users, NEW p \in OfferIds,
             \/ PostOffer(u, p) \/ PatchAccepted(u, p) \/ PatchAcceptAgain(u, p)
             \/ PatchTakerConfirmed(u, p) \/ PatchMakerConfirmed(u, p)
      PROVE  row[o].status \in {"released", "cancelled"}
  <2>1. CASE PostOffer(u, p)
    BY <2>1 DEF PostOffer, NoRow, Row
  <2>2. CASE PatchAccepted(u, p)
    BY <2>2 DEF PatchAccepted, Taken, Row
  <2>3. CASE PatchAcceptAgain(u, p)
    BY <2>3 DEF PatchAcceptAgain, Taken, Row
  <2>4. CASE PatchTakerConfirmed(u, p)
    BY <2>4 DEF PatchTakerConfirmed, Row
  <2>5. CASE PatchMakerConfirmed(u, p)
    BY <2>5 DEF PatchMakerConfirmed, Row
  <2> QED BY <1>4, <2>1, <2>2, <2>3, <2>4, <2>5
<1>5. ASSUME NEW p \in OfferIds, TimePasses(p) \/ AutoConfirm(p)
      PROVE  row[o].status \in {"released", "cancelled"}
  BY <1>5 DEF TimePasses, TakerWindowEnds, MakerWindowEnds, MakerStaysSilent, AutoConfirm, Row
<1>6. ASSUME NEW u \in Users, NEW p \in OfferIds,
             \/ \E amount \in Amounts : CreateMined(u, p, amount)
             \/ \E op \in Ops : \/ Click(op, u, p) \/ CallMined(op, u, p)
                               \/ CallFailed(op, u, p) \/ Decline(op, u, p)
             \/ PatchAcceptedError(u, p)
             \/ PostMessage(u, p)
      PROVE  row' = row
  BY <1>6 DEF CreateMined, Click, CallMined, CallFailed, Decline, PatchAcceptedError, PostMessage
<1>7. ASSUME \/ \E f \in web : FlowLost(f)
             \/ \E job \in Jobs : \/ Select(job)
                                  \/ \E p \in OfferIds : Broadcast(job, p) \/ DeleteChat(job, p)
             \/ ApiStops
             \/ ChainNext
      PROVE  row' = row
  BY <1>7 DEF FlowLost, Select, Broadcast, DeleteChat, ApiStops, ChainNext, Mine, TxDropped
<1> QED
  BY <1>1, <1>2, <1>3, <1>4, <1>5, <1>6, <1>7 DEF Next, BrowserNext, WatcherNext

(* A task reads sent once its transaction is in the mempool. *)
LEMMA SentIsBroadcast ==
  ASSUME TradeInv, Next, NEW t \in picked' \ picked, t.step = "sent"
  PROVE  UnderWay(t.id)'
<1> USE DEF TradeInv, TradeTypeOK
<1>1. ASSUME NEW job \in Jobs, NEW o \in OfferIds, Broadcast(job, o) PROVE UnderWay(t.id)'
  <2>1. t = Task(job, o, "sent") /\ Tx(CallOf(job), o) \in mempool'
    BY <1>1 DEF Broadcast
  <2>2. t.id = o /\ Tx(CallOf(job), o).id = o
    BY <2>1 DEF Task, Tx
  <2> QED BY <2>1, <2>2 DEF UnderWay
<1>2. ASSUME NEW job \in Jobs, Select(job) PROVE FALSE
  BY <1>2 DEF Select, Task
<1>3. ASSUME NEW job \in Jobs, NEW o \in OfferIds, Record(job, o) PROVE FALSE
  BY <1>3 DEF Record, Task
<1>4. ASSUME \/ \E job \in Jobs, o \in OfferIds : DeleteChat(job, o)
             \/ \E o \in OfferIds : AutoConfirm(o) \/ TimePasses(o)
             \/ ApiStops
             \/ ChainNext
      PROVE  FALSE
  BY <1>4 DEF DeleteChat, AutoConfirm, TimePasses, TakerWindowEnds, MakerWindowEnds,
     MakerStaysSilent, ApiStops, ChainNext, Mine, TxDropped
<1>5. ASSUME BrowserNext \/ \E f \in web : FlowLost(f) PROVE FALSE
  BY <1>5, BrowserFrame DEF FlowLost
<1> QED BY <1>1, <1>2, <1>3, <1>4, <1>5 DEF Next, WatcherNext

(* The maker's flow goes on only from a cancellation that was mined. *)
LEMMA CancelIsMined ==
  ASSUME TradeInv, Next, NEW f \in web' \ web, f.op = "cancel", f.step = "mined"
  PROVE  Settled(f.id)'
<1> USE DEF TradeInv, TradeTypeOK
<1>1. ASSUME NEW u \in Users, NEW o \in OfferIds, NEW op \in Ops, CallMined(op, u, o)
      PROVE  Settled(f.id)'
  <2>1. f = Flow(op, u, o, "mined")
    BY <1>1 DEF CallMined
  <2>2. f.id = o /\ op = "cancel"
    BY <2>1 DEF Flow
  <2>3. makerCancelOffer(u, o)
    BY <1>1, <2>2 DEF CallMined, Call
  <2>4. offers'[o].status = "Cancelled"
    BY <2>3 DEF makerCancelOffer, Refund, VaultTypeOK
  <2> QED BY <2>2, <2>4 DEF Settled
<1>2. ASSUME NEW u \in Users, NEW o \in OfferIds,
             \/ \E amount \in Amounts : CreateMined(u, o, amount)
             \/ \E op \in Ops : Click(op, u, o)
             \/ PatchAccepted(u, o) \/ PatchAcceptedError(u, o)
      PROVE  FALSE
  BY <1>2 DEF CreateMined, Click, PatchAccepted, PatchAcceptedError, Flow
<1>3. ASSUME NEW u \in Users, NEW o \in OfferIds,
             \/ \E op \in Ops : CallFailed(op, u, o) \/ Decline(op, u, o)
             \/ PostOffer(u, o) \/ PatchAcceptAgain(u, o)
             \/ PatchTakerConfirmed(u, o) \/ PatchMakerConfirmed(u, o)
             \/ PatchCancelled(u, o) \/ PostMessage(u, o)
      PROVE  FALSE
  BY <1>3 DEF CallFailed, Decline, PostOffer, PatchAcceptAgain, PatchTakerConfirmed,
     PatchMakerConfirmed, PatchCancelled, PostMessage
<1>4. ASSUME (\E g \in web : FlowLost(g)) \/ (\E o \in OfferIds : TimePasses(o))
      PROVE  FALSE
  BY <1>4 DEF FlowLost, TimePasses, TakerWindowEnds, MakerWindowEnds, MakerStaysSilent
<1>5. ASSUME WatcherNext \/ ChainNext PROVE FALSE
  BY <1>5 DEF WatcherNext, Select, Broadcast, Record, DeleteChat, AutoConfirm, ApiStops,
     ChainNext, Mine, TxDropped
<1> QED BY <1>1, <1>2, <1>3, <1>4, <1>5 DEF Next, BrowserNext

(* The contract knows whom it accepted. *)
LEMMA AcceptedHasTaker ==
  ASSUME TradeInv, ChainGrows, Next,
         \A p \in OfferIds : offers[p].status = "Accepted" => offers[p].taker # NoAddress,
         NEW o \in OfferIds, offers'[o].status = "Accepted"
  PROVE  offers'[o].taker # NoAddress
<1> USE DEF TradeInv
<1>1. CASE UNCHANGED vaultVars
  BY <1>1 DEF vaultVars
<1>2. ASSUME NEW u \in Users, NEW p \in OfferIds, PipelineCall(u, p)
      PROVE  offers'[o].taker # NoAddress
  <2>1. CASE offers[o].status = "Accepted"
    BY <2>1 DEF ChainGrows
  <2>2. CASE offers[o].status # "Accepted"
    <3>1. ASSUME \E amount \in Amounts : createP2POffer(u, p, amount)
          PROVE  FALSE
      BY <2>2, <3>1 DEF createP2POffer, ZeroOffer, VaultTypeOK
    <3>2. ASSUME takerConfirm(u, p) \/ makerConfirm(u, p)
          PROVE  FALSE
      BY <2>2, <3>2 DEF takerConfirm, makerConfirm, VaultTypeOK, P2POffer
    <3>3. ASSUME makerCancelOffer(u, p) \/ cancelP2POffer(p) \/ releaseP2POffer(p)
          PROVE  FALSE
      BY <2>2, <3>3 DEF makerCancelOffer, cancelP2POffer, releaseP2POffer, Refund, VaultTypeOK,
         P2POffer
    <3>4. acceptP2POffer(u, p)
      BY <1>2, <3>1, <3>2, <3>3 DEF PipelineCall
    <3>5. p = o
      BY <2>2, <3>4 DEF acceptP2POffer, VaultTypeOK
    <3> QED BY <3>4, <3>5, VaultAssumption DEF acceptP2POffer, VaultTypeOK, P2POffer, Accounts
  <2> QED BY <2>1, <2>2
<1> QED BY <1>1, <1>2, CallsOfStep

LEMMA ReachStep == TradeInv /\ ReachInv /\ [Next]_vars => ReachInv'
<1>1. ASSUME TradeInv, ReachInv, Next PROVE ReachInv'
  <2> USE DEF ReachInv
  <2>1. ChainFacts' /\ ChainGrows
    BY <1>1, ChainStepOfNext
  <2>2. Onward
    BY <1>1, <2>1, OnwardStep
  <2>3. ClocksRun' /\ ReleasesPay'
    BY <1>1, <2>2, ClocksStep, ReleasesStep
  <2>4. \A o \in OfferIds : row'[o].status \in {"released", "cancelled"} => UnderWay(o)'
    BY <1>1, EndsWritten, UnderWayStays
  <2>5. \A o \in OfferIds : offers'[o].status = "Accepted" => offers'[o].taker # NoAddress
    BY <1>1, <2>1, AcceptedHasTaker DEF EndsKnown
  <2>6. ASSUME NEW t \in picked', t.step = "sent" PROVE UnderWay(t.id)'
    <3>1. CASE t \in picked
      <4>1. t.id \in OfferIds
        BY <1>1, <3>1 DEF TradeInv, TradeTypeOK, Tasks
      <4>2. UnderWay(t.id)
        BY <1>1, <2>6, <3>1 DEF EndsKnown
      <4> QED BY <1>1, <4>1, <4>2, UnderWayStays
    <3> QED BY <1>1, <2>6, <3>1, SentIsBroadcast
  <2>7. ASSUME NEW f \in web', f.op = "cancel", f.step = "mined" PROVE Settled(f.id)'
    <3>1. CASE f \in web
      <4>1. f.id \in OfferIds /\ Settled(f.id)
        BY <1>1, <2>7, <3>1 DEF EndsKnown, TradeInv, TradeTypeOK, Flows
      <4> QED BY <1>1, <4>1, TradeSettlesOnce DEF SettledForGood, Settled
    <3> QED BY <1>1, <2>7, <3>1, CancelIsMined
  <2>8. EndsKnown'
    BY <2>4, <2>5, <2>6, <2>7 DEF EndsKnown
  <2> QED BY <2>3, <2>8
<1>2. ASSUME ReachInv, UNCHANGED vars PROVE ReachInv'
  BY <1>2 DEF ReachInv, ClocksRun, ReleasesPay, EndsKnown, UnderWay, Settled, vars, vaultVars,
     tradeVars
<1> QED BY <1>1, <1>2

(* A trade on record is never out of reach: recorded as accepted, it has a *)
(* window running or a job that will select it, and the release that job   *)
(* makes cannot fail before the escrow has left; recorded as finished, its *)
(* escrow has left or a transaction for it is in the mempool.  What        *)
(* RecordedTradeSettles needs of every state, and like it except for a     *)
(* dropped transaction.                                                    *)
THEOREM TradeStaysInReach == Spec => []TradeInReach
<1>1. Init => ReachInv
  BY DEF Init, VaultInit, TradeInit, ZeroOffer, NoRow, ReachInv, ClocksRun, ReleasesPay, EndsKnown
<1>2. ASSUME TradeInv, ReachInv, NEW o \in OfferIds, row[o].status = "accepted"
      PROVE  /\ CanRelease(o) \/ Settled(o)
             /\ \/ row[o].takerDue = "running"
                \/ row[o].makerDue \in {"running", "over"}
                \/ o \in BothConfirmed \cup TakerTimedOut \cup MakerTimedOut
  <2>1. row[o] \in Row /\ offers[o] \in P2POffer
    BY <1>2 DEF TradeInv, TradeTypeOK, VaultTypeOK
  <2>2. row[o].takerDue # "unset"
    BY <1>2 DEF ReachInv, ClocksRun
  <2>3. offers[o].status # "Open"
    BY <1>2, <2>2 DEF TradeInv, RowFacts, ChainFacts
  <2>4. CanRelease(o) \/ Settled(o)
    BY <1>2, <2>1, <2>3 DEF ReachInv, EndsKnown, CanRelease, Settled, P2POffer, OfferStatus
  <2>5. ASSUME row[o].takerConfirmed
        PROVE  \/ row[o].makerDue \in {"running", "over"}
               \/ o \in BothConfirmed \cup MakerTimedOut
    BY <1>2, <2>1, <2>5 DEF ReachInv, ClocksRun, BothConfirmed, MakerTimedOut, Row
  <2>6. ASSUME ~row[o].takerConfirmed
        PROVE  row[o].takerDue = "running" \/ o \in TakerTimedOut
    BY <1>2, <2>1, <2>2, <2>6 DEF TakerTimedOut, Row
  <2> QED BY <2>4, <2>5, <2>6
<1>3. TradeInv /\ ReachInv => TradeInReach
  BY <1>2 DEF TradeInReach, ReachInv, EndsKnown
<1> QED BY <1>1, <1>3, ReachStep, InvHolds, PTL DEF Spec

-----------------------------------------------------------------------------
(* On what grounds the escrow is where it is, seen afterwards: a ground of *)
(* a settlement is not taken back once the settlement is made.             *)

(* A released offer was payable, a cancelled one that was taken had lapsed. *)
SettledOnGrounds ==
  \A o \in OfferIds :
    /\ offers[o].status = "Released" => Payable(o)
    /\ offers[o].status = "Cancelled" /\ offers[o].taker # NoAddress => Lapsed(o)

(* A call of a browser settles an offer nobody took, or none. *)
LEMMA BrowserSettlesUntaken ==
  ASSUME TradeInv, NEW u \in Users, NEW p \in OfferIds, NEW op \in Ops, Call(op, u, p),
         NEW o \in OfferIds, offers'[o] # offers[o]
  PROVE  /\ offers'[o].status # "Released"
         /\ offers'[o].status = "Cancelled" => offers'[o].taker = NoAddress
<1> USE DEF TradeInv
<1>1. CASE acceptP2POffer(u, p)
  BY <1>1 DEF acceptP2POffer, VaultTypeOK, P2POffer
<1>2. CASE takerConfirm(u, p)
  BY <1>2 DEF takerConfirm, VaultTypeOK, P2POffer
<1>3. CASE makerConfirm(u, p)
  BY <1>3 DEF makerConfirm, VaultTypeOK, P2POffer
<1>4. CASE makerCancelOffer(u, p)
  BY <1>4 DEF makerCancelOffer, Refund, ChainFacts, VaultTypeOK, P2POffer
<1> QED BY <1>1, <1>2, <1>3, <1>4 DEF Call

LEMMA GroundsOfStep ==
  ASSUME TradeInv, Onward, SettledOnGrounds, Next
  PROVE  SettledOnGrounds'
<1> USE DEF TradeInv
<1>1. ASSUME NEW o \in OfferIds, offers'[o] = offers[o]
      PROVE  /\ offers'[o].status = "Released" => Payable(o)'
             /\ offers'[o].status = "Cancelled" /\ offers'[o].taker # NoAddress => Lapsed(o)'
  BY <1>1 DEF SettledOnGrounds, Onward
<1>2. ASSUME NEW o \in OfferIds, offers'[o] # offers[o]
      PROVE  /\ offers'[o].status = "Released" => Payable(o)'
             /\ offers'[o].status = "Cancelled" /\ offers'[o].taker # NoAddress => Lapsed(o)'
  <2>1. ASSUME NEW u \in Users, NEW p \in OfferIds, NEW amount \in Amounts,
               CreateMined(u, p, amount)
        PROVE  offers'[o].status = "Open"
    BY <1>2, <2>1 DEF CreateMined, createP2POffer, ZeroOffer, VaultTypeOK
  <2>2. ASSUME NEW u \in Users, NEW p \in OfferIds, NEW op \in Ops, CallMined(op, u, p)
        PROVE  /\ offers'[o].status # "Released"
               /\ offers'[o].status = "Cancelled" => offers'[o].taker = NoAddress
    BY <1>2, <2>2, BrowserSettlesUntaken DEF CallMined
  <2>3. ASSUME NEW call \in {"release", "cancel"}, NEW p \in OfferIds, Mine(call, p)
        PROVE  /\ offers'[o].status = "Released" => Payable(o)'
               /\ offers'[o].status = "Cancelled" => Lapsed(o)'
    <3>1. /\ call = "release" => Payable(p)'
          /\ call = "cancel" => Lapsed(p)'
      BY <2>3 DEF Mine, TxFacts, Tx, Onward
    <3>2. CASE call = "release" /\ releaseP2POffer(p)
      BY <1>2, <3>1, <3>2 DEF releaseP2POffer, VaultTypeOK, P2POffer
    <3>3. CASE call = "cancel" /\ cancelP2POffer(p)
      BY <1>2, <3>1, <3>3 DEF cancelP2POffer, Refund, VaultTypeOK, P2POffer
    <3>4. CASE UNCHANGED vaultVars
      BY <1>2, <3>4 DEF vaultVars
    <3> QED BY <2>3, <3>2, <3>3, <3>4 DEF Mine
  <2>4. ASSUME NEW u \in Users, NEW p \in OfferIds,
               \/ \E op \in Ops : Click(op, u, p) \/ CallFailed(op, u, p) \/ Decline(op, u, p)
               \/ PostOffer(u, p)
               \/ PatchAccepted(u, p) \/ PatchAcceptedError(u, p) \/ PatchAcceptAgain(u, p)
               \/ PatchTakerConfirmed(u, p) \/ PatchMakerConfirmed(u, p)
               \/ PatchCancelled(u, p) \/ PostMessage(u, p)
        PROVE  FALSE
    BY <1>2, <2>4 DEF Click, CallFailed, Decline, PostOffer, PatchAccepted, PatchAcceptedError,
       PatchAcceptAgain, PatchTakerConfirmed, PatchMakerConfirmed, PatchCancelled, PostMessage,
       vaultVars
  <2>5. ASSUME \/ \E f \in web : FlowLost(f)
               \/ \E p \in OfferIds : TimePasses(p)
               \/ WatcherNext
               \/ \E call \in {"release", "cancel"}, p \in OfferIds : TxDropped(call, p)
        PROVE  FALSE
    BY <1>2, <2>5 DEF FlowLost, TimePasses, TakerWindowEnds, MakerWindowEnds, MakerStaysSilent,
       WatcherNext, Select, Broadcast, Record, DeleteChat, AutoConfirm, ApiStops, TxDropped,
       vaultVars
  <2> QED BY <2>1, <2>2, <2>3, <2>4, <2>5 DEF Next, BrowserNext, ChainNext
<1> QED BY <1>1, <1>2 DEF SettledOnGrounds

(* Where the escrow went has its ground still: a taker who was paid had    *)
(* confirmed on chain, and one whose confirmation was recorded in time     *)
(* never finds the escrow gone back to the maker, unless an admin decided; *)
(* however late the PATCH, however stale the SELECT that refunded.         *)
THEOREM GroundsAreKept == CourtSpec => []SettledOnGrounds
<1>1. CourtInit => SettledOnGrounds
  BY DEF CourtInit, Init, VaultInit, ZeroOffer, SettledOnGrounds
<1>2. ASSUME CourtInv, SettledOnGrounds, TradeNext PROVE SettledOnGrounds'
  <2>1. Onward
    BY <1>2, ChainStepOfNext, OnwardStep DEF CourtInv, TradeNext
  <2> QED BY <1>2, <2>1, GroundsOfStep DEF CourtInv, TradeNext
<1>3. ASSUME CourtInv, SettledOnGrounds, CourtNext PROVE SettledOnGrounds'
  <2>1. CourtOnward
    BY <1>3, CourtOnwardStep DEF CourtInv, TradeInv
  <2>2. Onward
    BY <1>3, <2>1, CourtKeepsHands DEF CourtInv
  <2> QED BY <1>3, <2>1, <2>2 DEF SettledOnGrounds, CourtOnward, Onward
<1>4. ASSUME SettledOnGrounds, UNCHANGED allVars PROVE SettledOnGrounds'
  BY <1>4 DEF SettledOnGrounds, Payable, Lapsed, allVars, vars, vaultVars, tradeVars
<1>5. CourtInv /\ SettledOnGrounds /\ [TradeNext \/ CourtNext]_allVars => SettledOnGrounds'
  BY <1>2, <1>3, <1>4
<1> QED BY <1>1, <1>5, CourtInvHolds, PTL DEF CourtSpec

=============================================================================
