------------------------------ MODULE P2PTrade ------------------------------
(***************************************************************************)
(* A P2P trade end to end: the escrow contract (Vault), the p2p_offers     *)
(* table behind routes/offers.ts, the browsers of maker and taker          *)
(* (hooks/useP2P.ts and the marketplace pages), the release watcher        *)
(* (jobs/p2pReleaseWatcher.ts) and the platform wallet, whose transactions *)
(* are broadcast first and mined later.                                    *)
(*                                                                         *)
(* The chain and the database are written by different calls, so a browser *)
(* or the API can stop between the two: `web` holds the browser flows that *)
(* are under way, `picked` the watcher's rows that were SELECTed and not   *)
(* yet dealt with, `mempool` the platform's unmined transactions.          *)
(* setInterval starts a run while the previous one still awaits, so rows   *)
(* of several runs are dealt with in any order.  Emails are left out.      *)
(***************************************************************************)
EXTENDS Vault

CONSTANTS
  Jobs,         \* the watcher's jobs an instance runs
  Limit,        \* LIMIT of the SELECTs of Job1..Job3 (5 in the code)
  ChatLimit,    \* LIMIT of Job4's SELECT (20 in the code)
  Makers,       \* users who post offers
  Chatters,     \* users who write in the trade chat
  MaxFaults,    \* bound: requests lost and API stops
  MaxDrops      \* bound: broadcast transactions that are never mined

ASSUME P2PAssumption ==
  /\ Jobs \subseteq {"Job1", "Job2", "Job3", "Job4"}
  /\ Limit \in Nat \ {0}
  /\ ChatLimit \in Nat \ {0}
  /\ Makers \subseteq Users
  /\ Chatters \subseteq Users
  /\ MaxFaults \in Nat
  /\ MaxDrops \in Nat

VARIABLES
  row,        \* p2p_offers
  chat,       \* offers that have rows in messages
  web,        \* browser flows under way
  picked,     \* rows a watcher job selected
  mempool,    \* platform transactions broadcast and not mined
  grounds,    \* history: what happened in the world, per offer
  faults,     \* history: faults so far
  drops       \* history: transactions dropped so far

tradeVars == <<row, chat, web, picked, mempool, grounds, faults, drops>>
vars == <<vaultVars, tradeVars>>

Row == [status: {"none", "open", "accepted", "released", "cancelled"},
        taker: Users \cup {NoAddress},
        takerConfirmed: BOOLEAN, makerConfirmed: BOOLEAN,
        disputeRaised: BOOLEAN,
        takerDue: {"unset", "running", "over"},
        makerDue: {"unset", "running", "over", "silent"}]

NoRow == [status |-> "none", taker |-> NoAddress,
          takerConfirmed |-> FALSE, makerConfirmed |-> FALSE,
          disputeRaised |-> FALSE, takerDue |-> "unset", makerDue |-> "unset"]

Ops == {"create", "accept", "takerConfirm", "makerConfirm", "cancel"}

Flow(op, u, o, step) == [op |-> op, who |-> u, id |-> o, step |-> step]
Flows == [op: Ops, who: Users, id: OfferIds, step: {"clicked", "mined", "patched"}]

Task(job, o, step) == [job |-> job, id |-> o, step |-> step]
Tasks == [job: Jobs, id: OfferIds, step: {"selected", "sent", "recorded"}]

Tx(call, o) == [call |-> call, id |-> o]
Txs == [call: {"release", "cancel"}, id: OfferIds]

Events == {"takerLate", "makerSilent", "paidInTime", "forced", "verdict",
           "disputed", "payInHand", "refundInHand"}

TradeTypeOK ==
  /\ row \in [OfferIds -> Row]
  /\ chat \subseteq OfferIds
  /\ web \subseteq Flows
  /\ picked \subseteq Tasks
  /\ mempool \subseteq Txs
  /\ grounds \in [OfferIds -> SUBSET Events]
  /\ faults \in 0 .. MaxFaults
  /\ drops \in 0 .. MaxDrops

TradeInit ==
  /\ row = [o \in OfferIds |-> NoRow]
  /\ chat = {}
  /\ web = {}
  /\ picked = {}
  /\ mempool = {}
  /\ grounds = [o \in OfferIds |-> {}]
  /\ faults = 0
  /\ drops = 0

Init == VaultInit /\ TradeInit

Witnessed(o, e) == grounds' = [grounds EXCEPT ![o] = @ \cup {e}]

-----------------------------------------------------------------------------
(* The browser.  A click checks the page's buttons against the row; the    *)
(* transaction is mined later, or reverts; then the API call is sent.      *)
(* createOffer learns the id from the receipt, so its flow starts mined.   *)
(* Ids are taken to be fresh here (no identical offer in the same block).  *)

CreateMined(u, o, amount) ==
  /\ offers[o] = ZeroOffer
  /\ createP2POffer(u, o, amount)
  /\ web' = web \cup {Flow("create", u, o, "mined")}
  /\ UNCHANGED <<row, chat, picked, mempool, grounds, faults, drops>>

CanClick(op, u, o) ==
  CASE op = "accept" -> row[o].status = "open" /\ offers[o].maker # u
    [] op = "takerConfirm" ->
         row[o].status = "accepted" /\ row[o].taker = u /\ ~row[o].takerConfirmed
    [] op = "makerConfirm" ->
         /\ row[o].status = "accepted" /\ offers[o].maker = u
         /\ row[o].takerConfirmed /\ ~row[o].makerConfirmed
         /\ ~row[o].disputeRaised
    [] op = "cancel" -> row[o].status = "open" /\ offers[o].maker = u
    [] OTHER -> FALSE

Click(op, u, o) ==
  /\ CanClick(op, u, o)
  /\ ~\E f \in web : f.who = u /\ f.id = o
  /\ web' = web \cup {Flow(op, u, o, "clicked")}
  /\ UNCHANGED <<vaultVars, row, chat, picked, mempool, grounds, faults, drops>>

(* The contract call of a flow, as it executes when its block is built. *)
Call(op, u, o) ==
  \/ op = "accept" /\ acceptP2POffer(u, o)
  \/ op = "takerConfirm" /\ takerConfirm(u, o)
  \/ op = "makerConfirm" /\ makerConfirm(u, o)
  \/ op = "cancel" /\ makerCancelOffer(u, o)

CallReverts(op, u, o) ==
  CASE op = "accept" -> offers[o].status # "Open" \/ offers[o].maker = u
    [] op = "takerConfirm" -> offers[o].status # "Accepted" \/ offers[o].taker # u
    [] op = "makerConfirm" -> offers[o].status # "Accepted" \/ offers[o].maker # u
    [] op = "cancel" -> offers[o].status # "Open" \/ offers[o].maker # u
    [] OTHER -> FALSE

CallMined(op, u, o) ==
  /\ Flow(op, u, o, "clicked") \in web
  /\ Call(op, u, o)
  /\ web' = (web \ {Flow(op, u, o, "clicked")}) \cup {Flow(op, u, o, "mined")}
  /\ UNCHANGED <<row, chat, picked, mempool, grounds, faults, drops>>

CallFailedUnnoticed(op, u, o) ==
  /\ Flow(op, u, o, "clicked") \in web
  /\ CallReverts(op, u, o)
  /\ web' = (web \ {Flow(op, u, o, "clicked")}) \cup {Flow(op, u, o, "mined")}
  /\ UNCHANGED <<vaultVars, row, chat, picked, mempool, grounds, faults, drops>>

(* confirmedOnChain is false: the flow ends and the API is not told. *)
CallFailed(op, u, o) ==
  /\ Flow(op, u, o, "clicked") \in web
  /\ CallReverts(op, u, o)
  /\ web' = web \ {Flow(op, u, o, "clicked")}
  /\ UNCHANGED <<vaultVars, row, chat, picked, mempool, grounds, faults, drops>>

(* POST /offers: INSERT OR IGNORE. *)
PostOffer(u, o) ==
  /\ Flow("create", u, o, "mined") \in web
  /\ row' = [row EXCEPT ![o] = IF @.status = "none" THEN [NoRow EXCEPT !.status = "open"]
                               ELSE @]
  /\ web' = web \ {Flow("create", u, o, "mined")}
  /\ UNCHANGED <<vaultVars, chat, picked, mempool, grounds, faults, drops>>

Taken(r, u) == [r EXCEPT !.status = "accepted", !.taker = u, !.takerDue = "running"]

(* PATCH /offers/:id as acceptOffer sends it; it does not look at the      *)
(* row's current status.  The page then calls PATCH /offers/:id/accept.    *)
PatchAccepted(u, o) ==
  /\ Flow("accept", u, o, "mined") \in web
  /\ row' = [row EXCEPT ![o] = Taken(@, u)]
  /\ web' = (web \ {Flow("accept", u, o, "mined")}) \cup {Flow("accept", u, o, "patched")}
  /\ UNCHANGED <<vaultVars, chat, picked, mempool, grounds, faults, drops>>

(* The PATCH is answered with a 500: fetch does not throw and the page goes on. *)
PatchAcceptedError(u, o) ==
  /\ faults < MaxFaults
  /\ Flow("accept", u, o, "mined") \in web
  /\ web' = (web \ {Flow("accept", u, o, "mined")}) \cup {Flow("accept", u, o, "patched")}
  /\ faults' = faults + 1
  /\ UNCHANGED <<vaultVars, row, chat, picked, mempool, grounds, drops>>

(* PATCH /offers/:id/accept, guarded by status = 'open'. *)
PatchAcceptAgain(u, o) ==
  /\ Flow("accept", u, o, "patched") \in web
  /\ row' = [row EXCEPT ![o] = IF @.status = "open" THEN Taken(@, u) ELSE @]
  /\ web' = web \ {Flow("accept", u, o, "patched")}
  /\ UNCHANGED <<vaultVars, chat, picked, mempool, grounds, faults, drops>>

PatchTakerConfirmedNoDeadline(u, o) ==
  /\ Flow("takerConfirm", u, o, "mined") \in web
  /\ row' = [row EXCEPT ![o].takerConfirmed = TRUE]
  /\ Witnessed(o, "paidInTime")
  /\ web' = web \ {Flow("takerConfirm", u, o, "mined")}
  /\ UNCHANGED <<vaultVars, chat, picked, mempool, faults, drops>>

PatchTakerConfirmed(u, o) ==
  /\ Flow("takerConfirm", u, o, "mined") \in web
  /\ row' = [row EXCEPT ![o] = [@ EXCEPT !.takerConfirmed = TRUE, !.makerDue = "running"]]
  /\ grounds' = IF row[o].takerDue = "running"
                THEN [grounds EXCEPT ![o] = @ \cup {"paidInTime"}] ELSE grounds
  /\ web' = web \ {Flow("takerConfirm", u, o, "mined")}
  /\ UNCHANGED <<vaultVars, chat, picked, mempool, faults, drops>>

PatchMakerConfirmed(u, o) ==
  /\ Flow("makerConfirm", u, o, "mined") \in web
  /\ row' = [row EXCEPT ![o].makerConfirmed = TRUE]
  /\ web' = web \ {Flow("makerConfirm", u, o, "mined")}
  /\ UNCHANGED <<vaultVars, chat, picked, mempool, grounds, faults, drops>>

PatchCancelled(u, o) ==
  /\ Flow("cancel", u, o, "mined") \in web
  /\ row' = [row EXCEPT ![o].status = "cancelled"]
  /\ web' = web \ {Flow("cancel", u, o, "mined")}
  /\ UNCHANGED <<vaultVars, chat, picked, mempool, grounds, faults, drops>>

(* The user declines the signature: nothing was sent. *)
Decline(op, u, o) ==
  /\ Flow(op, u, o, "clicked") \in web
  /\ web' = web \ {Flow(op, u, o, "clicked")}
  /\ UNCHANGED <<vaultVars, row, chat, picked, mempool, grounds, faults, drops>>

(* The tab is closed, the hash never surfaces, or the API call is lost:    *)
(* mined on chain and never recorded.                                      *)
FlowLost(f) ==
  /\ faults < MaxFaults
  /\ f \in web
  /\ f.step # "clicked"
  /\ web' = web \ {f}
  /\ faults' = faults + 1
  /\ UNCHANGED <<vaultVars, row, chat, picked, mempool, grounds, drops>>

(* POST /chat/:offerId looks at who writes, not at the row's status; the    *)
(* page shows the chat once there is a taker, and a page loaded during the  *)
(* trade still posts after it.                                              *)
PostMessage(u, o) ==
  /\ row[o].taker # NoAddress
  /\ u \in {offers[o].maker, row[o].taker}
  /\ chat' = chat \cup {o}
  /\ UNCHANGED <<vaultVars, row, web, picked, mempool, grounds, faults, drops>>

BrowserNext ==
  \E u \in Users, o \in OfferIds :
    \/ u \in Makers /\ \E amount \in Amounts : CreateMined(u, o, amount)
    \/ \E op \in Ops :
         Click(op, u, o) \/ CallMined(op, u, o) \/ CallFailed(op, u, o) \/ Decline(op, u, o)
    \/ PostOffer(u, o)
    \/ PatchAccepted(u, o) \/ PatchAcceptedError(u, o) \/ PatchAcceptAgain(u, o)
    \/ PatchTakerConfirmed(u, o)
    \/ PatchMakerConfirmed(u, o)
    \/ PatchCancelled(u, o)
    \/ u \in Chatters /\ PostMessage(u, o)

-----------------------------------------------------------------------------
(* Time.  Deadlines are stored when a PATCH sets them and only compared    *)
(* with the clock, so it is enough to know which have passed.              *)

TakerWindowEnds(o) ==
  /\ row[o].takerDue = "running"
  /\ row' = [row EXCEPT ![o].takerDue = "over"]
  /\ Witnessed(o, "takerLate")
  /\ UNCHANGED <<vaultVars, chat, web, picked, mempool, faults, drops>>

MakerWindowEnds(o) ==
  /\ row[o].makerDue = "running"
  /\ row' = [row EXCEPT ![o].makerDue = "over"]
  /\ UNCHANGED <<vaultVars, chat, web, picked, mempool, grounds, faults, drops>>

(* Another 24 hours. *)
MakerStaysSilent(o) ==
  /\ row[o].makerDue = "over"
  /\ row' = [row EXCEPT ![o].makerDue = "silent"]
  /\ Witnessed(o, "makerSilent")
  /\ UNCHANGED <<vaultVars, chat, web, picked, mempool, faults, drops>>

TimePasses(o) == TakerWindowEnds(o) \/ MakerWindowEnds(o) \/ MakerStaysSilent(o)

-----------------------------------------------------------------------------
(* The watcher. *)

(* The WHERE clauses of the four jobs. *)
BothConfirmedInTime == {o \in OfferIds :
  /\ row[o].status = "accepted" /\ row[o].makerConfirmed /\ row[o].takerConfirmed
  /\ row[o].makerDue = "running"}

BothConfirmed == {o \in OfferIds :
  row[o].status = "accepted" /\ row[o].makerConfirmed /\ row[o].takerConfirmed}

TakerTimedOutUnchecked == {o \in OfferIds :
  row[o].status = "accepted" /\ row[o].takerDue = "over"}

TakerTimedOut == {o \in OfferIds :
  row[o].status = "accepted" /\ ~row[o].takerConfirmed /\ row[o].takerDue = "over"}

MakerTimedOutDisputed == {o \in OfferIds :
  /\ row[o].status = "accepted" /\ row[o].takerConfirmed /\ ~row[o].makerConfirmed
  /\ row[o].makerDue = "silent"}

MakerTimedOut == {o \in OfferIds :
  /\ row[o].status = "accepted" /\ row[o].takerConfirmed /\ ~row[o].makerConfirmed
  /\ ~row[o].disputeRaised
  /\ row[o].makerDue = "silent"}

FinishedReleased == {o \in OfferIds : row[o].status = "released"}

Finished == {o \in OfferIds : row[o].status \in {"released", "cancelled"}}

Wanted(job) ==
  CASE job = "Job1" -> BothConfirmed
    [] job = "Job2" -> TakerTimedOut
    [] job = "Job3" -> MakerTimedOut
    [] job = "Job4" -> Finished

(* SELECT ... LIMIT n without ORDER BY: some n of the matching rows. *)
Batches(S, n) ==
  {B \in SUBSET S : B # {} /\ (Cardinality(B) = n \/ (B = S /\ Cardinality(S) <= n))}

Select(job) ==
  /\ \E B \in Batches(Wanted(job), IF job = "Job4" THEN ChatLimit ELSE Limit) :
       picked' = picked \cup {Task(job, o, "selected") : o \in B}
  /\ UNCHANGED <<vaultVars, row, chat, web, mempool, grounds, faults, drops>>

(* writeContract estimates gas on the current state, so it throws when the *)
(* call would revert now; otherwise it returns once the transaction is     *)
(* broadcast, not when it is mined.                                        *)
Estimate(call, o) == IF call = "release" THEN CanRelease(o) ELSE CanCancel(o)

CallOf(job) == IF job = "Job1" THEN "release" ELSE "cancel"

Broadcast(job, o) ==
  /\ job \in {"Job1", "Job2"}
  /\ Task(job, o, "selected") \in picked
  /\ IF Estimate(CallOf(job), o)
     THEN /\ mempool' = mempool \cup {Tx(CallOf(job), o)}
          /\ picked' = (picked \ {Task(job, o, "selected")}) \cup {Task(job, o, "sent")}
     ELSE /\ picked' = picked \ {Task(job, o, "selected")}
          /\ UNCHANGED mempool
  /\ UNCHANGED <<vaultVars, row, chat, web, grounds, faults, drops>>

RecordCompleted(job, o) ==
  /\ job \in {"Job1", "Job2"}
  /\ Task(job, o, "sent") \in picked
  /\ row' = [row EXCEPT ![o].status = "completed"]
  /\ picked' = picked \ {Task(job, o, "sent")}
  /\ UNCHANGED <<vaultVars, chat, web, mempool, grounds, faults, drops>>

(* releaseOffer and cancelOffer update the row on the hash alone; a release *)
(* then deletes the chat.                                                   *)
Record(job, o) ==
  /\ job \in {"Job1", "Job2"}
  /\ Task(job, o, "sent") \in picked
  /\ row' = [row EXCEPT ![o].status = IF job = "Job1" THEN "released" ELSE "cancelled"]
  /\ picked' = (picked \ {Task(job, o, "sent")}) \cup
                 (IF job = "Job1" THEN {Task(job, o, "recorded")} ELSE {})
  /\ UNCHANGED <<vaultVars, chat, web, mempool, grounds, faults, drops>>

(* Job3 confirms on the maker's behalf; the UPDATE re-checks nothing. *)
AutoConfirm(o) ==
  /\ Task("Job3", o, "selected") \in picked
  /\ row' = [row EXCEPT ![o].makerConfirmed = TRUE]
  /\ picked' = picked \ {Task("Job3", o, "selected")}
  /\ UNCHANGED <<vaultVars, chat, web, mempool, grounds, faults, drops>>

DeleteChat(job, o) ==
  \E task \in {Task("Job1", o, "recorded"), Task("Job4", o, "selected")} \cap picked :
    /\ job = task.job
    /\ chat' = chat \ {o}
    /\ picked' = picked \ {task}
    /\ UNCHANGED <<vaultVars, row, web, mempool, grounds, faults, drops>>

(* An RPC or database error ends one offer's turn; a restart ends them all. *)
ApiStops ==
  /\ faults < MaxFaults
  /\ \E lost \in SUBSET picked \ {{}} : picked' = picked \ lost
  /\ faults' = faults + 1
  /\ UNCHANGED <<vaultVars, row, chat, web, mempool, grounds, drops>>

WatcherNext ==
  \/ \E job \in Jobs :
       \/ Select(job)
       \/ \E o \in OfferIds : Broadcast(job, o) \/ Record(job, o) \/ DeleteChat(job, o)
  \/ \E o \in OfferIds : AutoConfirm(o)
  \/ ApiStops

-----------------------------------------------------------------------------
(* The chain takes the platform's transactions. *)

Mine(call, o) ==
  /\ Tx(call, o) \in mempool
  /\ mempool' = mempool \ {Tx(call, o)}
  /\ \/ call = "release" /\ releaseP2POffer(o)
     \/ call = "cancel" /\ cancelP2POffer(o)
     \/ ~Estimate(call, o) /\ UNCHANGED vaultVars
  /\ UNCHANGED <<row, chat, web, picked, grounds, faults, drops>>

(* Underpriced, replaced at the same nonce, or lost by the node. *)
TxDropped(call, o) ==
  /\ drops < MaxDrops
  /\ Tx(call, o) \in mempool
  /\ mempool' = mempool \ {Tx(call, o)}
  /\ drops' = drops + 1
  /\ UNCHANGED <<vaultVars, row, chat, web, picked, grounds, faults>>

ChainNext == \E call \in {"release", "cancel"}, o \in OfferIds :
               Mine(call, o) \/ TxDropped(call, o)

-----------------------------------------------------------------------------
Next ==
  \/ BrowserNext
  \/ \E f \in web : FlowLost(f)
  \/ \E o \in OfferIds : TimePasses(o)
  \/ WatcherNext
  \/ ChainNext

Spec == Init /\ [][Next]_vars

(* The API process keeps running its intervals, the chain keeps producing   *)
(* blocks, the clock runs, and a browser that is not closed sends the API   *)
(* call that follows a mined transaction; nobody is obliged to click.       *)
Fairness ==
  /\ \A job \in Jobs : WF_vars(Select(job))
  /\ \A job \in Jobs \cap {"Job1", "Job2"}, o \in OfferIds :
       WF_vars(Broadcast(job, o)) /\ WF_vars(Record(job, o))
  /\ \A job \in Jobs \cap {"Job1", "Job4"}, o \in OfferIds : WF_vars(DeleteChat(job, o))
  /\ \A o \in OfferIds : WF_vars(AutoConfirm(o)) /\ WF_vars(TimePasses(o))
  /\ \A call \in {"release", "cancel"}, o \in OfferIds : WF_vars(Mine(call, o))
  /\ \A o \in OfferIds : WF_vars(\E u \in Users :
       PostOffer(u, o) \/ PatchAccepted(u, o) \/ PatchAcceptAgain(u, o)
       \/ PatchTakerConfirmed(u, o) \/ PatchMakerConfirmed(u, o) \/ PatchCancelled(u, o))

FairSpec == Spec /\ Fairness

-----------------------------------------------------------------------------
(* Properties. *)

Stage(o) ==
  CASE offers[o].maker = NoAddress -> "none"
    [] offers[o].maker # NoAddress /\ offers[o].status = "Open" -> "listed"
    [] offers[o].status = "Accepted" -> "taken"
    [] offers[o].status = "Released" -> "paidOut"
    [] offers[o].status = "Cancelled" -> "refunded"

Known(o) ==
  grounds[o] \cup (IF offers[o].takerConfirmed THEN {"takerConfirmed"} ELSE {})
             \cup (IF offers[o].makerConfirmed THEN {"makerConfirmed"} ELSE {})

Promise == INSTANCE TradePromise WITH
  stage <- [o \in OfferIds |-> Stage(o)],
  seller <- [o \in OfferIds |-> offers[o].maker],
  buyer <- [o \in OfferIds |-> offers[o].taker],
  grounds <- [o \in OfferIds |-> Known(o)]

(* The whole pipeline implements TradePromise: whatever is lost, repeated   *)
(* or raced between browsers, API, watcher and mempool, escrow is paid out  *)
(* only to the account that accepted on chain and only once it confirmed on *)
(* chain and the maker confirmed or stayed silent for the 24 hours, and a   *)
(* taken offer is refunded only when the taker's window ended without a     *)
(* confirmation on record (the WHERE clauses of Job1, Job2 and Job3).       *)
KeepsPromise == Promise!Spec

(* What the API records was mined: the taker the page shows is the account  *)
(* the contract will pay, and no confirmation is on record that the chain   *)
(* does not have, save a maker's that Job3 gave for him after his silence.  *)
RecordsAreBacked ==
  \A o \in OfferIds :
    /\ row[o].taker # NoAddress => row[o].taker = offers[o].taker
    /\ row[o].takerConfirmed => offers[o].takerConfirmed
    /\ row[o].makerConfirmed =>
         offers[o].makerConfirmed \/ "makerSilent" \in grounds[o]

(* Flows 1 and 3 with nobody acting further: once a trade is recorded as    *)
(* accepted, or as already settled, its escrow leaves the contract although *)
(* the API restarts and loses what it was doing and a job acts on a row     *)
(* that has changed since; only a broadcast transaction that the network    *)
(* drops is never missed by the watcher.                                    *)
RecordedTradeSettles ==
  \A o \in OfferIds :
    row[o].status \in {"accepted", "released", "cancelled"}
      ~> Settled(o) \/ drops > 0

(* marketplace/[id]/page.tsx:648 "Both confirmed, releasing USDC within 15  *)
(* seconds": the page says so until the row reads released, which it comes  *)
(* to do unless a stop of the API came between the broadcast of the release *)
(* and its UPDATE: every later release then fails in gas estimation.        *)
ReleaseIsRecorded ==
  \A o \in OfferIds :
    (row[o].takerConfirmed /\ row[o].makerConfirmed)
      ~> row[o].status \in {"released", "cancelled"} \/ faults > 0

(* p2pReleaseWatcher.ts:6 and README.md:19: the chat of a finished trade is *)
(* deleted, also what is written in it afterwards, as long as the finished  *)
(* offers fit into one SELECT of Job4.                                      *)
ChatIsDeleted ==
  \A o \in OfferIds :
    (row[o].status \in {"released", "cancelled"} /\ o \in chat) ~> o \notin chat

-----------------------------------------------------------------------------
(* What the repository says and the code does not keep. *)

(* marketplace/page.tsx:114, on a lost PATCH: "Non-fatal, watcher will      *)
(* catch it", and README.md:39: an accepted offer whose taker never         *)
(* confirms is cancelled by the platform.                                   *)
AcceptedOnChainSettles ==
  \A o \in OfferIds : offers[o].status = "Accepted" ~> Settled(o)
=============================================================================
