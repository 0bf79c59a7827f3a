------------------------------ MODULE FiatRamp ------------------------------
(***************************************************************************)
(* On- and off-ramp accounts at Bridge.xyz for one Nexum account and one   *)
(* currency: the hosted verification and its mirror in ramp_customers, the *)
(* rails created when first asked for (a virtual account to deposit to, an *)
(* external bank account, a liquidation address that pays out to it), and  *)
(* the deposits Bridge reports by webhook and by its history.              *)
(*                                                                         *)
(* Every request is a task that awaits between its reads and its writes;   *)
(* tasks of several tabs, polls and webhooks interleave.  The tables are   *)
(* keyed by account and currency, so one pair is enough.                   *)
(***************************************************************************)
EXTENDS Naturals, Sequences, FiniteSets

CONSTANTS
  Tasks,       \* requests the API serves at once
  Banks,       \* bank details a user may type in
  Deposits,    \* deposits Bridge may receive
  Scopes,      \* where an instance starts, bounds on the user's clicks and on deposit events
  MaxFaults    \* bound: calls that fail, answers lost, API stops

Stages == {"signedUp", "verified", "depositing"}

ASSUME FiatAssumption ==
  /\ IsFiniteSet(Deposits)
  /\ Scopes \subseteq [stage : Stages, clicks : Nat, events : Nat]
  /\ MaxFaults \in Nat

VARIABLES
  link,       \* statuses Bridge has for the account's hosted link
  made,       \* objects at Bridge, per rail in order of creation
  customer,   \* statuses of the row of ramp_customers
  stored,     \* per rail, the object its row names, 0 for no row
  address,    \* accounts.wallet_address is known
  page,       \* what the page shows of the verification
  req,        \* the request each task serves
  history,    \* deposit events that happened at Bridge
  received,   \* ramp_webhook_events
  mirror,     \* ramp_deposit_events
  claims,     \* ramp_deposit_notifications
  mails,      \* mails sent, per deposit and kind
  raced,      \* history: two webhooks were between look and claim at once
  scope, faults   \* bounds

bridgeVars == <<link, made, history>>
railVars == <<customer, stored, address>>
depositVars == <<received, mirror, claims, mails, raced>>
fiatVars == <<bridgeVars, railVars, page, req, depositVars, scope, faults>>

Rails == {"va", "ext", "liq"}
Types == {"funds_received", "payment_processed", "refund_in_flight", "refund", "refund_failed"}
Events == Deposits \X Types
Notices == Deposits \X {"landed", "returned", "failed"}
Kyc == {"none", "not_started", "under_review", "approved", "rejected"}
Tos == {"none", "pending", "approved"}
Statuses == [kyc : Kyc, tos : Tos]
NoStatus == [kyc |-> "none", tos |-> "none"]
Approved(s) == s.kyc = "approved" /\ s.tos = "approved"

Steps == {"idle", "link", "insertCustomer", "ask", "update", "reread", "answer",
          "look", "needBank", "gate", "call", "insert",
          "receive", "record", "mirror", "lookClaim", "claim", "mail",
          "history", "compare", "reconcile"}

RequestAt ==
  [step : Steps, rail : Rails \cup {"none"}, bank : Banks \cup {"none"}, num : Nat,
   got : Statuses, address : BOOLEAN, heard : BOOLEAN, events : SUBSET Events]
NoRequest ==
  [step |-> "idle", rail |-> "none", bank |-> "none", num |-> 0,
   got |-> NoStatus, address |-> FALSE, heard |-> FALSE, events |-> {}]

FiatTypeOK ==
  /\ link \in Statuses /\ customer \in Statuses
  /\ address \in BOOLEAN
  /\ made \in [Rails -> Seq(Banks \cup {"none"})]
  /\ stored \in [Rails -> Nat]
  /\ page \in {"closed", "new", "unverified", "rejected", "verified"}
  /\ req \in [Tasks -> RequestAt]
  /\ history \subseteq Events /\ received \subseteq Events /\ mirror \subseteq Events
  /\ claims \subseteq Notices
  /\ mails \in [Notices -> Nat]
  /\ raced \subseteq Notices
  /\ scope \in [stage : Stages, clicks : Nat, events : Nat]
  /\ faults \in 0 .. MaxFaults

(* A user who has signed in, one who has been verified since, or one whose *)
(* deposit rail is in use.                                                 *)
FiatInit ==
  /\ scope \in Scopes
  /\ link = IF scope.stage = "signedUp" THEN NoStatus ELSE [kyc |-> "approved", tos |-> "approved"]
  /\ customer = link
  /\ page = IF Approved(link) THEN "verified" ELSE "closed"
  /\ address = (scope.stage = "depositing")
  /\ made = [r \in Rails |-> IF r = "va" /\ scope.stage = "depositing" THEN <<"none">> ELSE <<>>]
  /\ stored = [r \in Rails |-> Len(made[r])]
  /\ req = [t \in Tasks |-> NoRequest]
  /\ history = {} /\ received = {} /\ mirror = {} /\ claims = {}
  /\ mails = [n \in Notices |-> 0]
  /\ raced = {}
  /\ faults = 0

Fault ==
  /\ faults < MaxFaults
  /\ faults' = faults + 1

At(t, step) == req[t].step = step
Begin(t, request) == At(t, "idle") /\ req' = [req EXCEPT ![t] = request]
GoTo(t, step) == req' = [req EXCEPT ![t].step = step]
Finish(t) == req' = [req EXCEPT ![t] = NoRequest]
Clicked == scope.clicks > 0 /\ scope' = [scope EXCEPT !.clicks = @ - 1]

-----------------------------------------------------------------------------
(* Verification. *)

ShowsRaw(s) == IF s = NoStatus THEN "new" ELSE s.kyc

Shows(s) ==
  CASE s = NoStatus -> "new"
    [] Approved(s) -> "verified"
    [] s.kyc = "rejected" -> "rejected"
    [] OTHER -> "unverified"

(* GET /ramp/customer: the page is opened or reloaded, and hears no more   *)
(* of what it asked before.                                                *)
FromPage(step) == [NoRequest EXCEPT !.step = step, !.got = customer, !.heard = TRUE]

LoadPage(t) ==
  /\ Clicked
  /\ At(t, "idle")
  /\ req' = [u \in Tasks |-> IF u = t THEN FromPage("answer") ELSE [req[u] EXCEPT !.heard = FALSE]]
  /\ page' = "closed"
  /\ UNCHANGED <<bridgeVars, railVars, depositVars, faults>>

(* POST /ramp/customer. *)
StartVerification(t) ==
  /\ page = "new"
  /\ ~ \E u \in Tasks : req[u].heard
  /\ Clicked
  /\ Begin(t, FromPage(IF customer # NoStatus THEN "answer" ELSE "link"))
  /\ UNCHANGED <<bridgeVars, railVars, page, depositVars, faults>>

(* createKycLink: the key is ramp-kyc-<account>, so Bridge answers with    *)
(* the link it has.                                                        *)
CreateLink(t) ==
  /\ At(t, "link")
  /\ link' = IF link = NoStatus THEN [kyc |-> "not_started", tos |-> "pending"] ELSE link
  /\ \/ req' = [req EXCEPT ![t].step = "insertCustomer", ![t].got = link'] /\ UNCHANGED faults
     \/ Finish(t) /\ Fault
  /\ UNCHANGED <<made, history, railVars, page, depositVars, scope>>

(* UNIQUE (account_id): the second of two inserts throws. *)
InsertCustomer(t) ==
  /\ At(t, "insertCustomer")
  /\ IF customer = NoStatus
     THEN customer' = req[t].got /\ GoTo(t, "answer")
     ELSE UNCHANGED customer /\ Finish(t)
  /\ UNCHANGED <<bridgeVars, stored, address, page, depositVars, scope, faults>>

(* setInterval(refresh, 8000) and the window's focus: several polls may be *)
(* under way.                                                              *)
Poll(t) ==
  /\ page = "unverified"
  /\ Begin(t, FromPage("ask"))
  /\ UNCHANGED <<bridgeVars, railVars, page, depositVars, scope, faults>>

AskBridge(t) ==
  /\ At(t, "ask")
  /\ \/ req' = [req EXCEPT ![t].step = "update", ![t].got = link] /\ UNCHANGED faults
     \/ Finish(t) /\ Fault
  /\ UNCHANGED <<bridgeVars, railVars, page, depositVars, scope>>

UpdateStatusDropped(t) ==
  /\ At(t, "update")
  /\ customer' = IF customer.kyc = "not_started" THEN req[t].got ELSE customer
  /\ GoTo(t, "reread")
  /\ UNCHANGED <<bridgeVars, stored, address, page, depositVars, scope, faults>>

UpdateStatus(t) ==
  /\ At(t, "update")
  /\ customer' = req[t].got
  /\ GoTo(t, "reread")
  /\ UNCHANGED <<bridgeVars, stored, address, page, depositVars, scope, faults>>

Reread(t) ==
  /\ At(t, "reread")
  /\ req' = [req EXCEPT ![t].step = "answer", ![t].got = customer]
  /\ UNCHANGED <<bridgeVars, railVars, page, depositVars, scope, faults>>

Answer(t) ==
  /\ At(t, "answer")
  /\ \/ page' = (IF req[t].heard THEN Shows(req[t].got) ELSE page) /\ UNCHANGED faults
     \/ UNCHANGED page /\ Fault
  /\ Finish(t)
  /\ UNCHANGED <<bridgeVars, railVars, depositVars, scope>>

(* POST /auth/wallet/sync: Circle has indexed the wallet. *)
SyncWallet ==
  /\ ~address
  /\ address' = TRUE
  /\ UNCHANGED <<bridgeVars, customer, stored, page, req, depositVars, scope, faults>>

-----------------------------------------------------------------------------
(* A rail is created when first asked for: SELECT, the bank account for a  *)
(* liquidation address, the customer, Bridge, INSERT.                      *)

(* requireAccount reads the wallet's address with the session. *)
AskRail(t, r, b) ==
  /\ page = "verified"
  /\ Clicked
  /\ (r = "ext") = (b # "none")
  /\ Begin(t, [NoRequest EXCEPT !.step = "look", !.rail = r, !.bank = b, !.address = address])
  /\ UNCHANGED <<bridgeVars, railVars, page, depositVars, faults>>

Look(t) ==
  /\ At(t, "look")
  /\ IF stored[req[t].rail] # 0 THEN Finish(t)
     ELSE GoTo(t, IF req[t].rail = "liq" THEN "needBank" ELSE "gate")
  /\ UNCHANGED <<bridgeVars, railVars, page, depositVars, scope, faults>>

NeedBank(t) ==
  /\ At(t, "needBank")
  /\ IF stored["ext"] = 0 THEN Finish(t)
     ELSE req' = [req EXCEPT ![t].step = "gate", ![t].num = stored["ext"]]
  /\ UNCHANGED <<bridgeVars, railVars, page, depositVars, scope, faults>>

(* requireVerifiedCustomer *)
Gate(t) ==
  /\ At(t, "gate")
  /\ IF ~Approved(customer) THEN Finish(t)
     ELSE IF req[t].rail = "none" THEN GoTo(t, "history")
     ELSE IF req[t].rail \in {"va", "liq"} /\ ~req[t].address THEN Finish(t)
     ELSE GoTo(t, "call")
  /\ UNCHANGED <<bridgeVars, railVars, page, depositVars, scope, faults>>

(* What a call adds at Bridge: the keys ramp-va-, ramp-ext- and ramp-liq-  *)
(* <account>-<currency> never change, so a call that was made before,      *)
(* whatever it asked for, is answered with what it made.                   *)
Content(t) == IF req[t].rail = "liq" THEN made["ext"][req[t].num] ELSE req[t].bank

CreatedEachTime(t) == Append(made[req[t].rail], Content(t))

Created(t) ==
  IF made[req[t].rail] = <<>> THEN <<Content(t)>> ELSE made[req[t].rail]

CallBridge(t) ==
  /\ At(t, "call")
  /\ made' = [made EXCEPT ![req[t].rail] = Created(t)]
  /\ req' = [req EXCEPT ![t].step = "insert", ![t].num = Len(Created(t))]
  /\ UNCHANGED <<link, history, railVars, page, depositVars, scope, faults>>

(* Bridge refuses, for want of an endorsement or otherwise, or its answer  *)
(* is lost.                                                                *)
CallFails(t) ==
  /\ At(t, "call")
  /\ Fault
  /\ made' \in {made, [made EXCEPT ![req[t].rail] = Created(t)]}
  /\ Finish(t)
  /\ UNCHANGED <<link, history, railVars, page, depositVars, scope>>

(* UNIQUE (account_id, currency) *)
Insert(t) ==
  /\ At(t, "insert")
  /\ IF stored[req[t].rail] = 0
     THEN stored' = [stored EXCEPT ![req[t].rail] = req[t].num]
     ELSE UNCHANGED stored
  /\ Finish(t)
  /\ UNCHANGED <<bridgeVars, customer, address, page, depositVars, scope, faults>>

-----------------------------------------------------------------------------
(* POST /webhooks/bridgexyz.  Bridge may deliver an event many times, late *)
(* or never.                                                               *)

Notice(e) ==
  CASE e[2] = "payment_processed" -> {<<e[1], "landed">>}
    [] e[2] \in {"refund", "refund_in_flight"} -> {<<e[1], "returned">>}
    [] e[2] = "refund_failed" -> {<<e[1], "failed">>}
    [] OTHER -> {}

NoticeOf(t) == UNION {Notice(e) : e \in req[t].events}

Deliver(t, e) ==
  /\ e \in history
  /\ Begin(t, [NoRequest EXCEPT !.step = "receive", !.events = {e}])
  /\ UNCHANGED <<bridgeVars, railVars, page, depositVars, scope, faults>>

(* recordWebhookEvent: SELECT, then INSERT OR IGNORE. *)
Receive(t) ==
  /\ At(t, "receive")
  /\ IF req[t].events \subseteq received THEN Finish(t) ELSE GoTo(t, "record")
  /\ UNCHANGED <<bridgeVars, railVars, page, depositVars, scope, faults>>

RecordEvent(t) ==
  /\ At(t, "record")
  /\ received' = received \cup req[t].events
  /\ GoTo(t, "mirror")
  /\ UNCHANGED <<bridgeVars, railVars, page, mirror, claims, mails, raced, scope, faults>>

MirrorEvent(t) ==
  /\ At(t, "mirror")
  /\ mirror' = mirror \cup req[t].events
  /\ IF NoticeOf(t) = {} THEN Finish(t) ELSE GoTo(t, "lookClaim")
  /\ UNCHANGED <<bridgeVars, railVars, page, received, claims, mails, raced, scope, faults>>

ClaimedAlreadyByEvent(t) ==
  NoticeOf(t) \subseteq claims /\ "refund" \notin {e[2] : e \in req[t].events}

(* claimDepositNotification: SELECT, then INSERT OR IGNORE, then TRUE. *)
ClaimedAlready(t) == NoticeOf(t) \subseteq claims

LookClaim(t) ==
  /\ At(t, "lookClaim")
  /\ IF ClaimedAlready(t)
     THEN Finish(t) /\ UNCHANGED raced
     ELSE /\ GoTo(t, "claim")
          /\ raced' = raced \cup {n \in NoticeOf(t) :
                                    \E u \in Tasks \ {t} : At(u, "claim") /\ n \in NoticeOf(u)}
  /\ UNCHANGED <<bridgeVars, railVars, page, received, mirror, claims, mails, scope, faults>>

Claim(t) ==
  /\ At(t, "claim")
  /\ claims' = claims \cup NoticeOf(t)
  /\ GoTo(t, "mail")
  /\ UNCHANGED <<bridgeVars, railVars, page, received, mirror, mails, raced, scope, faults>>

(* Without a row for the virtual account nobody is known to write to. *)
Mail(t) ==
  /\ At(t, "mail")
  /\ mails' = [n \in Notices |-> IF n \in NoticeOf(t) /\ stored["va"] # 0
                                  THEN mails[n] + 1 ELSE mails[n]]
  /\ Finish(t)
  /\ UNCHANGED <<bridgeVars, railVars, page, received, mirror, claims, raced, scope, faults>>

-----------------------------------------------------------------------------
(* GET /ramp/virtual-account/:currency/activity, every 15 seconds while    *)
(* the tracker is open: Bridge's history, the mirror, and what only the    *)
(* history has is written to the mirror.                                   *)

Track(t) ==
  /\ page = "verified" /\ stored["va"] # 0
  /\ history # {}
  /\ Begin(t, [NoRequest EXCEPT !.step = "gate"])
  /\ UNCHANGED <<bridgeVars, railVars, page, depositVars, scope, faults>>

(* A history that does not answer leaves the tracker with the mirror. *)
ReadHistory(t) ==
  /\ At(t, "history")
  /\ \/ req' = [req EXCEPT ![t].step = "compare", ![t].events = history] /\ UNCHANGED faults
     \/ Finish(t) /\ Fault
  /\ UNCHANGED <<bridgeVars, railVars, page, depositVars, scope>>

CompareMirror(t) ==
  /\ At(t, "compare")
  /\ req' = [req EXCEPT ![t].step = "reconcile", ![t].events = @ \ mirror]
  /\ UNCHANGED <<bridgeVars, railVars, page, depositVars, scope, faults>>

ReconcileNothing(t) ==
  /\ At(t, "reconcile")
  /\ mirror' = mirror \cup {e \in req[t].events : e \in received}
  /\ Finish(t)
  /\ UNCHANGED <<bridgeVars, railVars, page, received, claims, mails, raced, scope, faults>>

Reconcile(t) ==
  /\ At(t, "reconcile")
  /\ \/ mirror' = mirror \cup req[t].events /\ UNCHANGED faults
     \/ \E S \in SUBSET req[t].events : mirror' = mirror \cup S /\ Fault
  /\ Finish(t)
  /\ UNCHANGED <<bridgeVars, railVars, page, received, claims, mails, raced, scope>>

-----------------------------------------------------------------------------
(* Bridge (external): the user passes the hosted checks; deposits come in. *)

LinkMoves ==
  /\ link # NoStatus
  /\ \/ link.kyc = "not_started" /\ link' = [link EXCEPT !.kyc = "under_review"]
     \/ /\ link.kyc = "under_review"
        /\ \E kyc \in {"approved", "rejected"} : link' = [link EXCEPT !.kyc = kyc]
     \/ link.tos = "pending" /\ link' = [link EXCEPT !.tos = "approved"]
  /\ UNCHANGED <<made, history, railVars, page, req, depositVars, scope, faults>>

Follows(type) ==
  CASE type = "funds_received" -> {}
    [] type \in {"payment_processed", "refund_in_flight"} -> {"funds_received"}
    [] type \in {"refund", "refund_failed"} -> {"refund_in_flight"}

DepositMoves(e) ==
  /\ made["va"] # <<>>
  /\ scope.events > 0
  /\ scope' = [scope EXCEPT !.events = @ - 1]
  /\ e \notin history
  /\ {e[1]} \X Follows(e[2]) \subseteq history
  /\ ~ \E type \in Types : e[2] # type /\ Follows(type) = Follows(e[2]) /\ <<e[1], type>> \in history
  /\ history' = history \cup {e}
  /\ UNCHANGED <<link, made, railVars, page, req, depositVars, faults>>

ApiStops ==
  /\ Fault
  /\ req # [t \in Tasks |-> NoRequest]
  /\ req' = [t \in Tasks |-> NoRequest]
  /\ UNCHANGED <<bridgeVars, railVars, page, depositVars, scope>>

-----------------------------------------------------------------------------
(* What a task does of its own accord once begun. *)
Serve(t) ==
  \/ CreateLink(t) \/ InsertCustomer(t)
  \/ AskBridge(t) \/ UpdateStatus(t) \/ Reread(t) \/ Answer(t)
  \/ Look(t) \/ NeedBank(t) \/ Gate(t) \/ CallBridge(t) \/ CallFails(t) \/ Insert(t)
  \/ Receive(t) \/ RecordEvent(t) \/ MirrorEvent(t) \/ LookClaim(t) \/ Claim(t) \/ Mail(t)
  \/ ReadHistory(t) \/ CompareMirror(t) \/ Reconcile(t)

FiatNext ==
  \/ \E t \in Tasks :
       \/ LoadPage(t) \/ StartVerification(t) \/ Poll(t) \/ Track(t)
       \/ \E r \in Rails, b \in Banks \cup {"none"} : AskRail(t, r, b)
       \/ \E e \in Events : Deliver(t, e)
       \/ Serve(t)
  \/ SyncWallet \/ LinkMoves \/ ApiStops
  \/ \E e \in Events : DepositMoves(e)

FiatSpec == FiatInit /\ [][FiatNext]_fiatVars

(* Awaits return and an open page's timers fire.  Nobody need click, and   *)
(* Bridge need neither deliver a webhook nor decide.                       *)
FiatFairSpec ==
  /\ FiatSpec
  /\ \A t \in Tasks : WF_fiatVars(Serve(t))
  /\ SF_fiatVars(\E t \in Tasks : Poll(t))
  /\ SF_fiatVars(\E t \in Tasks : Track(t))

-----------------------------------------------------------------------------
(* Properties. *)

(* "a double-submit can't mint two" (routes/ramp.ts): however requests of  *)
(* two tabs, failures and retries with other bank details fall, Bridge has *)
(* one object per rail, the rows name it, and a withdrawal is paid to the  *)
(* account whose last digits the page shows as linked.                     *)
RailsAgree ==
  /\ \A r \in Rails : Len(made[r]) <= 1 /\ stored[r] <= Len(made[r])
  /\ stored["liq"] # 0 =>
       stored["ext"] # 0 /\ made["liq"][stored["liq"]] = made["ext"][stored["ext"]]

(* A deposit is announced once as landed, returned or stuck, for all       *)
(* redeliveries and for both refund events, unless two deliveries are      *)
(* inside claimDepositNotification together: then both send, although      *)
(* repository.ts calls the constraint "the real backstop against a         *)
(* same-instant race".                                                     *)
MailedOnce == \A n \in Notices : mails[n] > 1 => n \in raced

(* A page that shows verification under way, and stays open, sees it       *)
(* approved, whatever late polls wrote over it.                            *)
VerificationIsSeen ==
  (Approved(link) /\ page = "unverified") ~> page \in {"verified", "closed"}

(* While the tracker is open the mirror catches up with every deposit      *)
(* event, again and again, even when webhooks never came or died halfway.  *)
MirrorCatchesUp == []<>(history \subseteq mirror)
=============================================================================
