--------------------------- MODULE PaymentRecords ---------------------------
(***************************************************************************)
(* The records of money a user moves: rows of `transactions` for sends,    *)
(* conversions and the two legs of a corridor, and an invoice with rows of *)
(* `payments` for those who pay it from a wallet or with Circle.           *)
(*                                                                         *)
(* The page moves the money first and tells the API afterwards, by         *)
(* requests that the maintenance guard may refuse and the network may      *)
(* lose; txSettler and sendReconciler go through the pending rows and ask  *)
(* the chains.  A transfer is known by the hash it will have; the page is  *)
(* given a hash by Circle's list (useCircleTx.ts), which may still show an *)
(* earlier transfer to the same place.                                     *)
(***************************************************************************)
EXTENDS Naturals, FiniteSets

CONSTANTS
  Transfers,
  Blank,        \* the hash '' of a conversion whose hash never showed
  Nothing,      \* no receipt in hand
  Sections,     \* sections an admin may take down
  Limit,        \* LIMIT of the jobs' SELECTs
  ListLags,     \* whether Circle may list a transfer later than we poll
  MaxFaults,    \* bound: requests or answers lost, tabs closed, RPC errors, API stops
  MaxActs,      \* bound: maintenance switches and clicks of the invoice's creator
  Together      \* bound: who may be under way together: transfers by kind and chain, Creator

ASSUME RecordsAssumption ==
  /\ Blank \notin Transfers
  /\ Nothing \notin Transfers \cup {Blank}
  /\ IsFiniteSet(Transfers)
  /\ Limit \in Nat \ {0}
  /\ ListLags \in BOOLEAN
  /\ MaxFaults \in Nat /\ MaxActs \in Nat
  /\ Together \subseteq SUBSET (STRING \X STRING)

VARIABLES
  kind,      \* what the transfer was started as
  chain,     \* its chain: arc, one the reconciler has an RPC for, one it has not
  page,      \* per transfer, where its page is
  hash,      \* per transfer, the hash its page was given
  sequel,    \* per first leg of a corridor, its second
  tx,        \* the transfer on its chain
  row,       \* transactions, by hash
  payment,   \* payments, by the transfer whose page inserted it
  invoice,   \* status of the invoice
  creator,   \* status the invoice's creator is sending
  batch,     \* per job, rows selected and not looked at
  reading,   \* per job, the row whose receipt it holds
  down,      \* maintenance_state
  cached,    \* what the API believes of it
  faults, acts   \* history, bounded

pages == <<kind, chain, page, hash, sequel>>
records == <<row, payment, invoice>>
jobVars == <<batch, reading>>
guardVars == <<down, cached>>
recordVars == <<pages, tx, records, creator, jobVars, guardVars, faults, acts>>

Keys == Transfers \cup {Blank}
Jobs == {"settler", "reconciler"}
Payers == {"wallet", "circle"}
Legs == {"leg1", "leg2"}
Kinds == {"send", "convert"} \cup Legs \cup Payers
Steps == {"idle", "queued", "signing", "polling", "posting", "postingSure", "confirming",
          "reportSettled", "reportFailed", "paying", "paymentPost", "failedPost",
          "unpaying", "done"}

RecordsTypeOK ==
  /\ kind \in [Transfers -> Kinds \cup {"unused"}]
  /\ chain \in [Transfers -> {"arc", "far", "dark"}]
  /\ page \in [Transfers -> Steps]
  /\ hash \in [Transfers -> Keys]
  /\ sequel \in [Transfers -> Transfers \cup {Nothing}]
  /\ tx \in [Transfers -> {"none", "floating", "mined", "reverted"}]
  /\ row \in [Keys -> {"none", "pending", "settled", "failed"}]
  /\ payment \in [Transfers -> {"none", "pending", "settled", "failed"}]
  /\ invoice \in {"draft", "sent", "paid", "cancelled"}
  /\ creator \in {"none", "sent", "cancelled"}
  /\ batch \in [Jobs -> SUBSET Keys]
  /\ reading \in [Jobs -> Transfers \cup {Nothing}]
  /\ down \subseteq Sections /\ cached \subseteq Sections
  /\ faults \in 0 .. MaxFaults
  /\ acts \in 0 .. MaxActs

RecordsInit ==
  /\ kind = [t \in Transfers |-> "unused"]
  /\ chain = [t \in Transfers |-> "arc"]
  /\ page = [t \in Transfers |-> "idle"]
  /\ hash = [t \in Transfers |-> Blank]
  /\ sequel = [t \in Transfers |-> Nothing]
  /\ tx = [t \in Transfers |-> "none"]
  /\ row = [k \in Keys |-> "none"]
  /\ payment = [t \in Transfers |-> "none"]
  /\ invoice = "draft"
  /\ creator = "none"
  /\ batch = [j \in Jobs |-> {}]
  /\ reading = [j \in Jobs |-> Nothing]
  /\ down = {} /\ cached = {}
  /\ faults = 0 /\ acts = 0

Goes(t, from, to) == page[t] = from /\ page' = [page EXCEPT ![t] = to]

Fault ==
  /\ faults < MaxFaults
  /\ faults' = faults + 1

(* A request to a section the API believes down gets 503, which fetch does *)
(* not report as an error.  /transactions is guarded as "convert", and     *)
(* /invoices and /payments as "invoices" (index.ts:70-81).                 *)
Served(section) == section \notin cached /\ UNCHANGED faults
Refused(section) == section \in cached /\ UNCHANGED faults

-----------------------------------------------------------------------------
(* From the click to a hash. *)

SectionOf(k) == CASE k = "send" -> "send" [] k = "convert" -> "convert" [] OTHER -> "corridor"

Creator == <<"creator", "arc">>

UnderWay ==
  {<<kind[t], chain[t]>> : t \in {u \in Transfers : kind[u] # "unused"}}
    \cup {x \in {Creator} : invoice # "draft" \/ creator # "none"}

Company(K) == \E M \in Together : K \cup UnderWay \subseteq M

(* A page hears of a section that is down up to 30 seconds late; a click   *)
(* it lets through in that time is one made just before the switch.        *)
Click(t, k, c) ==
  /\ kind[t] = "unused"
  /\ Company({<<k, c>>})
  /\ k \in {"send", "convert"} => SectionOf(k) \notin down
  /\ k \in Payers => invoice \notin {"paid", "cancelled"}
  /\ k # "send" => c = "arc"
  /\ kind' = [kind EXCEPT ![t] = k]
  /\ chain' = [chain EXCEPT ![t] = c]
  /\ Goes(t, "idle", "signing")
  /\ UNCHANGED <<hash, sequel, tx, records, creator, jobVars, guardVars, faults, acts>>

ClickCorridor(t, u) ==
  /\ t # u
  /\ kind[t] = "unused" /\ kind[u] = "unused"
  /\ Company(Legs \X {"arc"})
  /\ "corridor" \notin down
  /\ kind' = [kind EXCEPT ![t] = "leg1", ![u] = "leg2"]
  /\ sequel' = [sequel EXCEPT ![t] = u]
  /\ page' = [page EXCEPT ![t] = "signing", ![u] = "queued"]
  /\ UNCHANGED <<chain, hash, tx, records, creator, jobVars, guardVars, faults, acts>>

Sign(t) ==
  /\ Goes(t, "signing", IF kind[t] = "wallet" THEN "confirming" ELSE "polling")
  /\ hash' = [hash EXCEPT ![t] = IF kind[t] = "wallet" THEN t ELSE Blank]
  /\ tx' = [tx EXCEPT ![t] = "floating"]
  /\ UNCHANGED <<kind, chain, sequel, records, creator, jobVars, guardVars, faults, acts>>

(* The prompt is dismissed or nothing could be prepared; or, with the      *)
(* money on its way, the poll throws: FAILED, an expired session, or track *)
(* lost after five errors.                                                 *)
Throws(t) ==
  /\ page[t] \in {"signing", "polling"}
  /\ page' = [page EXCEPT ![t] = "done"]
  /\ UNCHANGED <<kind, chain, hash, sequel, tx, records, creator, jobVars, guardVars, faults, acts>>

(* findRecentTransfer and findContractExecution: the newest transfer to    *)
(* the same address, or call of the same contract, that is listed.         *)
SamePlace(t, u) ==
  /\ chain[t] = chain[u]
  /\ kind[t] = kind[u] \/ {kind[t], kind[u]} = Legs

Listed(t) == {u \in Transfers : tx[u] # "none" /\ (u = t \/ (ListLags /\ SamePlace(t, u)))}

Found(t) ==
  /\ page[t] = "polling"
  /\ \E u \in Listed(t) :
       /\ hash' = [hash EXCEPT ![t] = u]
       /\ \/ kind[t] \notin Payers /\ Goes(t, "polling", "posting")
          \/ kind[t] = "send" /\ tx[u] = "mined" /\ Goes(t, "polling", "postingSure")
          \/ kind[t] = "circle" /\ Goes(t, "polling", "paying")
  /\ UNCHANGED <<kind, chain, sequel, tx, records, creator, jobVars, guardVars, faults, acts>>

(* 40 polls and no hash: a conversion is recorded under '', a Circle payer *)
(* marks the invoice all the same, a send is not recorded, a leg throws.   *)
NoHash(t) ==
  /\ Goes(t, "polling", CASE kind[t] = "convert" -> "posting"
                          [] kind[t] = "circle" -> "paying"
                          [] OTHER -> "done")
  /\ UNCHANGED <<kind, chain, hash, sequel, tx, records, creator, jobVars, guardVars, faults, acts>>

-----------------------------------------------------------------------------
(* POST /transactions, the receipt, PATCH /transactions/:hash. *)

AfterPostSettles(t) ==
  IF hash[t] # Blank /\ chain[t] = "arc" THEN "confirming"
  ELSE IF hash[t] # Blank THEN "reportSettled" ELSE "done"

AfterPost(t) ==
  IF hash[t] # Blank /\ chain[t] = "arc" THEN "confirming"
  ELSE IF hash[t] # Blank /\ page[t] = "postingSure" THEN "reportSettled" ELSE "done"

Inserted(k) == row' = [row EXCEPT ![k] = IF @ = "none" THEN "pending" ELSE @]

Post(t) ==
  /\ page[t] \in {"posting", "postingSure"}
  /\ \/ Served("convert") /\ Inserted(hash[t])
     \/ Refused("convert") /\ UNCHANGED row
     \/ Fault /\ UNCHANGED row
  /\ page' = [page EXCEPT ![t] = AfterPost(t)]
  /\ UNCHANGED <<kind, chain, hash, sequel, tx, payment, invoice, creator, jobVars, guardVars, acts>>

Decided(k) == tx[k] \in {"mined", "reverted"}

Receipt(t) ==
  /\ page[t] = "confirming"
  /\ Decided(hash[t])
  /\ Goes(t, "confirming",
       IF kind[t] = "wallet"
       THEN IF tx[hash[t]] = "mined" THEN "paying" ELSE "failedPost"
       ELSE IF tx[hash[t]] = "mined" THEN "reportSettled" ELSE "reportFailed")
  /\ UNCHANGED <<kind, chain, hash, sequel, tx, records, creator, jobVars, guardVars, faults, acts>>

ReceiptTimesOutFailed(t) ==
  /\ Goes(t, "confirming", IF kind[t] = "wallet" THEN "unpaying" ELSE "reportFailed")
  /\ UNCHANGED <<kind, chain, hash, sequel, tx, records, creator, jobVars, guardVars, faults, acts>>

(* waitForTransactionReceipt gives up: a send or conversion is left        *)
(* pending, a leg is taken for reverted, a payer takes the mark back.      *)
ReceiptTimesOut(t) ==
  /\ Goes(t, "confirming", CASE kind[t] \in Legs -> "reportFailed"
                             [] kind[t] = "wallet" -> "unpaying"
                             [] OTHER -> "done")
  /\ UNCHANGED <<kind, chain, hash, sequel, tx, records, creator, jobVars, guardVars, faults, acts>>

PatchedDefault(k, status) ==
  row' = [row EXCEPT ![k] = IF @ = "none" THEN @ ELSE IF status = "failed" THEN "funded" ELSE status]

Patched(k, status) == row' = [row EXCEPT ![k] = IF @ = "none" THEN @ ELSE status]

AfterReportAnyway(t) ==
  [u \in Transfers |->
     IF u = t THEN "done"
     ELSE IF u = sequel[t] /\ page[u] = "queued" THEN "signing" ELSE page[u]]

(* The corridor goes on to its second leg only if the first settled. *)
AfterReport(t) ==
  [u \in Transfers |->
     IF u = t THEN "done"
     ELSE IF u = sequel[t] /\ page[u] = "queued"
          THEN IF page[t] = "reportSettled" THEN "signing" ELSE "done"
          ELSE page[u]]

Report(t) ==
  /\ page[t] \in {"reportSettled", "reportFailed"}
  /\ \/ /\ Served("convert")
        /\ Patched(hash[t], IF page[t] = "reportSettled" THEN "settled" ELSE "failed")
     \/ Refused("convert") /\ UNCHANGED row
     \/ Fault /\ UNCHANGED row
  /\ page' = AfterReport(t)
  /\ UNCHANGED <<kind, chain, hash, sequel, tx, payment, invoice, creator, jobVars, guardVars, acts>>

-----------------------------------------------------------------------------
(* Paying the invoice (InvoicePayInner.tsx): PATCH /invoices/ref/:ref/pay, *)
(* POST /payments.  When either throws, the wallet's page sends the PATCH  *)
(* again with status 'failed'; Circle's swallows it.                       *)

Rescue(t) == IF kind[t] = "wallet" THEN "unpaying" ELSE "done"

MarkPaid(t) ==
  /\ page[t] = "paying"
  /\ \/ Served("invoices") /\ invoice' = "paid" /\ Goes(t, "paying", "paymentPost")
     \/ Refused("invoices") /\ UNCHANGED invoice /\ Goes(t, "paying", "paymentPost")
     \/ /\ Fault
        /\ invoice' \in {invoice, "paid"}
        /\ Goes(t, "paying", IF kind[t] = "wallet" THEN "unpaying" ELSE "paymentPost")
  /\ UNCHANGED <<kind, chain, hash, sequel, tx, row, payment, creator, jobVars, guardVars, acts>>

PaymentStatus(t) ==
  CASE page[t] = "failedPost" -> "failed"
    [] page[t] # "failedPost" /\ hash[t] = Blank -> "pending"
    [] OTHER -> "settled"

(* The guard refuses it, or the route does for want of a sender's address: *)
(* a payer by wallet need not be signed in.  Neither is an error to fetch. *)
PostPayment(t) ==
  /\ page[t] \in {"paymentPost", "failedPost"}
  /\ \/ /\ Served("invoices")
        /\ payment' = [payment EXCEPT ![t] = PaymentStatus(t)]
        /\ page' = [page EXCEPT ![t] = "done"]
     \/ /\ page' = [page EXCEPT ![t] = "done"]
        /\ UNCHANGED <<payment, faults>>
     \/ /\ Fault
        /\ payment' \in {payment, [payment EXCEPT ![t] = PaymentStatus(t)]}
        /\ page' = [page EXCEPT ![t] = IF page[t] = "paymentPost" THEN Rescue(t) ELSE "done"]
  /\ UNCHANGED <<kind, chain, hash, sequel, tx, row, invoice, creator, jobVars, guardVars, acts>>

TakeBack(t) ==
  /\ Goes(t, "unpaying", "done")
  /\ \/ Served("invoices") /\ invoice' = "sent"
     \/ Refused("invoices") /\ UNCHANGED invoice
     \/ Fault /\ UNCHANGED invoice
  /\ UNCHANGED <<kind, chain, hash, sequel, tx, row, payment, creator, jobVars, guardVars, acts>>

(* The creator's page sends PATCH /invoices/:id/status from the status it  *)
(* showed; the route writes it over whatever the status is by then.        *)
CreatorClicks(status) ==
  /\ acts < MaxActs
  /\ acts' = acts + 1
  /\ creator = "none"
  /\ Company({Creator})
  /\ IF status = "sent" THEN invoice = "draft" ELSE invoice \in {"draft", "sent"}
  /\ creator' = status
  /\ UNCHANGED <<pages, tx, records, jobVars, guardVars, faults>>

CreatorWrites ==
  /\ creator # "none"
  /\ \/ Served("invoices") /\ invoice' = creator
     \/ Refused("invoices") /\ UNCHANGED invoice
     \/ Fault /\ UNCHANGED invoice
  /\ creator' = "none"
  /\ UNCHANGED <<pages, tx, row, payment, jobVars, guardVars, acts>>

(* The tab is closed: both legs of a corridor share one. *)
CloseTab(t) ==
  /\ page[t] \notin {"idle", "queued", "done"}
  /\ Fault
  /\ page' = [u \in Transfers |->
                IF u = t \/ (u = sequel[t] /\ page[u] = "queued") THEN "done" ELSE page[u]]
  /\ UNCHANGED <<kind, chain, hash, sequel, tx, records, creator, jobVars, guardVars, acts>>

-----------------------------------------------------------------------------
(* txSettler and sendReconciler: SELECT, then one receipt and one UPDATE   *)
(* per row.  The settler takes every pending row and asks Arc, the         *)
(* reconciler the rows of other chains and asks theirs.  The age a row     *)
(* must have is abstracted.                                                *)

Due(j) ==
  {k \in Keys : /\ row[k] = "pending"
                /\ j = "reconciler" => k # Blank /\ chain[k] # "arc"}

Select(j) ==
  /\ batch[j] = {} /\ reading[j] = Nothing
  /\ Due(j) # {}
  /\ \E S \in SUBSET Due(j) :
       /\ Cardinality(S) = IF Cardinality(Due(j)) < Limit THEN Cardinality(Due(j)) ELSE Limit
       /\ batch' = [batch EXCEPT ![j] = S]
  /\ UNCHANGED <<pages, tx, records, creator, reading, guardVars, faults, acts>>

Visible(j, k) ==
  /\ k # Blank
  /\ chain[k] = (IF j = "settler" THEN "arc" ELSE "far")
  /\ Decided(k)

ReadReceipt(j, k) ==
  /\ reading[j] = Nothing
  /\ k \in batch[j]
  /\ Visible(j, k)
  /\ reading' = [reading EXCEPT ![j] = k]
  /\ batch' = [batch EXCEPT ![j] = @ \ {k}]
  /\ UNCHANGED <<pages, tx, records, creator, guardVars, faults, acts>>

SkipAll(j, k) ==
  /\ reading[j] = Nothing
  /\ k \in batch[j]
  /\ ~Visible(j, k)
  /\ batch' = [batch EXCEPT ![j] = {}]
  /\ UNCHANGED <<pages, tx, records, creator, reading, guardVars, faults, acts>>

(* No receipt, or no RPC configured: the row is left for a later run. *)
Skip(j, k) ==
  /\ reading[j] = Nothing
  /\ k \in batch[j]
  /\ Visible(j, k) => Fault
  /\ ~Visible(j, k) => UNCHANGED faults
  /\ batch' = [batch EXCEPT ![j] = @ \ {k}]
  /\ UNCHANGED <<pages, tx, records, creator, reading, guardVars, acts>>

(* The settler's UPDATE has no condition on the status, the reconciler's has. *)
Update(j) ==
  /\ reading[j] # Nothing
  /\ LET k == reading[j]
     IN row' = IF j = "settler" \/ row[k] = "pending"
               THEN [row EXCEPT ![k] = IF tx[k] = "mined" THEN "settled" ELSE "failed"]
               ELSE row
  /\ reading' = [reading EXCEPT ![j] = Nothing]
  /\ UNCHANGED <<pages, tx, payment, invoice, creator, batch, guardVars, faults, acts>>

ApiStops ==
  /\ Fault
  /\ \E j \in Jobs : batch[j] # {} \/ reading[j] # Nothing
  /\ batch' = [j \in Jobs |-> {}]
  /\ reading' = [j \in Jobs |-> Nothing]
  /\ UNCHANGED <<pages, tx, records, creator, guardVars, acts>>

-----------------------------------------------------------------------------
(* An admin takes a section down or up; every server reads the table again *)
(* within five seconds.                                                    *)

Switch(section) ==
  /\ acts < MaxActs
  /\ acts' = acts + 1
  /\ down' = IF section \in down THEN down \ {section} ELSE down \cup {section}
  /\ UNCHANGED <<pages, tx, records, creator, jobVars, cached, faults>>

RefreshCache ==
  /\ cached # down
  /\ cached' = down
  /\ UNCHANGED <<pages, tx, records, creator, jobVars, down, faults, acts>>

(* The chains (external): a transfer is mined, or reverts, or stays afloat. *)
Mine(t) ==
  /\ tx[t] = "floating"
  /\ \E fate \in {"mined", "reverted"} : tx' = [tx EXCEPT ![t] = fate]
  /\ UNCHANGED <<pages, records, creator, jobVars, guardVars, faults, acts>>

-----------------------------------------------------------------------------
PageNext(t) ==
  \/ \E k \in {"send", "convert"} \cup Payers, c \in {"arc", "far", "dark"} : Click(t, k, c)
  \/ \E u \in Transfers : ClickCorridor(t, u)
  \/ Sign(t) \/ Throws(t) \/ Found(t) \/ NoHash(t)
  \/ Post(t) \/ Receipt(t) \/ ReceiptTimesOut(t) \/ Report(t)
  \/ MarkPaid(t) \/ PostPayment(t) \/ TakeBack(t) \/ CloseTab(t)

JobNext(j) ==
  \/ Select(j) \/ Update(j)
  \/ \E k \in Keys : ReadReceipt(j, k) \/ Skip(j, k)

RecordsNext ==
  \/ \E t \in Transfers : PageNext(t) \/ Mine(t)
  \/ \E status \in {"sent", "cancelled"} : CreatorClicks(status)
  \/ CreatorWrites
  \/ \E j \in Jobs : JobNext(j)
  \/ ApiStops
  \/ \E section \in Sections : Switch(section)
  \/ RefreshCache

RecordsSpec == RecordsInit /\ [][RecordsNext]_recordVars

(* The cron fires and a job's awaits return; nobody clicks, confirms or    *)
(* reports, and no chain mines, because it must.                           *)
RecordsFairSpec == RecordsSpec /\ \A j \in Jobs : WF_recordVars(JobNext(j))

-----------------------------------------------------------------------------
(* Properties. *)

(* Whoever wrote it, the page on a receipt or on Circle's word, the        *)
(* settler without looking at the status, or the reconciler: a row that    *)
(* reads settled shows a transfer that was mined.  So does a payment by    *)
(* wallet; one by Circle is recorded settled on a bare hash                *)
(* (InvoicePayInner.tsx:211-222), which is excepted.                       *)
SettledIsMined ==
  /\ \A t \in Transfers : row[t] = "settled" => tx[t] = "mined"
  /\ \A t \in Transfers : kind[t] = "wallet" =>
       /\ payment[t] = "settled" => tx[t] = "mined"
       /\ payment[t] = "failed" => tx[t] = "reverted"

(* useCorridorSwap.ts:11-13 "leg 2 is only sent after leg 1 is confirmed   *)
(* on-chain": and then no report, late or lost, of page or job, has leg 1  *)
(* recorded failed.  For legs no page was given a wrong hash of: one given *)
(* the hash of an earlier leg goes on before its own is mined, or reports  *)
(* the failure of the other.                                               *)
LegsInOrder ==
  \A t \in Transfers :
    /\ sequel[t] # Nothing
    /\ tx[sequel[t]] # "none"
    /\ {v \in Transfers : hash[v] = t} = {t}
    => tx[t] = "mined" /\ row[t] # "failed"

Plain(t) == kind[t] \in {"send", "convert"}

(* What a status says of the chain.  Of a conversion to a bank's currency  *)
(* transactions.ts:94-101 has settled say that the bank has paid, and      *)
(* 'funded' that the chain confirmed; but useSwap.ts:105 and               *)
(* txSettler.ts:65-76 write settled on the receipt for these too, every    *)
(* caller passes a status, and no payout touches these rows.               *)
OnChain(status) ==
  CASE status = "settled" -> "confirmed"
    [] status = "failed" -> "reverted"
    [] OTHER -> status

History == INSTANCE HonestHistory WITH
  Entries <- Transfers,
  fate <- [t \in Transfers |-> IF Plain(t) THEN tx[t] ELSE "none"],
  entry <- [t \in Transfers |-> IF Plain(t) THEN OnChain(row[t]) ELSE "none"]

(* Sends and conversions implement HonestHistory: what a status says of    *)
(* the chain is what the chain decided, and page, settler and reconciler never       *)
(* rewrite an outcome another of them has recorded.  Corridor legs are     *)
(* not in it: a receipt that times out records a failure.                  *)
HistoryIsHonest == History!Spec

(* A pending row whose transfer is mined does not stay pending, even when  *)
(* its page is gone or its PATCH was refused by the maintenance guard, as  *)
(* long as some job has an RPC for its chain and the LIMIT is not filled   *)
(* by rows no job can ever settle.                                         *)
RecordSettles ==
  \A t \in Transfers :
    (row[t] = "pending" /\ tx[t] = "mined" /\ chain[t] # "dark") ~> row[t] # "pending"
=============================================================================
