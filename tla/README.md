# A specification of Nexum / AfriFX

Nexum (AfriFX) moves USDC on Arc: a peer-to-peer marketplace whose trades are
escrowed in a contract and whose disputes admins judge in their working hours,
sends, conversions and invoices, a bridge over Circle's CCTP, batch payroll from
one pooled wallet, an orchestrator that pays out to bank accounts through
Flutterwave, and bank accounts at Bridge.xyz to deposit from and withdraw to.
What these parts have in common is that money moves in one place (a chain,
Circle, a payment provider) and is recorded in another (a table), by code that
can stop between the two. This directory models those parts in TLA+, checks them
with TLC on small instances, and proves with TLAPS, for every size of instance,
the safety properties the runs check.

Paths below are relative to the repository; `api` stands for `nexum-api/src`
and `web` for `nexum-web`.

## 1. The system

### Components

**Escrow contract** (`nexum-contracts/contracts/AfriFXVault.sol`). State: one
struct per offer (maker, taker, amount, status, two confirmation flags), two
fee settings, the pause switch, and one USDC balance for everything it holds.
Operations: create, accept, two confirmations, maker's cancel, platform's
release and cancel, conversions, withdraw, setters, pause. Correct when a live
offer can always be paid, a settled one is never paid again, and a settlement
pays whom the status names.

**Trade pipeline.** Four programs that share the `p2p_offers` table and the
contract. The browser (`web/hooks/useP2P.ts`, the marketplace pages) signs a
contract call and then PATCHes the row; the API (`api/routes/offers.ts`,
`chat.ts`) writes what it is told; the watcher (`api/jobs/p2pReleaseWatcher.ts`)
selects rows every 15 s, broadcasts releases and cancellations through the
platform wallet (`api/services/platformWallet.ts`) and updates the rows; the
chain mines. Hard: every pair of these steps can be separated by a lost
request, a restart, a deadline or the other party, and `setInterval` overlaps
rounds. Correct when escrow leaves only on the grounds the product promises,
the table never claims what the chain did not see, and every trade ends.

**Dispute court** (`api/routes/disputes.ts`, the settlement routes of
`adminManage.ts`). A party raises a dispute, an admin accepts and judges it, a
verdict rewrites the row for the watcher; other admins can force a settlement.
Every route checks first and writes later. Correct when escrow still leaves
only on its grounds, a dispute has standing, and a verdict happens.

**CCTP bridge** (`web/hooks/useBridge.ts`, `useCompleteBridge.ts`,
`useCircleTx.ts`, `api/services/bridge/*`, `api/routes/bridge.ts`,
`api/services/circleWallets.ts`). The tab burns, waits for the attestation and
mints, reporting each stage to a record that the history panel reads and can
finish from. Hard: the hash of a transaction is not returned but looked up, two
flows work on one record, status writes are unconditional. Correct when the
record never calls a burned transfer harmless, and an owed mint can be made.

**Payroll** (`api/routes/payroll.ts`, `api/services/platformDisbursement.ts`,
the execute page). `execute` gates a batch on the float's balance and starts a
background run. Hard: the run is guarded by a set in memory, payments are
accepted before they are carried out, batches share the float. Correct when
nobody is paid twice, the float suffices, and everybody gets an outcome.

**Ramp orchestrator** (`api/services/ramp/*`, `api/routes/transfers.ts`,
`api/services/cashout.ts`). A transfer is a row with legs; a request, a webhook
and a tick call `advanceTransfer` on it with nothing between them. Correct when
legs run in order, the recipient is paid once, completed means delivered, and a
transfer ends.

**Payment records** (`web/app/(app)/send/page.tsx`, `web/hooks/useSwap.ts`,
`useCorridorSwap.ts`, `useCircleTx.ts`, `web/components/invoice/InvoicePayInner.tsx`,
`api/routes/transactions.ts`, `invoices.ts`, `payments.ts`,
`api/jobs/txSettler.ts`, `api/services/sendReconciler.ts`,
`api/lib/maintenance.ts`). A page moves money and then records it in
`transactions`, `invoices` or `payments`; two jobs settle what stays pending by
the chains' receipts; an admin may take a section down, which refuses the
recording requests too. Hard: four writers of one status, requests that are lost
or refused after the money moved, hashes found by lookup, and a receipt that
does not come. Correct when what reads settled was mined, an outcome once
recorded stays, the second leg of a corridor waits for the first, and what is
pending does not stay so.

**Bridge.xyz accounts** (`api/routes/ramp.ts`, `api/routes/transfers.ts`,
`api/services/bridgexyz/*`, `web/hooks/useRamp.ts`, `web/app/(app)/ramp/page.tsx`).
A hosted verification is mirrored in a row; a virtual account, an external bank
account and a liquidation address are created at Bridge the first time each is
asked for; deposits are reported by webhooks and by a history that the page
polls. Hard: look, create at Bridge and insert are three steps that two tabs and
retries interleave; webhooks are repeated, late or never; two polls' answers
cross. Correct when each rail exists once and the row names it, an outcome is
mailed once, and page and mirror catch up with Bridge.

**Duty** (`api/lib/duty.ts`, `api/jobs/dutyScheduler.ts`, the gated routes of
`disputes.ts` and `adminManage.ts`). A sub-admin may accept disputes and rule on
them only inside hours the general admin set and after clicking "resume duty";
a scheduler reminds, opens and closes sessions every minute on every server.
Hard: the clock, the hours, the session and the assignment are read one after
another, and each may change before the write; nothing keeps a window from
having two sessions or a dispute two judges, or ties the escrow a ruling moves to
the dispute it was let in for. Correct when acceptances fall in resumed sessions,
one sub-admin rules on a dispute, and sessions end.

**Others.** The rate oracle (`api/services/rateOracle.ts`), admin authentication
(`api/services/auth/adminAuth.ts`), migrations, treasury, the exchange contract,
account sessions, notifications. `PROJECT.json` lists each with what is missing
and why.

### How they interact

| from | to | by |
|---|---|---|
| browser | contract | signed calls, mined later or reverted |
| browser | offers API | PATCH after the call is mined, may be lost |
| watcher | table | SELECT, then one UPDATE per row much later |
| watcher | contract | `writeContract`: gas estimation, broadcast, no receipt |
| court | table | rows rewritten for the watcher to find |
| court | contract | forced settlements through the same wallet |
| bridge tab, panel | record | unconditional status writes |
| bridge tab, panel | chains | prompts; the hash comes from a lookup |
| payroll run | Circle | one idempotency key per recipient |
| ramp | provider | one idempotency key per leg; webhooks and polls back |
| send, swap, corridor, invoice pages | chain, then API | money first; then POST and PATCH, which fetch does not fail on a 503 |
| settler, reconciler | `transactions` | SELECT of pending rows, then one receipt and one UPDATE per row |
| maintenance guard | every route of a section | 503 from a cache up to 5 s old; pages hear up to 30 s late |
| ramp page | Bridge.xyz, through the API | one idempotency key per rail; a poll every 8 s, the tracker every 15 s |
| Bridge.xyz | API | webhooks, any number of times |
| court | duty | the gate of accept and resolve; acceptances are counted in the session |

## 2. Modules

| module | models | extends |
|---|---|---|
| `Vault` | the contract, every call one atomic action | |
| `TradePromise` | what the marketplace promises, as an abstract specification | |
| `P2PTrade` | the trade pipeline; contract calls are Vault's actions | `Vault` |
| `DisputeCourt` | disputes and forced settlements over the pipeline | `P2PTrade` |
| `CctpBridge` | tab, panel, record, lookup, chains | |
| `Payroll` | requests, runs, float, Circle, crashes | |
| `RampTransfer` | transfers, legs, tasks, provider, webhooks | |
| `HonestHistory` | what a history of sends and conversions promises, as an abstract specification | |
| `PaymentRecords` | sends, conversions, corridors and invoice payments, their rows, the two jobs, the maintenance guard | |
| `FiatRamp` | verification, rails, deposit webhooks, mails and tracker of Bridge.xyz accounts | |
| `Duty` | hours, sessions, scheduler, and the gated accept and resolve | |
| `VaultProofs`, `CctpBridgeProofs`, `PayrollProofs`, `RampTransferProofs`, `PaymentRecordsProofs`, `FiatRampProofs`, `DutyProofs` | theorems | the module and TLAPS |
| `P2PTradeProofs` | theorems about the pipeline, alone and under the court | `DisputeCourt`, `VaultProofs` |
| `MC...` | instances for TLC (symmetry; Payroll's recipients as pairs; who acts together) | the module |

How state and actions correspond:

* `Vault`: `offers`, `paused`, the two fees and `usdc` are the contract's
  storage and the token's ledger; each external function is an action of the
  same name, its `require`s the guards. `block` stands for time and number in
  the offer id's hash: an id can be met again only by an equal offer in the
  same block. `earned` and `withdrawn` are history.
* `P2PTrade`: `row` is one row of `p2p_offers`; deadlines are kept as running,
  over or silent (24 hours past), since the code only compares them with the
  clock. `web` holds the browser flows between click, mining and PATCH,
  `picked` the rows a job selected and has not finished with, `mempool` what
  the platform broadcast. A job is `Select`, then `Broadcast` (which fails
  quietly when gas estimation would), then `Record`. `grounds` is the history
  the promise is stated over.
* `DisputeCourt`: `calls` holds the requests between their checks and their
  last write, one action per await. A forced settlement's UPDATE and its
  deletion of messages are one action. `MarkDisputed` is where a dispute becomes
  a ground (`disputed`), with what the watcher has in hand at that moment
  (`InHand`): a trade Job3 has selected or confirmed for, a cancellation Job2
  has selected or sent. `Escalate` resolves a dispute without a decision.
* `CctpBridge`: `tab` and `panel` are the program counters of `bridge()` and
  `complete()`, `rec` the record, `found` the hash the lookup returned. The
  catch block's `/failed` and `/cancelled` are a read and a write. `late`
  requests are those the browser saw fail and the API serves nevertheless.
  `ListLags` lets the lookup return another bridge's burn.
* `Payroll`: `request` is `POST /execute` between its awaits, `run` is
  `runBatchPayout` per server and batch, `payout` the transfer under a
  recipient's key at Circle. `Execute` is free for every batch that exists: the
  page's button goes by a copy of the rows that may be as old as the page. The
  float pays the gas of each transfer when it is carried out; one it cannot pay is
  `dry`. `shared` is history: the batches that were open beside another when
  either passed its gate, open being from the gate until the last accepted
  transfer is carried out.
* `RampTransfer`: a `task` is one call of the route, a webhook or the tick
  between its awaits; `job` is the provider's, one per idempotency key.
  `startTransfer`'s un-awaited INSERTs are `inserting`, served in any order at
  any time; `skipped` is history: legs not yet inserted that an
  `advanceTransfer` passed over. A tick reads all legs in one step.
* `PaymentRecords`: a transfer is known by the hash it will have, `hash` is the
  one its page was given, which under `ListLags` may be another's. `page` is
  the program counter of `handleSend`, `useSwap`'s or `useCorridorSwap`'s
  `execute`, `handlePay` or `handlePayWithCircle`, whose common shape (sign,
  find the hash, POST, receipt, PATCH) is one set of actions with the kinds'
  differences in their guards. `row` is `transactions` by hash, so the second
  row of a hash is what the INSERT makes of it: nothing. `sequel` is history: per
  first leg of a corridor, the second. `batch` and `reading` are a job between
  its SELECT, a receipt and its UPDATE. `cached` is the guard's cache, `down`
  the table behind it.
* `FiatRamp`: `req` is what each request under way has read so far, one step
  per await; `made` is what exists at Bridge under each rail's idempotency key,
  `stored` which of it the row names, `link` and `customer` the verification at
  Bridge and its mirror. `got` and `heard` are the answer on its way to a page.
  `Approved` stands for both statuses and for the customer id that
  `requireVerifiedCustomer` wants with them. `raced` is history.
* `Duty`: `req` and `tick` are requests and ticks between their statements.
  A day has `Day` units, schedules are sets of day numbers. `sessions` and
  `judges` are in order of insertion, of which `LIMIT 1` takes the first.
  A ruling carries two disputes, the one of its URL and the one whose escrow its
  body's `offerId` names; `rulings` are the settlements sent, by whom, in which
  dispute and of whose escrow. A second one of the same escrow is sent too, as the
  wallet returns at the broadcast, or fails in gas estimation.

## 3. Runs

| run | instance | shows |
|---|---|---|
| `vault` | 2 users, 2 ids, 2 blocks, amounts 100 and 200 | types, `EscrowCovered`, `SettledIsFinal`, `PaidInFull` |
| `p2p` | 1 offer, 3 users (two takers race, one writes messages), 1 fault, 1 drop | types, `RecordsAreBacked`, `KeepsPromise`, `RecordedTradeSettles`, `ReleaseIsRecorded`, `ChatIsDeleted` |
| `court_safety` | 1 offer, 2 users, 1 admin, 1 dispute, 2 calls at once, Job1 and Job3, 1 fault | types, `DisputeHasStanding`, `CourtKeepsPromise` |
| `bridge_safety` | 2 bridges, 1 lost request or closed tab, 1 late request, 1 drop | types, `CancelledMeansNothingMoved`, `OwedMintIsOffered`, `CompletedHasMint` |
| `payroll` | batches of 2 and 1 on one float of 7, payments of 3 with gas of 1, a buffer of 2, 2 servers, 2 requests, 1 top-up, 1 failing payment, 1 crash | types, `PaidOnce`, `GateHolds`, `CompletedWasSent`, `StartedBatchIsWorkedOff` |
| `ramp_safety` | two of the four plans (onramp without a bridge, collect with one), INSERTs in any order, 2 tasks, 1 lost webhook, 1 fault, reversals | types, `UnskippedLegsInOrder`, `CompletedWasDelivered`, `PaidOutOnce` |
| `records` | 2 transfers of every kind that may meet, 2 sections, SELECTs of 3 rows, a lagging list, 1 fault, 1 switch or click | types, `SettledIsMined`, `LegsInOrder`, `HistoryIsHonest`, `RecordSettles` |
| `fiat_ramp` | 2 requests at once, 2 banks, 1 deposit of 3 events, 1 fault, from signed up, verified or depositing | types, `RailsAgree`, `MailedOnce`, `VerificationIsSeen`, `MirrorCatchesUp` |
| `duty` | 2 sub-admins and a general one, 2 disputes, 2 requests, 1 tick, days of 3, seven casts | types, `AcceptedOnDuty`, `OneJudgeRules`, `ElapsedIsClosed` |

Three runs expect a violation: the code does not do what it says. (What else it
does not keep, found with smaller instances or by reading, is in section 5.)

| run | what the repository says | what happens |
|---|---|---|
| `p2p_lost_accept` | a lost PATCH is "Non-fatal, watcher will catch it" | the watcher selects rows recorded as accepted; this one never is, and the escrow stays |
| `court_refund` | a verdict for the seller executes immediately, "Job1 handles refund" | the row is set to cancelled, which no job looks at |
| `ramp_order` | "never start leg N+1 until leg N is 'done'" (`engine.ts:3-4`) | the legs' INSERTs are not awaited (`engine.ts:32-37`); `advanceTransfer`, called next, finds the second leg before the first is in the table and starts it |

### Bounds

Faults are counted (`MaxFaults`, `MaxLost`, `MaxDrops`, ...) because each
property that one fault can break is broken by the first, and the steps between
which it comes are all in the instance. One offer is enough for the pipeline
since no step relates two rows, except the contract's pot and id collisions
(checked in `vault` with two) and the LIMITs of the SELECTs; the jobs' limits
are the code's, so `ChatIsDeleted` says nothing of more than twenty finished
offers, where Job4 may starve one. `Amounts` are chosen so that the fee rounds
(a fee of 0.5 % or 0.3 % of 100 or 200). `court_safety` has Job1, which executes,
and Job3, whose confirmation a dispute should stop; Job2 refuses rows with a
confirmation, which a dispute requires, and what it had in hand before is in the
theorem, with all jobs. The float of `payroll` passes
the short batch, and the long one only after the top-up (without the buffer in the
gate it would pass at once and run dry); it never has the money of both, so two
gates passed side by side do run it dry. The long batch may be executed on both
servers, the short one on the second. `ListLags` is FALSE in the bridge's run: the
TRUE instance has nearly ten million states; the four properties held of it as
well, in about five and a half minutes. `MCTroubles` keeps two
kinds of trouble of `ramp_safety` apart: faults, lost webhooks and reversals come
to transfers whose INSERTs are all served and overtook nobody, and those with
INSERTs still to be served have no other trouble; together they exceed what a run
may take, and the theorems are about both at once. `ramp_safety` has
`PayoutOnArc` FALSE, under which a transfer from USDC bridges and one from a bank
does not: the planner is called with no other of the four plans but, with TRUE,
that of a USDC transfer without a bridge. `Together` names who shares an instance in `records`: pairs of transfers of one
kind or of kinds that share a row, a chain's list or the invoice, with its
creator; other pairs touch nothing in common but the jobs and the guard, which
two of a kind exercise. One
corridor is all that two transfers can be; an instance with two of them held too
(over a million states), and the theorem is about any number. `Limit` of 3 is all the rows there can be, so
`RecordSettles` says nothing of a SELECT full of rows no job can settle (section
5). `Scopes` splits `fiat_ramp` and `duty` into casts: the stages of an account
whose requests have anything in common (verification; rails; deposits), and
for duty two clicks on one session while hours change or a server stops, one
session after another, one who rules as the session ends, a general admin beside
a sub-admin, two sub-admins who accept one dispute and both rule, and rulings that
name the escrow of another dispute). A day of 3 units with hours of 1 and
reminders 1 ahead has a start, an inside and an end, and two days give a next
window.
Deadlock checking is off everywhere: all these systems may come to rest, when
every trade is settled or every bound is used up.

### Fairness

`P2PTrade!Fairness`: each job's interval fires and its awaits return, blocks
are mined, the clock runs, and a tab that is open sends the request that
follows a mined transaction. Nobody is obliged to click, accept, confirm or
judge. A crash is a counted fault and the process comes back
(`render.yaml` runs it as a web service). `CourtFairSpec` adds that a request
under way runs to its end. `PayrollFairSpec` runs the awaits of a living
server. `RecordsFairSpec` runs the two jobs only: no page need finish.
`FiatFairSpec` serves requests, and while a page is open its timers fire again
and again: strong fairness, as a poll needs a free request slot, which the
bound on tasks takes away and the real server does not. Bridge need neither
deliver a webhook nor decide. `DutyFairSpec` runs requests and ticks; the clock
need not move. The liveness properties
that hold say what they except: a dropped transaction for
`RecordedTradeSettles`, an API stop for `ReleaseIsRecorded`, a crash for
`StartedBatchIsWorkedOff`. Those exceptions are the weak points of the code:
nothing in it comes back to any of the three.

## 4. Theorems

All are for every value of the constants, from the assumptions the modules
state (`VaultAssumption`, `P2PAssumption`, `CourtAssumption`, `BridgeAssumption`,
`PayrollAssumption`, `RampAssumption`, `RecordsAssumption`, `FiatAssumption`,
`DutyAssumption`). These ask for what the constants mean: distinct markers,
natural bounds, and finite sets where the code counts. Type correctness of each module is a theorem (`...TypeCorrect`).

* **`EscrowAlwaysCovered`**. The inductive invariant `Backed` is an equation
  with slack: what live offers are owed plus what was earned is at most the
  balance plus what was withdrawn. `EscrowCovered` alone is not inductive,
  since a withdrawal may leave no slack and the next release needs the fee to be
  counted as earned. The sum over offers is the cardinality of a set of units, one
  per micro-USDC, so each action changes it by `OwedAfterCreate` or
  `OwedAfterSettle` and no induction over the set of offers is needed.
* **`SettledStaysFinal`** and **`SettlingPaysInFull`**, action properties from
  the types alone: `TouchedOffers` names the few calls that change an offer, and
  `FeeSmall` bounds the fee with its rounding for every amount.
* **`RecordsAlwaysBacked`**, from `TradeInv`, a
  conjunction of what the chain says (`ChainFacts`), what a row may say
  (`RowFacts`), what a browser flow carries between mining and PATCH
  (`FlowFacts`), what the watcher holds in hand (`TaskFacts`) and what is in
  the mempool (`TxFacts`). The last two are why stale SELECTs do no more harm
  than the promise allows: the ground a row was selected on does not go away.
  `TradeInv` allows for a court (`Decided`); that the plain pipeline decides
  nothing (`Undecided`) is an invariant of its own.
* **`PipelineDrivesContract`**: every behaviour of the pipeline is, seen
  through the contract's variables, one of the contract; so
  **`TradeEscrowCovered`** follows from the contract's theorem.
* **`PipelineKeepsPromise`**: the pipeline implements `TradePromise` under the
  mapping of contract status to stage and of confirmations and history to
  grounds. Each step is a promise step or a stutter, by `TradeInv`.
* **`TradeStaysInReach`**, the safety half of `RecordedTradeSettles`: an accepted
  row has a window running or is in some job's WHERE clause, and what the job then
  sends can be mined; a final row has its settlement mined or in the mempool, or the
  network dropped one. `ReachInv` adds whoever is about to write a final status
  (a task past its broadcast, a maker's flow past its mined cancellation), and that a
  broadcast release has somebody to pay, so that one that fails when mined was
  overtaken by another settlement. With fairness, which is TLC's, the trade then
  settles. It is about the pipeline alone: under the court the finding
  `court_refund` refutes it.
* **`DisputesHaveStanding`** and **`CourtSettlesOnGrounds`**, from `CourtInv`,
  which adds to `TradeInv` what a request that has passed its checks may still
  count on when it writes (`CallFacts`): the trade was confirmed on chain, the
  judge is on the list, the ground of a verdict or a force is in the history
  before the call reaches the contract. None of these goes away while the
  request waits, which is what makes a check followed by a late write harmless
  here, for any number of admins, disputes and calls at once. For the promise under
  a dispute, `HeardFacts` says what a dispute on record stops: no job takes the
  trade up by the clock any more, a confirmation for the maker is his own or an
  admin's, and the only exceptions are those `InHand` named when the mark was set.
* **`CourtDrivesContract`**: the court, too, moves the escrow through the contract's
  functions only, so **`CourtEscrowCovered`** and **`CourtPaysInFull`** follow: no
  verdict fails for lack of USDC and none pays anybody else or less.
  **`SettledOnceAndForAll`** is stronger than the contract's `SettledIsFinal`: with
  fresh ids a release and a refund that race, or a settlement repeated by another
  job or admin, settle once. **`GroundsAreKept`** turns the promise, which is about
  the moment of settling, into one about every state after it: nothing that is
  recorded late makes a settlement wrong in retrospect, since a ground once given
  stays (`Onward`); in particular a taker's confirmation recorded in time never
  meets a refund no admin decided.
* **`CancelledNeverBurned`**. That a cancelled
  record has no burn is not inductive: nothing in it keeps a later step from
  signing one. `NothingSigned` adds where the tab is: at the steps before
  `depositForBurn` no burn is signed, and a record that reads cancelled has no
  burn and a tab that is done, so none can follow.
* **`CompletedWasMinted`** and **`OwedMintStaysInReach`**, from `BridgesOK`: per
  bridge, what the record may read given where tab and panel are (`RecordOK`),
  what an attestation and a mint in flight imply (`MintOK`), what is known when `/completed`
  is sent (`CompleteOK`) and when `/failed` is (`FailedOK`). Late requests are
  why the record alone is not enough.
* **`NobodyPaidTwice`** and **`CompletedBatchWasSent`**. The first is Circle's
  idempotency key (`CircleOK`) against every run, request and retry. For the
  second, `RunOK` says what a run's count proves when it settles late: an
  accepted transfer is never forgotten, so a count of none left stays true.
* **`GateKeepsTheFloat`**: no transfer of a batch finds the float short, but for a
  batch that was open beside another when either passed its gate (`shared`) or
  whose gas exceeds the buffer; the code sees to neither (section 5), and there is
  no other way, whatever batches came before, and however servers, requests, crashes,
  top-ups and failing payments interleave. The invariant `GateInv` says that outside
  `shared` one batch is open at a time (`Alone`), and bounds the recipients whose
  transfer may still take money (`Drawable`), each with its gas, by the balance, from
  the moment a request passes the gate to the last transfer carried out
  (`FloatCovers`). `GateHolds` alone says nothing of the next transfer. A crash or a
  failed payment only shrinks the set, and a second execute of a batch adds nobody to
  it, because Circle's key has the accepted ones.
* **`NobodyIsStranded`**, the safety half of `StartedBatchIsWorkedOff`: with no
  crash, a recipient who reads `processing` is in the hands of a run, and a
  pending one of a batch that reads `processing` has a run that holds it or a
  request about to start one. `StrandInv` adds that a run between its SELECT and
  its end holds all that is pending (`RunsHoldPending`), also when two servers
  run one batch and each writes its own verdict.
* **`PaysOutOnce`** from `BaseInv`, with `JobsOK` for the provider's key; and
  **`RampLegsInOrder`** and **`CompletedMeansDelivered`** from `OrderInv`, which
  says of every task (`OrderOK`) that the leg it holds had all its predecessors
  done or passed over when it read them, and that done legs stay done. With
  INSERTs nobody awaits the order of `engine.ts:3-4` does not hold (`ramp_order`);
  the theorems say that a leg not yet inserted when `advanceTransfer` read them is
  the only thing that breaks it, or that completes an undelivered transfer.
* **`SettledWasMined`** and **`HistoryStaysHonest`**,
  from `RecordsInv`. What a row says depends on what its page or a job knew when
  it wrote, so the invariant says what each of them knows: a page that has
  signed nothing has no hash (`Unsigned`), one with a hash has a broadcast
  transfer (`HashShown`), one about to report settled or failed has seen the
  chain decide so (`PagesKnow`), and a job with a receipt in hand holds a row
  of its chain that was decided (`JobsKnow`); `RowsAreTrue` is then kept by every
  writer. The refinement follows: each step changes at most one entry, and as
  the invariant allows it. **`FailureIsReal`** and **`OutcomesAreFinal`** say what a
  reader has of it: a send or conversion that reads failed reverted, so it may be
  made again, and no later step rewrites an outcome.
* **`SecondLegWaits`**, from `CorridorInv`: what a second leg rests on is what its
  page saw of the first, so the invariant relates the two by `sequel`
  (`SequelsOK`), says that a second leg which left its queue was given up or
  follows a hash that is mined (`FirstLegFirst`), and that a row which reads failed
  is the chain's word or that of a leg whose corridor went no further
  (`FailuresHaveCause`). It is for any number of corridors at once, of legs whose
  hash no page was given wrongly, as the property says.
* **`RailsNeverDiverge`** and **`MailsOnce`**, from `FiatInv`: a request that is
  about to insert a rail holds the object its key made (`RequestOK`), and a key
  makes one (`RailsOK`). For the mail, `ClaimsOK` relates claims, mails sent and
  requests between their look and their claim, unless two were there together
  (`raced`).
* **`AcceptancesAreOnDuty`** and **`FirstJudgeRules`**.
  For the first, a request past its gate has a session it was resumed for whose
  end is beyond the date it carries: sessions keep their admin, start and
  `resumed`, so the witness outlives every later change. For the second, a
  request of a sub-admin that is about to send a settlement has seen itself first
  on the list of the dispute in its URL, whichever escrow the settlement names, and
  an append leaves the first where it is; and a request that is about to resolve
  has a settlement sent in that dispute (`RuledBefore`).

Model-checked only: the liveness properties (`RecordedTradeSettles`,
`ReleaseIsRecorded`, `ChatIsDeleted`, `StartedBatchIsWorkedOff`, `RecordSettles`,
`VerificationIsSeen`, `MirrorCatchesUp`, `ElapsedIsClosed`), which with fairness and
ENABLED are beyond the prover. Of two of them the safety half is proved above; for
the others it is the WHERE clause of a job and says nothing by itself.

## 5. What is left out

* `P2PTrade` takes it that `executeContractCall` returns the hash of its own
  transaction. It looks it up among the last two minutes' calls of the same
  contract, as `CctpBridge` models under `ListLags`; a wrong hash there would
  break `RecordsAreBacked`.
* `POST /offers/:id/dispute` (`offers.ts:194-222`), which no page calls,
  inserts a dispute without the checks of `POST /disputes`.
* The court's instance has one admin; several admins, who is on duty, and the
  `offerId` of a ruling's body are in `Duty`; `DisputeCourt` has the dispute's own
  offer there, as the pages send it. `POST /admin/manage/disputes/:id/resolve` (`adminManage.ts:500-565`)
  is gated there, but the disputes page settles through
  `PATCH /disputes/:id/resolve`, which is not. The guard of the forced settlements looks for open disputes only
  (`adminManage.ts:392`), so one in review is not protected, against the
  comment at `:378`; `CourtKeepsPromise` counts the force as an admin's
  decision.
* Bridge: one user and one chain pair; the panel acts on the current record
  though its rows are up to 20 s old; `approve`'s own lookup is not
  distinguished; late requests other than `/burned` do not outlive their flow.
* Payroll: `PATCH /recipients/:id` and `DELETE /batches/:id` (no page calls
  them); the hash a payment is shown with; a page that executes a batch still being
  created. To a page that is up to date the execute button's guard makes a batch
  with failed payments, or one interrupted by a restart, impossible to execute
  again, against `payroll.ts:185-186` and
  `PayrollExecuteContent.tsx:145`. `confirm` of a top-up compares the whole
  float with the amount (`payroll.ts:427`).
* Ramp: the mock provider, the tick's age cutoff, webhook statuses other than
  final ones, validation before a cash-out, and the real CCTP call, which is
  not implemented. A reversal of a finished leg is modelled as the code has
  it: ignored (`webhook.ts:44-45`).
* Payment records: `platform`, which takes every section down at once; reads;
  the age a row must have before a job selects it; who is signed in, except that
  `POST /payments` may be refused for want of it; the event listener
  (`services/eventListener.ts:43-71`). Of these pages only the payment of an invoice
  by wallet emits its Memo event (`InvoicePayInner.tsx:123-128`), as type
  `p2p-create`, which its switch passes over; so it writes none of these rows.
* Bridge.xyz accounts: corridors and endorsements, `simulate-approve`, drains
  (they are read and shown only), what the user typed beyond which bank it is.
* Duty: permissions, account status, the deletion of an admin, the counts and
  the audit log of a session.
* E-mails other than the deposits', notifications, attachments, the float-rate
  freeze. The components of section 1 under "Others": they share no state with
  what is modelled (rates, sign-in of admins, migrations, treasury alerts), or
  have no more than one step (`AfriFXExchange`).

### What the code does not keep

Beside the two runs above; each was met while modelling, and the properties are
stated so as to except it.

* Trades: Job2 may cancel a trade whose taker has confirmed on chain and whose
  PATCH comes after its SELECT. The promise counts a confirmation on record.
* Disputes: `README.md:43` says that once one is raised "an admin must resolve it;
  there is no automatic release", and `disputes.ts:81` the same. Job3 selects rows
  without a dispute (`p2pReleaseWatcher.ts:151`) and updates them later by their id
  alone (`:156-162`); a dispute raised in between, or one whose INSERT is served and
  whose mark on the offer is not yet, or never if the API stops there
  (`disputes.ts:125-141`), does not stop it, and Job1 then releases with the dispute
  open. Likewise a cancellation Job2 has in hand goes out. Job1 looks at no dispute
  at all, so both parties' own confirmations release during one, without an admin.
  `TradePromise` allows these and no other: under a dispute on record only what was
  in hand when it was marked may still run by the clock.
* Rulings: the comment at `adminManage.ts:509-514` wants a sub-admin to settle only
  the dispute assigned to them. The assignment of the URL's dispute is checked
  (`:525-541`), but the `offerId` of the body is settled (`:502`, `:548-552`), and
  nothing compares it with the dispute's offer, so a mistaken body settles another
  trade. The wallet returns at the broadcast (`platformWallet.ts:50-58`), so a
  second settlement of one offer may also be recorded. `OneJudgeRules` is about
  who rules in a dispute, whichever escrow the ruling names.
* Conversions: `transactions.ts:94-101` says a confirmation on chain records
  `funded` for a conversion that ends at a bank, and only the payout makes it
  `settled`. `useSwap.ts:105` and `txSettler.ts:65-76` write `settled` on the
  receipt; every caller of the PATCH passes a status, so its default `funded` is
  never written, and no payout touches these rows. `HonestHistory` therefore calls
  such an entry confirmed: it is the chain's word, not the bank's.
* Bridge: when the lookup of the burn gives up, the browser reports `failed`
  without a hash, though the burn may be mined later: not "No funds moved. Safe."
  (`bridge/repository.ts:16`).
* Payroll: two batches may pass the balance gate on one balance
  (`payroll.ts:341`) and the float run dry between them, against
  `payroll.ts:181-182` ("so a batch never half-pays and runs dry"); and the buffer
  for gas is the same for a batch of any size (`payroll.ts:331-338`), so that a long
  one may exceed it. `GateHolds` excepts both and `payroll` reaches the first.
* Ramp: with no leg inserted yet `advanceTransfer` finds none that is not done and
  completes the transfer (`engine.ts:59-62`) with nothing collected or delivered;
  with some inserted it starts one out of order, or passes over the offramp and
  completes on the legs it sees. `CompletedWasDelivered` excepts a transfer whose
  offramp leg was passed over.
* Ramp: with one webhook lost, the tick marks the offramp leg done and leaves the
  payout leg in flight with no `provider_ref` (`engine.ts:165`), which no tick or
  webhook can find; `reconciler.ts:2-5` is there for missed webhooks.
* Invoices: `invoices.ts:121` says "Only mark as 'paid' if tx actually succeeded
  on-chain". Circle's payer marks it paid on a hash, or none
  (`InvoicePayInner.tsx:211-222`); a payer whose page throws takes the mark of
  another back to `sent`; and a paid invoice can be cancelled by a creator whose
  page still showed it unpaid (`invoices.ts:99-113`). A payer by wallet who is
  not signed in gets a 400 for the payment, which the page does not see.
* Corridor: a receipt that times out records a leg as failed though it is mined
  (`useCorridorSwap.ts:81-89`), and a leg given the hash of an earlier one lets
  the second go before its own first is mined, against `useCorridorSwap.ts:11-13`.
* Conversions whose hash never showed are recorded under `''`; the second such
  row is ignored, and no job can settle the first. Enough rows no job can settle
  fill a SELECT of `LIMIT` rows, unordered, and starve the rest
  (`txSettler.ts:46-53`).
* Maintenance: `maintenance.ts:8` says "IN-FLIGHT WORK STILL COMPLETES", but with
  Convert down the POST and PATCH of a send under way are refused, since
  `/transactions` is guarded as `convert` whatever the row is for; the row of a
  send is then never written.
* Deposits: `bridgexyz/repository.ts:324` says "Atomically claim" and `:344` "the real
  backstop", but both of two racing claims return true and both mail. An event
  whose handling stops after `recordWebhookEvent` is a duplicate when it comes
  again, so its mail is never sent; an event known only from the history never
  mails; a claim is spent although the account's row is not there yet.
* Verification: two polls can leave the mirror behind what the page shows, so a
  page that says verified gets a 409 when it asks for a rail.
* Duty: two servers insert a `scheduled` row each, and the second reads `missed`
  though the shift was worked; a resume between the scheduler's SELECT and its
  UPDATE gives a `missed` row with a time of resumption; an accept in flight
  writes `in_review` over `resolved`. `dutyScheduler.ts:11-12` says an admin
  whose session is over can finish a dispute; the gated resolve refuses it.

## 6. Plan

Done, in the order of importance: `Vault`, `TradePromise`, `P2PTrade` and their
theorems; `DisputeCourt` over the pipeline; `CctpBridge`; `Payroll`,
`RampTransfer`; `PaymentRecords` with the maintenance guard; `FiatRamp`; `Duty`.
What would come next:

1. The maintenance guard composed with `P2PTrade`: the allow-list
   (`maintenance.ts:98-109`) does not match `PATCH /offers/:id`, by which the
   trade page records its steps.
2. `Duty` composed with `DisputeCourt`, so that a gated verdict and a forced
   settlement meet on one trade.
3. Admin sessions and lockout; the rate oracle with the freeze of a float offer.
4. Proofs: the bridge as an implementation of an abstract transfer of one amount.
