------------------------------ MODULE Payroll ------------------------------
(***************************************************************************)
(* Batch payroll (routes/payroll.ts): an employer's batch of recipients is *)
(* paid from the float, one wallet at Circle shared by all batches.        *)
(* POST /execute gates the batch on the float's balance, marks it and      *)
(* starts runBatchPayout in the background; the page that shows the batch  *)
(* (PayrollExecuteContent.tsx) decides when its button can be pressed.     *)
(*                                                                         *)
(* Every recipient is owed the same Amount, and a transfer costs Gas,      *)
(* which Arc takes from the float too.  sendUsdc returns when Circle       *)
(* accepts the transfer; Circle carries it out, or not, later.  More than  *)
(* one server runs while a deployment replaces another.                    *)
(***************************************************************************)
EXTENDS Naturals, FiniteSets

CONSTANTS
  Recipients, Batches, NoOne,
  BatchOf,      \* the batch of each recipient
  Servers,      \* processes of the API
  Requests,     \* bound: /execute requests served at the same time
  Routes,       \* bound: which of them reaches which server for which batch
  TopUps,       \* transfers of one Amount an employer may announce
  Funds,        \* the float at the start
  Amount, Gas,  \* what a recipient is owed, and what a transfer costs
  GasBuffer,    \* CIRCLE_GAS_BUFFER_USDC
  MaxExecutes,  \* bound: /execute requests altogether
  MaxThrows,    \* bound: calls to Circle that throw
  MaxCrashes    \* bound: servers that crash and database writes that are lost

ASSUME PayrollAssumption ==
  /\ IsFiniteSet(Recipients) /\ IsFiniteSet(TopUps)
  /\ BatchOf \in [Recipients -> Batches]
  /\ NoOne \notin Recipients
  /\ Routes \subseteq Requests \X Servers \X Batches
  /\ Funds \in Nat /\ Amount \in Nat \ {0} /\ Gas \in Nat /\ GasBuffer \in Nat
  /\ MaxExecutes \in Nat /\ MaxThrows \in Nat /\ MaxCrashes \in Nat

VARIABLES
  batch,      \* payroll_batches.status
  person,     \* payroll_recipients.status
  request,    \* /execute requests being served
  run,        \* per server and batch, where runBatchPayout is
  topup,      \* payroll_disbursement_funding.status
  landed,     \* top-ups that arrived
  balance,    \* of the float
  payout,     \* at Circle, the transfer under a recipient's idempotency key
  transfers,  \* history: transfers Circle made for a recipient
  executes, throws, crashes,  \* history: requests and faults so far
  shared      \* history: batches that were open together, since one passed
              \* the gate while the other was

funding == <<topup, landed>>
circle == <<balance, payout, transfers>>
counts == <<executes, throws, crashes>>
payrollVars == <<batch, person, request, run, topup, landed,
                 balance, payout, transfers, executes, throws, crashes, shared>>

NoRequest == [step |-> "none"]
RequestAt == [step: {"checking", "summing", "gating", "marking", "starting"},
              server: Servers, batch: Batches, owed: 0 .. Cardinality(Recipients)]

NoRun == [step |-> "off", todo |-> {}, now |-> NoOne, verdict |-> "none"]
RunAt == [step: {"off", "selecting", "sending", "paying", "recording", "failing",
                 "counting", "settling", "leaving"},
          todo: SUBSET Recipients,            \* the SELECT's rows not begun
          now: Recipients \cup {NoOne},       \* the one in the loop's body
          verdict: {"none", "processing", "partial", "completed"}]

PayrollTypeOK ==
  /\ batch \in [Batches -> {"absent", "draft", "processing", "partial", "completed"}]
  /\ person \in [Recipients -> {"absent", "pending", "processing", "paid", "failed"}]
  /\ request \in [Requests -> {NoRequest} \cup RequestAt]
  /\ run \in [Servers \X Batches -> RunAt]
  /\ topup \in [TopUps -> {"none", "pending", "confirmed", "failed"}]
  /\ landed \subseteq TopUps
  /\ balance \in Nat
  /\ payout \in [Recipients -> {"none", "accepted", "mined", "dry"}]
  /\ transfers \in [Recipients -> Nat]
  /\ executes \in 0 .. MaxExecutes /\ throws \in 0 .. MaxThrows /\ crashes \in 0 .. MaxCrashes
  /\ shared \subseteq Batches

PayrollInit ==
  /\ batch = [b \in Batches |-> "absent"]
  /\ person = [r \in Recipients |-> "absent"]
  /\ request = [q \in Requests |-> NoRequest]
  /\ run = [w \in Servers \X Batches |-> NoRun]
  /\ topup = [t \in TopUps |-> "none"]
  /\ landed = {}
  /\ balance = Funds
  /\ payout = [r \in Recipients |-> "none"]
  /\ transfers = [r \in Recipients |-> 0]
  /\ executes = 0
  /\ throws = 0
  /\ crashes = 0
  /\ shared = {}

PayeesOf(b) == {r \in Recipients : BatchOf[r] = b}
In(b, statuses) == {r \in PayeesOf(b) : person[r] \in statuses}
Owed(b) == Cardinality(In(b, {"pending", "processing"}))

(* A batch is open from the gate it passes until no request or run works   *)
(* it and none of its transfers is waiting at Circle.                      *)
Engaged(b) ==
  \/ \E q \in Requests : request[q].step \in {"marking", "starting"} /\ request[q].batch = b
  \/ \E s \in Servers : run[<<s, b>>].step # "off"

Open(b) == Engaged(b) \/ \E r \in PayeesOf(b) : payout[r] = "accepted"

-----------------------------------------------------------------------------
(* POST /batches inserts the batch, then its recipients one by one; a      *)
(* crash between leaves the first of them.  Nobody executes a batch whose  *)
(* creation is still being served.                                         *)
CreateBatch(b) ==
  /\ batch[b] = "absent"
  /\ \E rs \in SUBSET PayeesOf(b) :
       /\ \/ rs = PayeesOf(b) /\ UNCHANGED crashes
          \/ crashes < MaxCrashes /\ crashes' = crashes + 1
       /\ person' = [r \in Recipients |-> IF r \in rs THEN "pending" ELSE person[r]]
  /\ batch' = [batch EXCEPT ![b] = "draft"]
  /\ UNCHANGED <<request, run, funding, circle, executes, throws>>

-----------------------------------------------------------------------------
(* POST /batches/:id/execute, one action per await. *)

(* The button of PayrollExecuteContent.tsx goes by the page's copy of the  *)
(* rows, which is read again only while it shows 'processing': a page left *)
(* open since the draft sends the request whatever has become of the batch.*)
Execute(q, s, b) ==
  /\ <<q, s, b>> \in Routes
  /\ request[q] = NoRequest
  /\ executes < MaxExecutes
  /\ executes' = executes + 1
  /\ batch[b] # "absent"
  /\ request' = [request EXCEPT ![q] =
       [step |-> "checking", server |-> s, batch |-> b, owed |-> 0]]
  /\ UNCHANGED <<batch, person, run, funding, circle, throws, crashes>>

Answer(q) == request' = [request EXCEPT ![q] = NoRequest]
RequestGoes(q, to) == request' = [request EXCEPT ![q].step = to]

CheckStatus(q) ==
  /\ request[q].step = "checking"
  /\ IF batch[request[q].batch] = "completed" THEN Answer(q) ELSE RequestGoes(q, "summing")
  /\ UNCHANGED <<batch, person, run, funding, circle, counts>>

SumOwed(q) ==
  /\ request[q].step = "summing"
  /\ LET owed == Owed(request[q].batch) IN
       IF owed = 0
       THEN Answer(q)
       ELSE request' = [request EXCEPT ![q].step = "gating", ![q].owed = owed]
  /\ UNCHANGED <<batch, person, run, funding, circle, counts>>

OpenedBeside(b) == {c \in Batches \ {b} : Open(c)}

Pass(q) ==
  /\ RequestGoes(q, "marking")
  /\ LET b == request[q].batch IN
       shared' = IF OpenedBeside(b) = {} THEN shared ELSE shared \cup OpenedBeside(b) \cup {b}

GateWithoutBuffer(q) ==
  /\ request[q].step = "gating"
  /\ IF balance < request[q].owed * Amount THEN Answer(q) /\ UNCHANGED shared ELSE Pass(q)
  /\ UNCHANGED <<batch, person, run, funding, circle, counts>>

Gate(q) ==
  /\ request[q].step = "gating"
  /\ IF balance < request[q].owed * Amount + GasBuffer
     THEN Answer(q) /\ UNCHANGED shared
     ELSE Pass(q)
  /\ UNCHANGED <<batch, person, run, funding, circle, counts>>

MarkBatch(q) ==
  /\ request[q].step = "marking"
  /\ batch' = [batch EXCEPT ![request[q].batch] = "processing"]
  /\ RequestGoes(q, "starting")
  /\ UNCHANGED <<person, run, funding, circle, counts>>

(* runningBatches is looked up and added to without an await between.      *)
Start(q) ==
  /\ request[q].step = "starting"
  /\ LET w == <<request[q].server, request[q].batch>> IN
       run' = IF run[w].step = "off" THEN [run EXCEPT ![w].step = "selecting"] ELSE run
  /\ Answer(q)
  /\ UNCHANGED <<batch, person, funding, circle, counts>>

-----------------------------------------------------------------------------
(* runBatchPayout on server s. *)

RunGoes(s, b, from, to) ==
  run[<<s, b>>].step = from /\ run' = [run EXCEPT ![<<s, b>>].step = to]

Select(s, b) ==
  /\ run[<<s, b>>].step = "selecting"
  /\ run' = [run EXCEPT ![<<s, b>>].step = "sending", ![<<s, b>>].todo = In(b, {"pending"})]
  /\ UNCHANGED <<batch, person, request, funding, circle, counts>>

(* ... SET status = 'processing' ... AND status = 'pending'                *)
Take(s, b) ==
  /\ run[<<s, b>>].step = "sending"
  /\ \E r \in run[<<s, b>>].todo :
       /\ run' = [run EXCEPT ![<<s, b>>].step = "paying", ![<<s, b>>].now = r,
                             ![<<s, b>>].todo = @ \ {r}]
       /\ person' = [person EXCEPT ![r] = IF @ = "pending" THEN "processing" ELSE @]
  /\ UNCHANGED <<batch, request, funding, circle, counts>>

PayUnderFreshKey(s, b) ==
  /\ RunGoes(s, b, "paying", "recording")
  /\ LET r == run[<<s, b>>].now IN
       /\ payout' = [payout EXCEPT ![r] = "accepted"]
       /\ transfers' = [transfers EXCEPT ![r] = @ + 1]
  /\ UNCHANGED <<batch, person, request, funding, balance, counts>>

(* sendUsdc: Circle creates one transfer per idempotency key and answers   *)
(* with it again when the key is repeated.                                 *)
Pay(s, b) ==
  /\ RunGoes(s, b, "paying", "recording")
  /\ LET r == run[<<s, b>>].now IN
       IF payout[r] = "none"
       THEN /\ payout' = [payout EXCEPT ![r] = "accepted"]
            /\ transfers' = [transfers EXCEPT ![r] = @ + 1]
       ELSE UNCHANGED <<payout, transfers>>
  /\ UNCHANGED <<batch, person, request, funding, balance, counts>>

(* Circle refuses, its answer is lost, or the write of 'paid' fails.       *)
PaymentThrows(s, b) ==
  /\ throws < MaxThrows
  /\ RunGoes(s, b, "paying", "failing") \/ RunGoes(s, b, "recording", "failing")
  /\ throws' = throws + 1
  /\ UNCHANGED <<batch, person, request, funding, circle, executes, crashes>>

NextRecipient(s, b) == run' = [run EXCEPT ![<<s, b>>].step = "sending", ![<<s, b>>].now = NoOne]

RecordSent(s, b) ==
  /\ run[<<s, b>>].step = "recording"
  /\ NextRecipient(s, b)
  /\ person' = [person EXCEPT ![run[<<s, b>>].now] = "sent"]
  /\ UNCHANGED <<batch, request, funding, circle, counts>>

RecordPaid(s, b) ==
  /\ run[<<s, b>>].step = "recording"
  /\ NextRecipient(s, b)
  /\ person' = [person EXCEPT ![run[<<s, b>>].now] = "paid"]
  /\ UNCHANGED <<batch, request, funding, circle, counts>>

RecordNothing(s, b) ==
  /\ run[<<s, b>>].step = "failing"
  /\ NextRecipient(s, b)
  /\ UNCHANGED <<batch, person, request, funding, circle, counts>>

(* The catch block; when its own write fails too, that is ignored.         *)
RecordFailed(s, b) ==
  /\ run[<<s, b>>].step = "failing"
  /\ NextRecipient(s, b)
  /\ \/ /\ person' = [person EXCEPT ![run[<<s, b>>].now] = "failed"]
        /\ UNCHANGED crashes
     \/ /\ crashes < MaxCrashes
        /\ crashes' = crashes + 1
        /\ UNCHANGED person
  /\ UNCHANGED <<batch, request, funding, circle, executes, throws>>

(* 15 seconds for each paid recipient's hash to become known; which hash a *)
(* row shows is left out.                                                  *)
Backfill(s, b) ==
  /\ run[<<s, b>>].todo = {}
  /\ RunGoes(s, b, "sending", "counting")
  /\ UNCHANGED <<batch, person, request, funding, circle, counts>>

VerdictOfPending(b) ==
  IF In(b, {"pending"}) # {} THEN "processing" ELSE "completed"

Verdict(b) ==
  IF In(b, {"pending", "processing"}) # {} THEN "processing"
  ELSE IF In(b, {"failed"}) # {} THEN "partial"
  ELSE "completed"

Count(s, b) ==
  /\ run[<<s, b>>].step = "counting"
  /\ run' = [run EXCEPT ![<<s, b>>].step = "settling", ![<<s, b>>].verdict = Verdict(b)]
  /\ UNCHANGED <<batch, person, request, funding, circle, counts>>

Settle(s, b) ==
  /\ RunGoes(s, b, "settling", "leaving")
  /\ batch' = [batch EXCEPT ![b] = run[<<s, b>>].verdict]
  /\ UNCHANGED <<person, request, funding, circle, counts>>

(* The finally block, once the answer to that write is back.               *)
Leave(s, b) ==
  /\ run[<<s, b>>].step = "leaving"
  /\ run' = [run EXCEPT ![<<s, b>>] = NoRun]
  /\ UNCHANGED <<batch, person, request, funding, circle, counts>>

-----------------------------------------------------------------------------
(* POST /disbursement/fund, which usePayrollFunding.ts sends with the hash *)
(* of the employer's transfer, keeps a row of it and confirms it against   *)
(* the balance; only the history page reads the row.                       *)

Fund(t) ==
  /\ topup[t] = "none" /\ t \in landed
  /\ topup' = [topup EXCEPT ![t] = IF balance >= Amount THEN "confirmed" ELSE "pending"]
  /\ UNCHANGED <<batch, person, request, run, landed, circle, counts>>

BalanceReadThrows(t) ==
  /\ topup[t] = "none" /\ t \in landed
  /\ throws < MaxThrows
  /\ throws' = throws + 1
  /\ topup' = [topup EXCEPT ![t] = "failed"]
  /\ UNCHANGED <<batch, person, request, run, landed, circle, executes, crashes>>

(* The employer's transfer arrives (external). *)
TopUpLands(t) ==
  /\ t \notin landed
  /\ landed' = landed \cup {t}
  /\ balance' = balance + Amount
  /\ UNCHANGED <<batch, person, request, run, topup, payout, transfers, counts>>

-----------------------------------------------------------------------------
(* Circle carries an accepted transfer out, or cannot (external). *)
CarryOut(r) ==
  /\ payout[r] = "accepted"
  /\ IF balance >= Amount + Gas
     THEN payout' = [payout EXCEPT ![r] = "mined"] /\ balance' = balance - (Amount + Gas)
     ELSE payout' = [payout EXCEPT ![r] = "dry"] /\ UNCHANGED balance
  /\ UNCHANGED <<batch, person, request, run, funding, transfers, counts>>

(* What a server was doing is lost, runningBatches with it.                *)
Crash(s) ==
  /\ crashes < MaxCrashes
  /\ crashes' = crashes + 1
  /\ run' = [w \in Servers \X Batches |-> IF w[1] = s THEN NoRun ELSE run[w]]
  /\ request' = [q \in Requests |->
       IF request[q] # NoRequest /\ request[q].server = s THEN NoRequest ELSE request[q]]
  /\ UNCHANGED <<batch, person, funding, circle, executes, throws>>

RequestNext(q) ==
  \/ Gate(q)
  \/ (CheckStatus(q) \/ SumOwed(q) \/ MarkBatch(q) \/ Start(q)) /\ UNCHANGED shared

RunNext(s, b) ==
  /\ \/ Select(s, b) \/ Take(s, b) \/ Pay(s, b) \/ PaymentThrows(s, b)
     \/ RecordPaid(s, b) \/ RecordFailed(s, b) \/ Backfill(s, b)
     \/ Count(s, b) \/ Settle(s, b) \/ Leave(s, b)
  /\ UNCHANGED shared

OutsideNext ==
  /\ \/ \E b \in Batches : CreateBatch(b)
     \/ \E q \in Requests, s \in Servers, b \in Batches : Execute(q, s, b)
     \/ \E s \in Servers : Crash(s)
     \/ \E t \in TopUps : TopUpLands(t) \/ Fund(t) \/ BalanceReadThrows(t)
     \/ \E r \in Recipients : CarryOut(r)
  /\ UNCHANGED shared

PayrollNext ==
  \/ \E q \in Requests : RequestNext(q)
  \/ \E s \in Servers, b \in Batches : RunNext(s, b)
  \/ OutsideNext

PayrollSpec == PayrollInit /\ [][PayrollNext]_payrollVars

(* A server that does not crash runs on; no user has to do anything.       *)
PayrollFairSpec ==
  /\ PayrollSpec
  /\ \A q \in Requests : WF_payrollVars(RequestNext(q))
  /\ \A s \in Servers, b \in Batches : WF_payrollVars(RunNext(s, b))

-----------------------------------------------------------------------------
(* Properties. *)

(* Nobody is paid twice, by two servers that work the same batch, a crash  *)
(* between Circle's answer and the write of it, or a second execute: rule  *)
(* 2 of runBatchPayout (payroll.ts:183-184).                               *)
PaidOnce == \A r \in Recipients : transfers[r] <= 1

(* A batch that reads completed has had every recipient's transfer         *)
(* accepted by Circle, though two servers count and settle it at their own *)
(* pace and overwrite each other's rows ("Settle the batch status from the *)
(* actual recipient outcomes", payroll.ts:285).                            *)
CompletedWasSent ==
  \A b \in Batches : batch[b] = "completed" =>
    \A r \in PayeesOf(b) : person[r] # "absent" => payout[r] # "none"

(* No transfer of a batch finds the float short that the gate let through  *)
(* ("a batch never half-pays and runs dry", rule 1, payroll.ts:181-182),   *)
(* down to the gas of the last payout (payroll.ts:331-334), whatever is    *)
(* repeated, crashes or throws.  Two cases are excepted because the code   *)
(* does not see to them: batches open together each passed against the     *)
(* balance that pays them all, and the buffer is the same for a batch of   *)
(* any size, so that the gas of a long one may exceed it.                  *)
GasFits(b) == Cardinality(PayeesOf(b)) * Gas <= GasBuffer

GateHolds ==
  \A r \in Recipients : payout[r] = "dry" =>
    BatchOf[r] \in shared \/ ~ GasFits(BatchOf[r])

(* Of a batch that reads processing every recipient gets an outcome, paid  *)
(* or failed, unless a server crashes: whatever requests repeat the        *)
(* execute, a run of it has everybody who is pending (payroll.ts:209-240). *)
StartedBatchIsWorkedOff ==
  \A b \in Batches : batch[b] = "processing" ~> Owed(b) = 0 \/ crashes > 0
=============================================================================
