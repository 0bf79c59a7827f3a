--------------------------- MODULE PayrollProofs ---------------------------
(***************************************************************************)
(* Proofs about batch payroll, for any recipients, batches, servers,       *)
(* requests and faults: type correctness, that nobody is paid twice, that  *)
(* a batch which reads completed has every transfer accepted, when the     *)
(* balance gate holds, and that without a crash nobody is left behind.     *)
(***************************************************************************)
EXTENDS Payroll, FiniteSetTheorems, TLAPS

-----------------------------------------------------------------------------
(* Nobody who has a row loses it, and no accepted transfer is forgotten:   *)
(* so what a run has counted stays true however late it settles, as long   *)
(* as no recipient is added to its batch.                                  *)

Present == {r \in Recipients : person[r] # "absent"}
Sent(b) == \A r \in PayeesOf(b) : r \in Present => payout[r] # "none"

RunOK(w) ==
  /\ run[w].step \in {"paying", "recording", "failing"} => run[w].now \in Recipients
  /\ run[w].step = "recording" => payout[run[w].now] # "none"
  /\ run[w].step # "off" => batch[w[2]] # "absent"
  /\ run[w].step = "settling" => run[w].verdict # "none"
  /\ run[w].todo \subseteq Present
  /\ run[w].now # NoOne => run[w].now \in Present
  /\ run[w].verdict = "completed" => batch[w[2]] # "absent" /\ Sent(w[2])

RunsOK == \A w \in Servers \X Batches : RunOK(w)

RequestsOK ==
  \A q \in Requests : request[q] # NoRequest => batch[request[q].batch] # "absent"

RowsOK ==
  /\ \A r \in Recipients : person[r] = "paid" => payout[r] # "none"
  /\ \A b \in Batches : batch[b] = "completed" => Sent(b)

CircleOK ==
  \A r \in Recipients : transfers[r] <= 1 /\ (payout[r] = "none" => transfers[r] = 0)

PayrollInv == PayrollTypeOK /\ RunsOK /\ RequestsOK /\ RowsOK /\ CircleOK

-----------------------------------------------------------------------------
(* Type correctness. *)

LEMMA OwedType ==
  ASSUME NEW b
  PROVE  Owed(b) \in 0 .. Cardinality(Recipients)
<1>1. In(b, {"pending", "processing"}) \subseteq Recipients  BY DEF In, PayeesOf
<1>2. /\ Cardinality(In(b, {"pending", "processing"})) \in Nat
      /\ Cardinality(Recipients) \in Nat
      /\ Cardinality(In(b, {"pending", "processing"})) <= Cardinality(Recipients)
  BY <1>1, PayrollAssumption, FS_Subset, FS_CardinalityType
<1> QED  BY <1>2 DEF Owed

LEMMA InitInv == PayrollInit => PayrollInv
<1> SUFFICES ASSUME PayrollInit PROVE PayrollInv
  OBVIOUS
<1>1. Cardinality({}) = 0 /\ Cardinality(TopUps) \in Nat
  BY PayrollAssumption, FS_EmptySet, FS_CardinalityType
<1>2. PayrollTypeOK
  BY <1>1, PayrollAssumption DEF PayrollInit, PayrollTypeOK, NoRun, RunAt
<1>3. RunsOK  BY DEF PayrollInit, RunsOK, RunOK, NoRun
<1>4. RequestsOK  BY DEF PayrollInit, RequestsOK
<1>5. RowsOK /\ CircleOK  BY DEF PayrollInit, RowsOK, CircleOK
<1> QED  BY <1>2, <1>3, <1>4, <1>5 DEF PayrollInv

LEMMA RequestType ==
  ASSUME PayrollTypeOK, NEW q \in Requests, RequestNext(q)
  PROVE  PayrollTypeOK'
<1> USE DEF circle, funding, counts
<1>r. request[q].step # "none" => request[q] \in RequestAt
  BY DEF PayrollTypeOK, NoRequest
<1>g. ASSUME NEW to \in {"summing", "gating", "marking", "starting"}, RequestGoes(q, to),
             request[q] \in RequestAt
      PROVE  request' \in [Requests -> {NoRequest} \cup RequestAt]
  <2>1. [request[q] EXCEPT !.step = to] \in RequestAt  BY <1>g DEF RequestAt
  <2> QED  BY <1>g, <2>1 DEF RequestGoes, PayrollTypeOK
<1>a. Answer(q) => request' \in [Requests -> {NoRequest} \cup RequestAt]
  BY DEF Answer, PayrollTypeOK
<1>1. CASE CheckStatus(q) /\ UNCHANGED shared  BY <1>1, <1>r, <1>g, <1>a DEF CheckStatus, PayrollTypeOK
<1>2. CASE SumOwed(q) /\ UNCHANGED shared
  <2>1. request[q] \in RequestAt  BY <1>2, <1>r DEF SumOwed
  <2>2. [request[q] EXCEPT !.step = "gating", !.owed = Owed(request[q].batch)] \in RequestAt
    BY <2>1, OwedType DEF RequestAt
  <2>3. request' \in [Requests -> {NoRequest} \cup RequestAt]
    BY <1>2, <1>a, <2>2 DEF SumOwed, PayrollTypeOK
  <2> QED  BY <1>2, <2>3 DEF SumOwed, PayrollTypeOK
<1>3. CASE Gate(q)
  <2>1. request[q] \in RequestAt  BY <1>3, <1>r DEF Gate
  <2>2. shared' \subseteq Batches
    BY <1>3, <2>1 DEF Gate, Pass, OpenedBeside, RequestAt, PayrollTypeOK
  <2>3. request' \in [Requests -> {NoRequest} \cup RequestAt]
    BY <1>3, <1>g, <1>a, <2>1 DEF Gate, Pass
  <2> QED  BY <1>3, <2>2, <2>3 DEF Gate, PayrollTypeOK
<1>4. CASE MarkBatch(q) /\ UNCHANGED shared  BY <1>4, <1>r, <1>g DEF MarkBatch, PayrollTypeOK
<1>5. CASE Start(q) /\ UNCHANGED shared
  <2> DEFINE w == <<request[q].server, request[q].batch>>
  <2>1. request[q] \in RequestAt  BY <1>5, <1>r DEF Start
  <2>2. w \in Servers \X Batches  BY <2>1 DEF RequestAt
  <2>3. [run[w] EXCEPT !.step = "selecting"] \in RunAt  BY <2>2 DEF PayrollTypeOK, RunAt
  <2>4. run' \in [Servers \X Batches -> RunAt]  BY <1>5, <2>2, <2>3 DEF Start, PayrollTypeOK
  <2> QED  BY <1>5, <1>a, <2>4 DEF Start, PayrollTypeOK
<1> QED  BY <1>1, <1>2, <1>3, <1>4, <1>5 DEF RequestNext

(* A run that moves keeps its type. *)
LEMMA RunMoves ==
  ASSUME PayrollTypeOK, NEW w \in Servers \X Batches, NEW x \in RunAt,
         run' = [run EXCEPT ![w] = x]
  PROVE  /\ run' \in [Servers \X Batches -> RunAt]
         /\ \A v \in Servers \X Batches : run'[v] = IF v = w THEN x ELSE run[v]
BY DEF PayrollTypeOK

RunSteps == {"off", "selecting", "sending", "paying", "recording", "failing",
             "counting", "settling", "leaving"}

LEMMA StepMoves ==
  ASSUME PayrollTypeOK, NEW s \in Servers, NEW b \in Batches, NEW from, NEW to \in RunSteps,
         RunGoes(s, b, from, to)
  PROVE  \E x \in RunAt :
           /\ run' = [run EXCEPT ![<<s, b>>] = x]
           /\ x.step = to /\ x.now = run[<<s, b>>].now /\ x.todo = run[<<s, b>>].todo
           /\ x.verdict = run[<<s, b>>].verdict
<1> DEFINE w == <<s, b>>
           x == [run[w] EXCEPT !.step = to]
<1>1. run[w] \in RunAt  BY DEF PayrollTypeOK
<1>2. x \in RunAt /\ x.step = to /\ x.now = run[w].now /\ x.todo = run[w].todo
      /\ x.verdict = run[w].verdict
  BY <1>1 DEF RunAt, RunSteps
<1> QED  BY <1>2 DEF RunGoes

LEMMA NextMoves ==
  ASSUME PayrollTypeOK, NEW s \in Servers, NEW b \in Batches, NextRecipient(s, b)
  PROVE  \E x \in RunAt :
           /\ run' = [run EXCEPT ![<<s, b>>] = x]
           /\ x.step = "sending" /\ x.now = NoOne /\ x.todo = run[<<s, b>>].todo
           /\ x.verdict = run[<<s, b>>].verdict
<1> DEFINE w == <<s, b>>
           x == [run[w] EXCEPT !.step = "sending", !.now = NoOne]
<1>1. run[w] \in RunAt  BY DEF PayrollTypeOK
<1>2. x \in RunAt /\ x.step = "sending" /\ x.now = NoOne /\ x.todo = run[w].todo
      /\ x.verdict = run[w].verdict
  BY <1>1 DEF RunAt
<1>3. run' = [run EXCEPT ![w] = x]  BY DEF NextRecipient, PayrollTypeOK
<1> QED  BY <1>2, <1>3

-----------------------------------------------------------------------------
(* What every step keeps. *)

Steady ==
  /\ Present \subseteq Present'
  /\ \A r \in Recipients : payout[r] # "none" => payout'[r] # "none"
  /\ \A b \in Batches : batch[b] # "absent" =>
       batch'[b] # "absent" /\ \A r \in PayeesOf(b) : r \in Present' => r \in Present

LEMMA SentStays ==
  ASSUME Steady, NEW b \in Batches, batch[b] # "absent", Sent(b)
  PROVE  Sent(b)'
BY DEF Steady, Sent, PayeesOf

LEMMA RunStays ==
  ASSUME PayrollInv, Steady, NEW w \in Servers \X Batches, run'[w] = run[w]
  PROVE  RunOK(w)'
<1>1. RunOK(w) /\ w[2] \in Batches /\ run[w] \in RunAt
  BY DEF PayrollInv, RunsOK, PayrollTypeOK
<1>2. run[w].verdict = "completed" => batch'[w[2]] # "absent" /\ Sent(w[2])'
  BY <1>1, SentStays DEF RunOK, Steady
<1> QED  BY <1>1, <1>2 DEF RunOK, Steady

LEMMA RunOneMoves ==
  ASSUME PayrollInv, Steady, NEW w \in Servers \X Batches, NEW x \in RunAt,
         run' = [run EXCEPT ![w] = x], RunOK(w)'
  PROVE  run' \in [Servers \X Batches -> RunAt] /\ RunsOK'
<1>1. /\ run' \in [Servers \X Batches -> RunAt]
      /\ \A v \in Servers \X Batches : v # w => run'[v] = run[v]
  BY RunMoves DEF PayrollInv
<1> QED  BY <1>1, RunStays DEF RunsOK

LEMMA RunsStay ==
  ASSUME PayrollInv, Steady, UNCHANGED run
  PROVE  RunsOK'
BY RunStays DEF RunsOK

LEMMA RequestsStay ==
  ASSUME PayrollInv, Steady, UNCHANGED request
  PROVE  RequestsOK'
BY DEF PayrollInv, RequestsOK, Steady, PayrollTypeOK, NoRequest, RequestAt

(* No row is written and Circle does nothing new. *)
LEMMA RowsStay ==
  ASSUME PayrollInv, Steady, UNCHANGED <<person, batch, payout>>
  PROVE  RowsOK'
<1>1. \A b \in Batches : Sent(b) => Sent(b)'  BY DEF Sent, Present
<1> QED  BY <1>1 DEF PayrollInv, RowsOK

LEMMA RestStays ==
  ASSUME PayrollInv, UNCHANGED circle, UNCHANGED landed
  PROVE  CircleOK'
BY DEF PayrollInv, CircleOK, circle

LEMMA NothingMoves == UNCHANGED <<person, batch, payout>> => Steady
BY DEF Steady, Present

LEMMA RequestStep ==
  ASSUME PayrollInv, NEW q \in Requests, RequestNext(q)
  PROVE  PayrollInv'
<1> USE DEF circle, funding, counts
<1>t. PayrollTypeOK'  BY RequestType DEF PayrollInv
<1>u. UNCHANGED <<person, payout, landed>> /\ UNCHANGED circle
  BY DEF RequestNext, CheckStatus, SumOwed, Gate, MarkBatch, Start
<1>r. request[q].step # "none" =>
        /\ request[q] \in RequestAt /\ request[q].batch \in Batches
        /\ batch[request[q].batch] # "absent"
  BY DEF PayrollInv, PayrollTypeOK, RequestsOK, NoRequest, RequestAt
<1>q. \A p \in Requests : request'[p] # NoRequest =>
        request[p] # NoRequest /\ request'[p].batch = request[p].batch
  <2>1. ASSUME NEW to, RequestGoes(q, to), request[q] \in RequestAt
        PROVE  \A p \in Requests : request'[p] # NoRequest =>
                 request[p] # NoRequest /\ request'[p].batch = request[p].batch
    BY <2>1 DEF RequestGoes, PayrollInv, PayrollTypeOK, RequestAt, NoRequest
  <2>2. Answer(q) => \A p \in Requests : request'[p] # NoRequest => request'[p] = request[p]
    BY DEF Answer, PayrollInv, PayrollTypeOK
  <2>3. CASE SumOwed(q)
    <3>1. request[q] \in RequestAt  BY <1>r, <2>3 DEF SumOwed
    <3>2. CASE Answer(q)
      <4>1. \A p \in Requests : request'[p] # NoRequest => request'[p] = request[p]
        BY <2>2, <3>2
      <4> QED  BY <4>1
    <3>3. CASE request' = [request EXCEPT ![q].step = "gating",
                                          ![q].owed = Owed(request[q].batch)]
      <4>1. request'[q].batch = request[q].batch /\ request[q] # NoRequest
        BY <3>1, <3>3 DEF PayrollInv, PayrollTypeOK, RequestAt, NoRequest
      <4>2. \A p \in Requests : p # q => request'[p] = request[p]
        BY <3>3 DEF PayrollInv, PayrollTypeOK
      <4> QED  BY <4>1, <4>2
    <3> QED  BY <2>3, <3>2, <3>3 DEF SumOwed
  <2>4. CASE Gate(q)
    <3>1. request[q] \in RequestAt  BY <1>r, <2>4 DEF Gate
    <3>2. CASE Answer(q)
      <4>1. \A p \in Requests : request'[p] # NoRequest => request'[p] = request[p]
        BY <2>2, <3>2
      <4> QED  BY <4>1
    <3>3. CASE RequestGoes(q, "marking")  BY <2>1, <3>1, <3>3
    <3> QED  BY <2>4, <3>2, <3>3 DEF Gate, Pass
  <2>5. CASE CheckStatus(q)
    <3>1. request[q] \in RequestAt  BY <1>r, <2>5 DEF CheckStatus
    <3>2. CASE Answer(q)
      <4>1. \A p \in Requests : request'[p] # NoRequest => request'[p] = request[p]
        BY <2>2, <3>2
      <4> QED  BY <4>1
    <3>3. CASE RequestGoes(q, "summing")  BY <2>1, <3>1, <3>3
    <3> QED  BY <2>5, <3>2, <3>3 DEF CheckStatus
  <2>6. CASE MarkBatch(q)  BY <1>r, <2>1, <2>6 DEF MarkBatch
  <2>7. CASE Start(q)
    <3>1. \A p \in Requests : request'[p] # NoRequest => request'[p] = request[p]
      BY <2>2, <2>7 DEF Start
    <3> QED  BY <3>1
  <2> QED  BY <2>3, <2>4, <2>5, <2>6, <2>7 DEF RequestNext
<1>b. ASSUME Steady PROVE RequestsOK'
  BY <1>q, <1>b DEF PayrollInv, RequestsOK, Steady, PayrollTypeOK, RequestAt, NoRequest
<1>1. CASE CheckStatus(q) \/ SumOwed(q) \/ Gate(q)
  <2>1. UNCHANGED <<batch, run>>  BY <1>1 DEF CheckStatus, SumOwed, Gate
  <2>2. Steady  BY <1>u, <2>1, NothingMoves
  <2> QED  BY <1>t, <1>u, <1>b, <2>1, <2>2, RunsStay, RowsStay, RestStays DEF PayrollInv
<1>2. CASE MarkBatch(q)
  <2>1. /\ batch' = [batch EXCEPT ![request[q].batch] = "processing"] /\ UNCHANGED run
        /\ request[q].step # "none"
    BY <1>2 DEF MarkBatch
  <2>2. \A b \in Batches : batch'[b] = batch[b] \/ batch'[b] = "processing"
    BY <2>1 DEF PayrollInv, PayrollTypeOK
  <2>3. Steady  BY <1>u, <2>2 DEF Steady, Present
  <2>4. RowsOK'
    <3>1. \A b \in Batches : Sent(b) => Sent(b)'  BY <1>u DEF Sent, Present
    <3> QED  BY <1>u, <2>2, <3>1 DEF PayrollInv, RowsOK
  <2> QED  BY <1>t, <1>u, <1>b, <2>1, <2>3, <2>4, RunsStay, RestStays DEF PayrollInv
<1>3. CASE Start(q)
  <2>1. UNCHANGED <<batch>> /\ request[q].step # "none"  BY <1>3 DEF Start
  <2>2. Steady  BY <1>u, <2>1, NothingMoves
  <2>3. RunsOK'
    <3>0. PICK w \in Servers \X Batches :
            w = <<request[q].server, request[q].batch>> /\ w[2] = request[q].batch
      <4> DEFINE v == <<request[q].server, request[q].batch>>
      <4>1. v \in Servers \X Batches /\ v[2] = request[q].batch  BY <1>r, <2>1 DEF RequestAt
      <4> QED  BY <4>1
    <3>1. CASE run[w].step # "off"  BY <1>3, <2>2, <3>0, <3>1, RunsStay DEF Start
    <3>2. CASE run[w].step = "off"
      <4>1. run[w] \in RunAt /\ RunOK(w)  BY <3>0 DEF PayrollInv, PayrollTypeOK, RunsOK
      <4>2. PICK x \in RunAt :
              /\ x = [run[w] EXCEPT !.step = "selecting"]
              /\ x.step = "selecting" /\ x.now = run[w].now
              /\ x.todo = run[w].todo /\ x.verdict = run[w].verdict
        <5> DEFINE y == [run[w] EXCEPT !.step = "selecting"]
        <5>1. /\ y \in RunAt /\ y.step = "selecting" /\ y.now = run[w].now
              /\ y.todo = run[w].todo /\ y.verdict = run[w].verdict
          BY <4>1 DEF RunAt
        <5> QED  BY <5>1
      <4>3. run' = [run EXCEPT ![w] = x]  BY <1>3, <3>0, <3>2, <4>2 DEF Start
      <4>4. run'[w] = x  BY <3>0, <4>3 DEF PayrollInv, PayrollTypeOK
      <4>5. batch'[w[2]] # "absent"  BY <1>r, <2>1, <3>0
      <4>6. Present' = Present /\ (Sent(w[2]) => Sent(w[2])')  BY <1>u DEF Present, Sent
      <4>7. RunOK(w)'  BY <4>1, <4>2, <4>4, <4>5, <4>6 DEF RunOK
      <4> QED  BY <2>2, <3>0, <4>3, <4>7, RunOneMoves
    <3> QED  BY <3>1, <3>2
  <2> QED  BY <1>t, <1>u, <1>b, <2>1, <2>2, <2>3, RowsStay, RestStays DEF PayrollInv
<1> QED  BY <1>1, <1>2, <1>3 DEF RequestNext

-----------------------------------------------------------------------------
(* The steps of a run. *)

LEMMA RunStep ==
  ASSUME PayrollInv, NEW s \in Servers, NEW b \in Batches, RunNext(s, b)
  PROVE  PayrollInv'
<1> USE DEF circle, funding, counts
<1>w. PICK w \in Servers \X Batches : w = <<s, b>> /\ w[2] = b
  <2>1. <<s, b>> \in Servers \X Batches /\ <<s, b>>[2] = b  OBVIOUS
  <2> QED  BY <2>1
<1>t. PayrollTypeOK  BY DEF PayrollInv
<1>r. run[w] \in RunAt /\ RunOK(w) /\ run[<<s, b>>] = run[w]
  BY <1>w DEF PayrollInv, PayrollTypeOK, RunsOK
<1>s. ASSUME Steady PROVE RequestsOK'
  <2>1. UNCHANGED request
    BY DEF RunNext, Select, Take, Pay, PaymentThrows, RecordPaid, RecordFailed, Backfill,
           Count, Settle, Leave
  <2> QED  BY <1>s, <2>1, RequestsStay
<1>h. UNCHANGED <<executes, shared, topup>>
  BY DEF RunNext, Select, Take, Pay, PaymentThrows, RecordPaid, RecordFailed, Backfill,
         Count, Settle, Leave
(* What is left to show of a step that only moves the run. *)
<1>m. ASSUME UNCHANGED <<person, batch, payout, topup, landed, request>>, UNCHANGED circle,
             throws' \in 0 .. MaxThrows, crashes' \in 0 .. MaxCrashes,
             NEW x \in RunAt, run' = [run EXCEPT ![w] = x], RunOK(w)'
      PROVE  PayrollInv'
  <2>1. Steady  BY <1>m, NothingMoves
  <2>2. run' \in [Servers \X Batches -> RunAt] /\ RunsOK'  BY <1>m, <2>1, RunOneMoves
  <2>3. PayrollTypeOK'  BY <1>h, <1>t, <1>m, <2>2 DEF PayrollTypeOK
  <2> QED  BY <1>m, <1>s, <2>1, <2>2, <2>3, RowsStay, RestStays DEF PayrollInv
<1>o. ASSUME UNCHANGED <<person, batch, payout>>, NEW x \in RunAt, run'[w] = x,
             x.step \in {"paying", "recording", "failing"} => x.now \in Recipients,
             x.step = "recording" => payout[x.now] # "none",
             run[w].step # "off",
             x.step = "settling" => x.verdict # "none",
             x.todo \subseteq Present, x.now # NoOne => x.now \in Present,
             x.verdict = "completed" => Sent(b)
      PROVE  RunOK(w)'
  <2>1. Present' = Present /\ (Sent(w[2]) => Sent(w[2])')  BY <1>o DEF Present, Sent
  <2> QED  BY <1>o, <1>r, <1>w, <2>1 DEF RunOK
<1>1. CASE Select(s, b)
  <2>1. PICK x \in RunAt :
          /\ x = [run[w] EXCEPT !.step = "sending", !.todo = In(b, {"pending"})]
          /\ x.step = "sending" /\ x.now = run[w].now /\ x.todo = In(b, {"pending"})
          /\ x.verdict = run[w].verdict
    <3> DEFINE y == [run[w] EXCEPT !.step = "sending", !.todo = In(b, {"pending"})]
    <3>1. In(b, {"pending"}) \subseteq Recipients  BY DEF In, PayeesOf
    <3>2. y \in RunAt  BY <1>r, <3>1 DEF RunAt
    <3>3. /\ y.step = "sending" /\ y.now = run[w].now /\ y.todo = In(b, {"pending"})
          /\ y.verdict = run[w].verdict
      BY <1>r DEF RunAt
    <3> QED  BY <3>2, <3>3
  <2>2. run' = [run EXCEPT ![w] = x]  BY <1>1, <1>w, <1>t, <2>1 DEF Select, PayrollTypeOK
  <2>3. run'[w] = x  BY <1>t, <2>2 DEF PayrollTypeOK
  <2>4. In(b, {"pending"}) \subseteq Present  BY DEF In, PayeesOf, Present
  <2>5. RunOK(w)'  BY <1>1, <1>o, <1>r, <1>w, <2>1, <2>3, <2>4 DEF Select, RunOK
  <2> QED  BY <1>1, <1>m, <1>t, <2>2, <2>5 DEF Select, PayrollTypeOK
<1>2. CASE PaymentThrows(s, b)
  <2>1. PICK x \in RunAt :
          /\ run' = [run EXCEPT ![w] = x]
          /\ x.step = "failing" /\ x.now = run[w].now /\ x.todo = run[w].todo
          /\ x.verdict = run[w].verdict
    <3>1. PICK from : RunGoes(s, b, from, "failing")  BY <1>2 DEF PaymentThrows
    <3>2. "failing" \in RunSteps  BY DEF RunSteps
    <3>3. \E x \in RunAt :
            /\ run' = [run EXCEPT ![<<s, b>>] = x]
            /\ x.step = "failing" /\ x.now = run[<<s, b>>].now /\ x.todo = run[<<s, b>>].todo
            /\ x.verdict = run[<<s, b>>].verdict
      BY <1>t, <3>1, <3>2, StepMoves
    <3> QED  BY <1>w, <3>3
  <2>2. run'[w] = x  BY <1>t, <2>1 DEF PayrollTypeOK
  <2>3. run[w].step \in {"paying", "recording"}  BY <1>2, <1>w DEF PaymentThrows, RunGoes
  <2>4. RunOK(w)'  BY <1>2, <1>o, <1>r, <1>w, <2>1, <2>2, <2>3 DEF PaymentThrows, RunOK
  <2>5. throws' \in 0 .. MaxThrows
    BY <1>2, <1>t, PayrollAssumption DEF PaymentThrows, PayrollTypeOK
  <2> QED  BY <1>2, <1>m, <1>t, <2>1, <2>4, <2>5 DEF PaymentThrows, PayrollTypeOK
<1>3. CASE Backfill(s, b)
  <2>1. PICK x \in RunAt :
          /\ run' = [run EXCEPT ![w] = x]
          /\ x.step = "counting" /\ x.now = run[w].now /\ x.todo = run[w].todo
          /\ x.verdict = run[w].verdict
    <3>1. RunGoes(s, b, "sending", "counting")  BY <1>3 DEF Backfill
    <3>2. "counting" \in RunSteps  BY DEF RunSteps
    <3>3. \E x \in RunAt :
            /\ run' = [run EXCEPT ![<<s, b>>] = x]
            /\ x.step = "counting" /\ x.now = run[<<s, b>>].now /\ x.todo = run[<<s, b>>].todo
            /\ x.verdict = run[<<s, b>>].verdict
      BY <1>t, <3>1, <3>2, StepMoves
    <3> QED  BY <1>w, <3>3
  <2>2. run'[w] = x  BY <1>t, <2>1 DEF PayrollTypeOK
  <2>3. run[w].step = "sending"  BY <1>3, <1>w DEF Backfill, RunGoes
  <2>4. RunOK(w)'  BY <1>3, <1>o, <1>r, <1>w, <2>1, <2>2, <2>3 DEF Backfill, RunOK
  <2> QED  BY <1>3, <1>m, <1>t, <2>1, <2>4 DEF Backfill, PayrollTypeOK
<1>4. CASE Count(s, b)
  <2>1. Verdict(b) \in {"processing", "partial", "completed"}  BY DEF Verdict
  <2>2. PICK x \in RunAt :
          /\ x = [run[w] EXCEPT !.step = "settling", !.verdict = Verdict(b)]
          /\ x.step = "settling" /\ x.now = run[w].now /\ x.todo = run[w].todo
          /\ x.verdict = Verdict(b)
    <3> DEFINE y == [run[w] EXCEPT !.step = "settling", !.verdict = Verdict(b)]
    <3>1. y \in RunAt  BY <1>r, <2>1 DEF RunAt
    <3>2. /\ y.step = "settling" /\ y.now = run[w].now /\ y.todo = run[w].todo
          /\ y.verdict = Verdict(b)
      BY <1>r DEF RunAt
    <3> QED  BY <3>1, <3>2
  <2>3. run' = [run EXCEPT ![w] = x]  BY <1>4, <1>w, <1>t, <2>2 DEF Count, PayrollTypeOK
  <2>4. run'[w] = x  BY <1>t, <2>3 DEF PayrollTypeOK
  <2>5. ASSUME Verdict(b) = "completed" PROVE Sent(b)
    <3>1. In(b, {"pending", "processing"}) = {} /\ In(b, {"failed"}) = {}
      BY <2>5 DEF Verdict
    <3>2. \A r \in PayeesOf(b) : person[r] \in {"absent", "paid"}
      BY <1>t, <3>1 DEF In, PayeesOf, PayrollTypeOK
    <3> QED  BY <3>2 DEF PayrollInv, RowsOK, Sent, Present, PayeesOf
  <2>6. RunOK(w)'  BY <1>4, <1>o, <1>r, <1>w, <2>1, <2>2, <2>4, <2>5 DEF Count, RunOK
  <2> QED  BY <1>4, <1>m, <1>t, <2>3, <2>6 DEF Count, PayrollTypeOK
<1>5. CASE Leave(s, b)
  <2>1. PICK x \in RunAt : x = NoRun  BY PayrollAssumption DEF NoRun, RunAt
  <2>2. run' = [run EXCEPT ![w] = x]  BY <1>5, <1>w, <2>1 DEF Leave
  <2>3. run'[w] = x  BY <1>t, <2>2 DEF PayrollTypeOK
  <2>4. RunOK(w)'  BY <1>5, <1>o, <1>w, <2>1, <2>3 DEF Leave, NoRun
  <2> QED  BY <1>5, <1>m, <1>t, <2>2, <2>4 DEF Leave, PayrollTypeOK
(* And of one that writes besides. *)
<1>p. ASSUME Steady, Present' = Present, NEW x \in RunAt, run'[w] = x,
             x.step \in {"paying", "recording", "failing"} => x.now \in Recipients,
             x.step = "recording" => payout'[x.now] # "none",
             run[w].step # "off", x.step # "settling",
             x.todo \subseteq Present, x.now # NoOne => x.now \in Present,
             x.verdict = run[w].verdict
      PROVE  RunOK(w)'
  <2>1. batch[b] # "absent" /\ batch'[b] # "absent"  BY <1>p, <1>r, <1>w DEF RunOK, Steady
  <2>2. x.verdict = "completed" => Sent(b)'  BY <1>p, <1>r, <1>w, <2>1, SentStays DEF RunOK
  <2> QED  BY <1>p, <1>w, <2>1, <2>2 DEF RunOK
<1>6. CASE Take(s, b)
  <2>1. PICK r \in run[w].todo :
          /\ run' = [run EXCEPT ![<<s, b>>].step = "paying", ![<<s, b>>].now = r,
                                ![<<s, b>>].todo = @ \ {r}]
          /\ person' = [person EXCEPT ![r] = IF @ = "pending" THEN "processing" ELSE @]
    BY <1>6, <1>r DEF Take
  <2>r. r \in Recipients /\ r \in Present  BY <1>r, <2>1 DEF RunOK, Present
  <2>2. PICK x \in RunAt :
          /\ x = [run[w] EXCEPT !.step = "paying", !.now = r, !.todo = @ \ {r}]
          /\ x.step = "paying" /\ x.now = r /\ x.todo = run[w].todo \ {r}
          /\ x.verdict = run[w].verdict
    <3> DEFINE y == [run[w] EXCEPT !.step = "paying", !.now = r, !.todo = @ \ {r}]
    <3>1. y \in RunAt  BY <1>r, <2>r DEF RunAt
    <3>2. /\ y.step = "paying" /\ y.now = r /\ y.todo = run[w].todo \ {r}
          /\ y.verdict = run[w].verdict
      BY <1>r DEF RunAt
    <3> QED  BY <3>1, <3>2
  <2>3. run' = [run EXCEPT ![w] = x]  BY <1>w, <1>t, <2>1, <2>2 DEF PayrollTypeOK
  <2>4. run'[w] = x  BY <1>t, <2>3 DEF PayrollTypeOK
  <2>5. \A p \in Recipients :
          person'[p] = person[p] \/ (person[p] = "pending" /\ person'[p] = "processing")
    BY <1>t, <2>1 DEF PayrollTypeOK
  <2>6. UNCHANGED <<batch, payout, request, landed>> /\ UNCHANGED circle  BY <1>6 DEF Take
  <2>7. Present' = Present  BY <2>5 DEF Present
  <2>8. Steady  BY <2>6, <2>7 DEF Steady
  <2>9. RunOK(w)'
    <3>1. run[w].step = "sending"  BY <1>6, <1>r DEF Take
    <3>2. run[w].todo \subseteq Present  BY <1>r DEF RunOK
    <3> QED  BY <1>p, <2>r, <2>2, <2>4, <2>7, <2>8, <3>1, <3>2
  <2>10. run' \in [Servers \X Batches -> RunAt] /\ RunsOK'  BY <2>3, <2>8, <2>9, RunOneMoves
  <2>11. PayrollTypeOK'  BY <1>6, <1>h, <1>t, <2>1, <2>10 DEF Take, PayrollTypeOK
  <2>12. RowsOK'
    <3>1. \A c \in Batches : Sent(c) => Sent(c)'  BY <2>6, <2>7 DEF Sent
    <3> QED  BY <2>5, <2>6, <3>1 DEF PayrollInv, RowsOK
  <2> QED  BY <1>s, <2>6, <2>8, <2>10, <2>11, <2>12, RestStays DEF PayrollInv
<1>7. CASE Pay(s, b)
  <2>1. PICK x \in RunAt :
          /\ run' = [run EXCEPT ![w] = x]
          /\ x.step = "recording" /\ x.now = run[w].now /\ x.todo = run[w].todo
          /\ x.verdict = run[w].verdict
    <3>1. RunGoes(s, b, "paying", "recording")  BY <1>7 DEF Pay
    <3>2. "recording" \in RunSteps  BY DEF RunSteps
    <3>3. \E x \in RunAt :
            /\ run' = [run EXCEPT ![<<s, b>>] = x]
            /\ x.step = "recording" /\ x.now = run[<<s, b>>].now /\ x.todo = run[<<s, b>>].todo
            /\ x.verdict = run[<<s, b>>].verdict
      BY <1>t, <3>1, <3>2, StepMoves
    <3> QED  BY <1>w, <3>3
  <2>2. run'[w] = x  BY <1>t, <2>1 DEF PayrollTypeOK
  <2>3. run[w].step = "paying" /\ run[w].now \in Recipients
    BY <1>7, <1>r, <1>w DEF Pay, RunGoes, RunOK
  <2>4. UNCHANGED <<person, batch, request, landed, balance>>  BY <1>7 DEF Pay
  <2>5. /\ payout'[run[w].now] # "none" /\ transfers'[run[w].now] <= 1
        /\ payout' \in [Recipients -> {"none", "accepted", "mined", "dry"}]
        /\ transfers' \in [Recipients -> Nat]
        /\ \A r \in Recipients : r # run[w].now =>
             payout'[r] = payout[r] /\ transfers'[r] = transfers[r]
    <3> DEFINE r == run[w].now
    <3>1. CASE payout[r] = "none"
      <4>1. /\ payout' = [payout EXCEPT ![r] = "accepted"]
            /\ transfers' = [transfers EXCEPT ![r] = @ + 1]
        BY <1>7, <1>r, <3>1 DEF Pay
      <4>2. transfers[r] = 0  BY <2>3, <3>1 DEF PayrollInv, CircleOK
      <4> QED  BY <1>t, <2>3, <4>1, <4>2 DEF PayrollTypeOK
    <3>2. CASE payout[r] # "none"
      <4>1. UNCHANGED <<payout, transfers>>  BY <1>7, <1>r, <3>2 DEF Pay
      <4>2. transfers[r] <= 1  BY <2>3 DEF PayrollInv, CircleOK
      <4> QED  BY <1>t, <2>3, <3>2, <4>1, <4>2 DEF PayrollTypeOK
    <3> QED  BY <3>1, <3>2
  <2>6. Present' = Present  BY <2>4 DEF Present
  <2>7. Steady  BY <2>4, <2>5, <2>6 DEF Steady
  <2>8. RunOK(w)'  BY <1>p, <1>r, <1>w, <2>1, <2>2, <2>3, <2>5, <2>6, <2>7 DEF RunOK
  <2>9. run' \in [Servers \X Batches -> RunAt] /\ RunsOK'  BY <2>1, <2>7, <2>8, RunOneMoves
  <2>10. PayrollTypeOK'  BY <1>7, <1>h, <1>t, <2>5, <2>9 DEF Pay, PayrollTypeOK
  <2>11. RowsOK'
    <3>1. \A c \in Batches : Sent(c) => Sent(c)'  BY <2>5, <2>6 DEF Sent, PayeesOf
    <3> QED  BY <2>4, <2>5, <3>1 DEF PayrollInv, RowsOK
  <2>12. CircleOK'  BY <2>5 DEF PayrollInv, CircleOK
  <2> QED  BY <1>s, <2>7, <2>9, <2>10, <2>11, <2>12 DEF PayrollInv
<1>8. CASE RecordPaid(s, b) \/ RecordFailed(s, b)
  <2>1. PICK x \in RunAt :
          /\ run' = [run EXCEPT ![w] = x]
          /\ x.step = "sending" /\ x.now = NoOne /\ x.todo = run[w].todo
          /\ x.verdict = run[w].verdict
    <3>1. NextRecipient(s, b)  BY <1>8 DEF RecordPaid, RecordFailed
    <3>2. \E x \in RunAt :
            /\ run' = [run EXCEPT ![<<s, b>>] = x]
            /\ x.step = "sending" /\ x.now = NoOne /\ x.todo = run[<<s, b>>].todo
            /\ x.verdict = run[<<s, b>>].verdict
      BY <1>t, <3>1, NextMoves
    <3> QED  BY <1>w, <3>2
  <2>2. run'[w] = x  BY <1>t, <2>1 DEF PayrollTypeOK
  <2>3. run[w].step \in {"recording", "failing"} /\ run[w].now \in Recipients
        /\ run[w].now \in Present
    BY <1>8, <1>r, <1>w, PayrollAssumption DEF RecordPaid, RecordFailed, RunOK
  <2>4. UNCHANGED <<batch, payout, request, landed>> /\ UNCHANGED circle
    BY <1>8 DEF RecordPaid, RecordFailed
  <2>5. /\ person' \in [Recipients -> {"absent", "pending", "processing", "paid", "failed"}]
        /\ \A p \in Recipients : \/ person'[p] = person[p]
                                 \/ /\ p = run[w].now /\ person'[p] # "absent"
                                    /\ person'[p] = "paid" => payout[p] # "none"
    BY <1>8, <1>r, <1>w, <1>t, <2>3 DEF RecordPaid, RecordFailed, PayrollTypeOK, RunOK
  <2>6. Present' = Present  BY <2>3, <2>5 DEF Present
  <2>7. Steady  BY <2>4, <2>6 DEF Steady
  <2>8. RunOK(w)'  BY <1>p, <1>r, <2>1, <2>2, <2>3, <2>6, <2>7 DEF RunOK
  <2>9. run' \in [Servers \X Batches -> RunAt] /\ RunsOK'  BY <2>1, <2>7, <2>8, RunOneMoves
  <2>10. crashes' \in 0 .. MaxCrashes
    BY <1>8, <1>t, PayrollAssumption DEF RecordPaid, RecordFailed, PayrollTypeOK
  <2>11. PayrollTypeOK'
    BY <1>8, <1>h, <1>t, <2>5, <2>9, <2>10 DEF RecordPaid, RecordFailed, PayrollTypeOK
  <2>12. RowsOK'
    <3>1. \A c \in Batches : Sent(c) => Sent(c)'  BY <2>4, <2>6 DEF Sent
    <3> QED  BY <2>4, <2>5, <3>1 DEF PayrollInv, RowsOK
  <2> QED  BY <1>s, <2>4, <2>7, <2>9, <2>11, <2>12, RestStays DEF PayrollInv
<1>9. CASE Settle(s, b)
  <2>1. PICK x \in RunAt :
          /\ run' = [run EXCEPT ![w] = x]
          /\ x.step = "leaving" /\ x.now = run[w].now /\ x.todo = run[w].todo
          /\ x.verdict = run[w].verdict
    <3>1. RunGoes(s, b, "settling", "leaving")  BY <1>9 DEF Settle
    <3>2. "leaving" \in RunSteps  BY DEF RunSteps
    <3>3. \E x \in RunAt :
            /\ run' = [run EXCEPT ![<<s, b>>] = x]
            /\ x.step = "leaving" /\ x.now = run[<<s, b>>].now /\ x.todo = run[<<s, b>>].todo
            /\ x.verdict = run[<<s, b>>].verdict
      BY <1>t, <3>1, <3>2, StepMoves
    <3> QED  BY <1>w, <3>3
  <2>2. run'[w] = x  BY <1>t, <2>1 DEF PayrollTypeOK
  <2>3. run[w].step = "settling"  BY <1>9, <1>w DEF Settle, RunGoes
  <2>4. UNCHANGED <<person, payout, request, landed>> /\ UNCHANGED circle  BY <1>9 DEF Settle
  <2>5. run[w].verdict \in {"processing", "partial", "completed"}
    BY <1>r, <2>3 DEF RunOK, RunAt
  <2>6. batch' = [batch EXCEPT ![b] = run[w].verdict]  BY <1>9, <1>w DEF Settle
  <2>7. Present' = Present  BY <2>4 DEF Present
  <2>8. Steady  BY <1>t, <2>4, <2>5, <2>6, <2>7 DEF Steady, PayrollTypeOK
  <2>9. RunOK(w)'  BY <1>p, <1>r, <2>1, <2>2, <2>3, <2>7, <2>8 DEF RunOK
  <2>10. run' \in [Servers \X Batches -> RunAt] /\ RunsOK'  BY <2>1, <2>8, <2>9, RunOneMoves
  <2>11. PayrollTypeOK'
    <3>1. batch' \in [Batches -> {"absent", "draft", "processing", "partial", "completed"}]
      BY <1>t, <2>5, <2>6 DEF PayrollTypeOK
    <3> QED  BY <1>9, <1>h, <1>t, <2>10, <3>1 DEF Settle, PayrollTypeOK
  <2>12. RowsOK'
    <3>1. \A c \in Batches : Sent(c) => Sent(c)'  BY <2>4, <2>7 DEF Sent
    <3>2. ASSUME NEW c \in Batches, batch'[c] = "completed" PROVE Sent(c)'
      BY <1>r, <1>t, <1>w, <2>6, <3>1, <3>2 DEF PayrollInv, RowsOK, RunOK, PayrollTypeOK
    <3> QED  BY <2>4, <3>2 DEF PayrollInv, RowsOK
  <2> QED  BY <1>s, <2>4, <2>8, <2>10, <2>11, <2>12, RestStays DEF PayrollInv
<1> QED  BY <1>1, <1>2, <1>3, <1>4, <1>5, <1>6, <1>7, <1>8, <1>9 DEF RunNext

-----------------------------------------------------------------------------
(* The employer, Circle and the crashes. *)

LEMMA CreateStep ==
  ASSUME PayrollInv, NEW b \in Batches, CreateBatch(b), UNCHANGED shared
  PROVE  PayrollInv'
<1> USE DEF circle, funding, counts
<1>t. PayrollTypeOK  BY DEF PayrollInv
<1>1. PICK rs \in SUBSET PayeesOf(b) :
        /\ crashes' \in {crashes, crashes + 1} /\ (crashes' = crashes \/ crashes < MaxCrashes)
        /\ person' = [r \in Recipients |-> IF r \in rs THEN "pending" ELSE person[r]]
  BY <1>t DEF CreateBatch, PayrollTypeOK
<1>2. batch[b] = "absent" /\ batch' = [batch EXCEPT ![b] = "draft"]  BY DEF CreateBatch
<1>3. UNCHANGED <<request, run, payout, topup, landed, executes, throws>> /\ UNCHANGED circle
  BY DEF CreateBatch
<1>4. Steady
  <2>1. Present \subseteq Present'  BY <1>1 DEF Present
  <2>2. ASSUME NEW c \in Batches, batch[c] # "absent"
        PROVE  batch'[c] # "absent" /\ \A r \in PayeesOf(c) : r \in Present' => r \in Present
    BY <1>1, <1>2, <1>t, <2>2 DEF PayeesOf, Present, PayrollTypeOK
  <2> QED  BY <1>3, <2>1, <2>2 DEF Steady
<1>5. PayrollTypeOK'
  <2>1. crashes' \in 0 .. MaxCrashes  BY <1>1, <1>t, PayrollAssumption DEF PayrollTypeOK
  <2> QED  BY <1>1, <1>2, <1>3, <1>t, <2>1 DEF PayrollTypeOK
<1>6. RowsOK'
  <2>1. ASSUME NEW c \in Batches, batch'[c] = "completed" PROVE Sent(c)'
    <3>1. batch[c] = "completed"  BY <1>2, <1>t, <2>1 DEF PayrollTypeOK
    <3> QED  BY <1>4, <3>1, SentStays DEF PayrollInv, RowsOK
  <2> QED  BY <1>1, <1>3, <2>1 DEF PayrollInv, RowsOK
<1> QED  BY <1>3, <1>4, <1>5, <1>6, RunsStay, RequestsStay, RestStays DEF PayrollInv

LEMMA ExecuteStep ==
  ASSUME PayrollInv, NEW q \in Requests, NEW s \in Servers, NEW b \in Batches, Execute(q, s, b),
         UNCHANGED shared
  PROVE  PayrollInv'
<1> USE DEF circle, funding, counts
<1> DEFINE x == [step |-> "checking", server |-> s, batch |-> b, owed |-> 0]
<1>1. request' = [request EXCEPT ![q] = x] /\ batch[b] # "absent"
  BY DEF Execute
<1>2. x \in RequestAt
  <2>1. Cardinality(Recipients) \in Nat  BY PayrollAssumption, FS_CardinalityType
  <2> QED  BY <2>1 DEF RequestAt
<1>3. UNCHANGED <<batch, person, run, payout, landed>> /\ UNCHANGED circle  BY DEF Execute
<1>4. Steady  BY <1>3, NothingMoves
<1>5. RequestsOK'  BY <1>1, <1>3 DEF PayrollInv, PayrollTypeOK, RequestsOK
<1>6. PayrollTypeOK'
  <2>1. executes' \in 0 .. MaxExecutes
    BY PayrollAssumption DEF Execute, PayrollInv, PayrollTypeOK
  <2> QED  BY <1>1, <1>2, <2>1 DEF Execute, PayrollInv, PayrollTypeOK
<1> QED  BY <1>3, <1>4, <1>5, <1>6, RunsStay, RowsStay, RestStays DEF PayrollInv

LEMMA CrashStep ==
  ASSUME PayrollInv, NEW s \in Servers, Crash(s), UNCHANGED shared
  PROVE  PayrollInv'
<1> USE DEF circle, funding, counts
<1>1. UNCHANGED <<batch, person, payout, landed>> /\ UNCHANGED circle  BY DEF Crash
<1>2. Steady  BY <1>1, NothingMoves
<1>3. RunsOK'
  <2>1. ASSUME NEW w \in Servers \X Batches PROVE RunOK(w)'
    <3>1. CASE run'[w] = run[w]  BY <1>2, <3>1, RunStays
    <3>2. CASE run'[w] = NoRun  BY <3>2 DEF RunOK, NoRun
    <3> QED  BY <3>1, <3>2 DEF Crash
  <2> QED  BY <2>1 DEF RunsOK
<1>4. RequestsOK'  BY <1>1 DEF Crash, PayrollInv, RequestsOK
<1>5. PayrollTypeOK'
  <2>1. crashes' \in 0 .. MaxCrashes  BY PayrollAssumption DEF Crash, PayrollInv, PayrollTypeOK
  <2>2. NoRun \in RunAt  BY PayrollAssumption DEF NoRun, RunAt
  <2>3. run' \in [Servers \X Batches -> RunAt]  BY <2>2 DEF Crash, PayrollInv, PayrollTypeOK
  <2>4. request' \in [Requests -> {NoRequest} \cup RequestAt]
    BY DEF Crash, PayrollInv, PayrollTypeOK
  <2> QED  BY <2>1, <2>3, <2>4 DEF Crash, PayrollInv, PayrollTypeOK
<1> QED  BY <1>1, <1>2, <1>3, <1>4, <1>5, RowsStay, RestStays DEF PayrollInv

LEMMA MoneyStep ==
  ASSUME PayrollInv, UNCHANGED shared,
         \/ \E t \in TopUps : Fund(t) \/ BalanceReadThrows(t) \/ TopUpLands(t)
         \/ \E r \in Recipients : CarryOut(r)
  PROVE  PayrollInv'
<1> USE DEF circle, funding, counts
<1>t. PayrollTypeOK  BY DEF PayrollInv
<1>n. balance \in Nat /\ Amount \in Nat /\ Gas \in Nat
  BY <1>t, PayrollAssumption DEF PayrollTypeOK
<1>1. ASSUME NEW t \in TopUps, Fund(t) \/ BalanceReadThrows(t) PROVE PayrollInv'
  <2>1. UNCHANGED <<batch, person, payout, run, request, landed, shared>> /\ UNCHANGED circle
    BY <1>1 DEF Fund, BalanceReadThrows
  <2>2. Steady  BY <2>1, NothingMoves
  <2>3. throws' \in 0 .. MaxThrows
    BY <1>1, <1>t, PayrollAssumption DEF Fund, BalanceReadThrows, PayrollTypeOK
  <2>4. PayrollTypeOK'  BY <1>1, <1>t, <2>1, <2>3 DEF Fund, BalanceReadThrows, PayrollTypeOK
  <2> QED  BY <2>1, <2>2, <2>4, RunsStay, RequestsStay, RowsStay, RestStays DEF PayrollInv
<1>2. ASSUME NEW t \in TopUps, TopUpLands(t) PROVE PayrollInv'
  <2>1. UNCHANGED <<batch, person, payout, run, request, transfers>>  BY <1>2 DEF TopUpLands
  <2>2. Steady  BY <2>1, NothingMoves
  <2>3. balance' \in Nat  BY <1>2, <1>n DEF TopUpLands
  <2>8. PayrollTypeOK'  BY <1>2, <1>t, <2>3 DEF TopUpLands, PayrollTypeOK
  <2>9. CircleOK'  BY <2>1 DEF PayrollInv, CircleOK
  <2> QED  BY <2>1, <2>2, <2>8, <2>9, RunsStay, RequestsStay, RowsStay DEF PayrollInv
<1>3. ASSUME NEW r \in Recipients, CarryOut(r) PROVE PayrollInv'
  <2>1. UNCHANGED <<batch, person, run, request, transfers, landed>>  BY <1>3 DEF CarryOut
  <2>2. /\ payout' \in [Recipients -> {"none", "accepted", "mined", "dry"}]
        /\ \A p \in Recipients : (payout'[p] = "none") = (payout[p] = "none")
    BY <1>3, <1>t DEF CarryOut, PayrollTypeOK
  <2>3. balance' \in Nat  BY <1>3, <1>n DEF CarryOut
  <2>4. PayrollTypeOK'  BY <1>3, <1>t, <2>2, <2>3 DEF CarryOut, PayrollTypeOK
  <2>5. Present' = Present  BY <2>1 DEF Present
  <2>6. Steady  BY <2>1, <2>2, <2>5 DEF Steady
  <2>7. RowsOK'
    <3>1. \A c \in Batches : Sent(c) => Sent(c)'  BY <2>2, <2>5 DEF Sent, PayeesOf
    <3> QED  BY <2>1, <2>2, <3>1 DEF PayrollInv, RowsOK
  <2>8. CircleOK'  BY <2>1, <2>2 DEF PayrollInv, CircleOK
  <2> QED  BY <2>1, <2>3, <2>4, <2>6, <2>7, <2>8, RunsStay, RequestsStay DEF PayrollInv
<1> QED  BY <1>1, <1>2, <1>3

LEMMA StepInv == PayrollInv /\ [PayrollNext]_payrollVars => PayrollInv'
<1> SUFFICES ASSUME PayrollInv, [PayrollNext]_payrollVars PROVE PayrollInv'
  OBVIOUS
<1>1. CASE UNCHANGED payrollVars
  <2>1. UNCHANGED <<batch, person, payout, run, request, landed>> /\ UNCHANGED circle
    BY <1>1 DEF payrollVars, circle
  <2>2. Steady  BY <2>1, NothingMoves
  <2>3. PayrollTypeOK'  BY <1>1 DEF payrollVars, PayrollInv, PayrollTypeOK
  <2> QED  BY <2>1, <2>2, <2>3, RunsStay, RequestsStay, RowsStay, RestStays DEF PayrollInv
<1> QED
  BY <1>1, RequestStep, RunStep, CreateStep, ExecuteStep, CrashStep, MoneyStep DEF PayrollNext, OutsideNext

LEMMA AlwaysInv == PayrollSpec => []PayrollInv
BY InitInv, StepInv, PTL DEF PayrollSpec

(* Rows, requests, runs and money keep their types (PayrollTypeOK).        *)
THEOREM PayrollTypeCorrect == PayrollSpec => []PayrollTypeOK
<1>1. PayrollInv => PayrollTypeOK  BY DEF PayrollInv
<1> QED  BY <1>1, AlwaysInv, PTL

(* Nobody is paid twice (PaidOnce), for any number of servers, executes,   *)
(* crashes and payments that throw: Circle makes one transfer under the    *)
(* recipient's key, and every attempt carries it.                          *)
THEOREM NobodyPaidTwice == PayrollSpec => []PaidOnce
<1>1. PayrollInv => PaidOnce  BY DEF PayrollInv, CircleOK, PaidOnce
<1> QED  BY <1>1, AlwaysInv, PTL

(* A batch that reads completed has had every recipient's transfer         *)
(* accepted (CompletedWasSent), however late the verdict of a run is       *)
(* written and whatever another server does to the rows meanwhile.         *)
THEOREM CompletedBatchWasSent == PayrollSpec => []CompletedWasSent
<1>1. PayrollInv => CompletedWasSent
  BY DEF PayrollInv, RowsOK, Sent, Present, PayeesOf, CompletedWasSent
<1> QED  BY <1>1, AlwaysInv, PTL

-----------------------------------------------------------------------------
(* The balance gate.  A batch that was never open together with another    *)
(* (shared) and whose gas fits the buffer finds in the float what it may   *)
(* still draw from it.                                                     *)

InHand(r) ==
  \E s \in Servers :
    LET a == run[<<s, BatchOf[r]>>] IN r \in a.todo \/ (a.step = "paying" /\ a.now = r)

(* Who may still draw from the float without passing another gate.         *)
Drawing(r) ==
  \/ payout[r] = "accepted"
  \/ payout[r] = "none" /\ (InHand(r) \/ (person[r] = "pending" /\ Open(BatchOf[r])))

Drawable(b) == {r \in PayeesOf(b) : Drawing(r)}
Cost == Amount + Gas

Alone == \A b \in Batches \ shared, c \in Batches : Open(b) /\ Open(c) => b = c

FloatCovers ==
  \A b \in Batches \ shared : Open(b) /\ GasFits(b) =>
    Cardinality(Drawable(b)) * Cost <= balance

GateSums ==
  \A q \in Requests : request[q].step = "gating" =>
    Cardinality(In(request[q].batch, {"pending"})) <= request[q].owed

ScopeOK ==
  \A s \in Servers, b \in Batches :
    LET a == run[<<s, b>>] IN
      /\ a.todo \subseteq PayeesOf(b)
      /\ a.now # NoOne => a.now \in PayeesOf(b)
      /\ a.step = "off" => a.todo = {}

PaidPresent == \A r \in Recipients : payout[r] # "none" => batch[BatchOf[r]] # "absent"

GateInv == Alone /\ FloatCovers /\ GateSums /\ ScopeOK /\ PaidPresent /\ GateHolds

LEMMA DrawableSize ==
  ASSUME NEW b
  PROVE  /\ IsFiniteSet(Drawable(b)) /\ Cardinality(Drawable(b)) \in Nat
         /\ IsFiniteSet(PayeesOf(b)) /\ Cardinality(PayeesOf(b)) \in Nat
<1>1. Drawable(b) \subseteq PayeesOf(b) /\ PayeesOf(b) \subseteq Recipients
  BY DEF Drawable, PayeesOf
<1>2. IsFiniteSet(PayeesOf(b))  BY <1>1, PayrollAssumption, FS_Subset
<1>3. IsFiniteSet(Drawable(b))  BY <1>1, <1>2, FS_Subset
<1> QED  BY <1>2, <1>3, FS_CardinalityType

LEMMA TimesGrows ==
  ASSUME NEW m \in Nat, NEW n \in Nat, NEW c \in Nat, m <= n
  PROVE  m * c <= n * c /\ m * c \in Nat
<1>1. n - m \in Nat  OBVIOUS
<1>2. (n - m) * c \in Nat  BY <1>1
<1>3. n * c = m * c + (n - m) * c  OBVIOUS
<1> QED  BY <1>2, <1>3

LEMMA CostType == Cost \in Nat /\ Amount \in Nat /\ Gas \in Nat /\ GasBuffer \in Nat
BY PayrollAssumption DEF Cost

(* A step after which no batch is open and nobody draws who did not before *)
(* keeps the float covered if it takes nothing from it.                    *)
LEMMA CoverStays ==
  ASSUME PayrollTypeOK, Alone, FloatCovers, balance' \in Nat, balance' >= balance,
         UNCHANGED shared,
         \A b \in Batches : Open(b)' => Open(b),
         \A r \in Recipients : Drawing(r)' => Drawing(r)
  PROVE  Alone' /\ FloatCovers'
<1>1. Alone'  BY DEF Alone
<1>2. FloatCovers'
  <2> SUFFICES ASSUME NEW b \in Batches \ shared, Open(b), GasFits(b)
               PROVE  Cardinality(Drawable(b)') * Cost <= balance'
    BY DEF FloatCovers, GasFits, PayeesOf, Cost
  <2>1. Drawable(b)' \subseteq Drawable(b)  BY DEF Drawable, PayeesOf
  <2>2. IsFiniteSet(Drawable(b)) /\ Cardinality(Drawable(b)) \in Nat  BY DrawableSize
  <2>3. Cardinality(Drawable(b)') <= Cardinality(Drawable(b)) /\ Cardinality(Drawable(b)') \in Nat
    BY <2>1, <2>2, FS_Subset, FS_CardinalityType
  <2>4. /\ Cardinality(Drawable(b)') * Cost <= Cardinality(Drawable(b)) * Cost
        /\ Cardinality(Drawable(b)') * Cost \in Nat
    BY <2>2, <2>3, CostType, TimesGrows
  <2>5. Cardinality(Drawable(b)) * Cost <= balance  BY DEF FloatCovers
  <2>6. Cardinality(Drawable(b)) * Cost \in Nat  BY <2>2, CostType, TimesGrows
  <2>7. balance \in Nat  BY DEF PayrollTypeOK
  <2> QED  BY <2>4, <2>5, <2>6, <2>7
<1> QED  BY <1>1, <1>2

LEMMA SumsStay ==
  ASSUME PayrollInv, GateSums, UNCHANGED request,
         \A r \in Recipients : person'[r] = "pending" =>
           person[r] = "pending" \/ batch[BatchOf[r]] = "absent"
  PROVE  GateSums'
<1> SUFFICES ASSUME NEW q \in Requests, request[q].step = "gating"
             PROVE  Cardinality(In(request[q].batch, {"pending"})') <= request[q].owed
  BY DEF GateSums, In, PayeesOf
<1> DEFINE b == request[q].batch
<1>1. request[q] \in RequestAt /\ batch[b] # "absent"
  BY DEF PayrollInv, PayrollTypeOK, RequestsOK, NoRequest
<1>2. In(b, {"pending"})' \subseteq In(b, {"pending"})
  BY <1>1 DEF In, PayeesOf, PayrollInv, PayrollTypeOK
<1>3. IsFiniteSet(In(b, {"pending"}))
  BY PayrollAssumption, FS_Subset DEF In, PayeesOf
<1>4. /\ Cardinality(In(b, {"pending"})') <= Cardinality(In(b, {"pending"}))
      /\ Cardinality(In(b, {"pending"})') \in Nat /\ Cardinality(In(b, {"pending"})) \in Nat
  BY <1>2, <1>3, FS_Subset, FS_CardinalityType
<1>5. Cardinality(In(b, {"pending"})) <= request[q].owed /\ request[q].owed \in Nat
  <2>1. Cardinality(Recipients) \in Nat  BY PayrollAssumption, FS_CardinalityType
  <2> QED  BY <1>1, <2>1 DEF GateSums, RequestAt
<1> QED  BY <1>1, <1>4, <1>5

(* What a step of a run does to the rows, the transfers and the run itself. *)
LEMMA RunWithin ==
  ASSUME PayrollInv, ScopeOK, NEW s \in Servers, NEW b \in Batches, RunNext(s, b)
  PROVE  LET a == run[<<s, b>>]
             z == run'[<<s, b>>]
         IN /\ a.step # "off" /\ batch[b] # "absent"
            /\ \A w \in Servers \X Batches : w # <<s, b>> => run'[w] = run[w]
            /\ z.todo \subseteq a.todo \cup In(b, {"pending"})
            /\ z.step = "paying" => z.now \in a.todo
            /\ z.now # NoOne => z.now \in a.todo \cup {a.now}
            /\ z.step = "off" => z.todo = {}
            /\ \A r \in Recipients : person'[r] = "pending" => person[r] = "pending"
            /\ \A r \in Recipients :
                 \/ payout'[r] = payout[r]
                 \/ /\ payout[r] = "none" /\ payout'[r] = "accepted"
                    /\ a.step = "paying" /\ a.now = r /\ a.now # NoOne
            /\ \A c \in Batches : batch[c] # "absent" => batch'[c] # "absent"
            /\ UNCHANGED <<request, balance>>
<1> USE DEF circle, funding, counts
<1> DEFINE w == <<s, b>>
<1>t. /\ w \in Servers \X Batches /\ run \in [Servers \X Batches -> RunAt] /\ run[w] \in RunAt
      /\ batch \in [Batches -> {"absent", "draft", "processing", "partial", "completed"}]
      /\ person \in [Recipients -> {"absent", "pending", "processing", "paid", "failed"}]
      /\ payout \in [Recipients -> {"none", "accepted", "mined", "dry"}]
  BY DEF PayrollInv, PayrollTypeOK
<1>o. /\ run[w].step \in {"paying", "recording", "failing"} => run[w].now \in Recipients
      /\ run[w].step # "off" => batch[b] # "absent"
      /\ run[w].step = "settling" => run[w].verdict # "none"
  BY <1>t DEF PayrollInv, RunsOK, RunOK
<1>u. UNCHANGED <<request, balance>>
  BY DEF RunNext, Select, Take, Pay, PaymentThrows, RecordPaid, RecordFailed, Backfill,
         Count, Settle, Leave
<1>1. run[w].step # "off"
  BY DEF RunNext, Select, Take, Pay, PaymentThrows, RecordPaid, RecordFailed, Backfill,
         Count, Settle, Leave, RunGoes
<1>2. /\ \A v \in Servers \X Batches : v # w => run'[v] = run[v]
      /\ run'[w].todo \subseteq run[w].todo \cup In(b, {"pending"})
      /\ run'[w].step = "paying" => run'[w].now \in run[w].todo
      /\ run'[w].now # NoOne => run'[w].now \in run[w].todo \cup {run[w].now}
      /\ run'[w].step = "off" => run'[w].todo = {}
  <2>1. CASE Select(s, b)  BY <1>t, <2>1 DEF Select, RunAt
  <2>2. CASE Take(s, b)
    <3>1. PICK r \in run[w].todo :
            run' = [run EXCEPT ![<<s, b>>].step = "paying", ![<<s, b>>].now = r,
                               ![<<s, b>>].todo = @ \ {r}]
      BY <2>2 DEF Take
    <3>2. run'[w].step = "paying" /\ run'[w].now = r /\ run'[w].todo = run[w].todo \ {r}
      BY <1>t, <3>1 DEF RunAt
    <3>3. \A v \in Servers \X Batches : v # w => run'[v] = run[v]  BY <1>t, <3>1
    <3> QED  BY <3>2, <3>3
  <2>3. ASSUME NEW to \in {"recording", "failing", "counting", "leaving"},
               run' = [run EXCEPT ![<<s, b>>].step = to]
        PROVE  <1>2!1 /\ <1>2!2 /\ <1>2!3 /\ <1>2!4 /\ <1>2!5
    <3>1. run'[w].step = to /\ run'[w].todo = run[w].todo /\ run'[w].now = run[w].now
      BY <1>t, <2>3 DEF RunAt
    <3>2. \A v \in Servers \X Batches : v # w => run'[v] = run[v]  BY <1>t, <2>3
    <3> QED  BY <3>1, <3>2
  <2>4. CASE NextRecipient(s, b)
    <3>1. run'[w].step = "sending" /\ run'[w].todo = run[w].todo /\ run'[w].now = NoOne
      BY <1>t, <2>4 DEF RunAt, NextRecipient
    <3>2. \A v \in Servers \X Batches : v # w => run'[v] = run[v]  BY <1>t, <2>4 DEF NextRecipient
    <3> QED  BY <3>1, <3>2
  <2>5. CASE Count(s, b)
    <3>1. /\ run'[w].step = "settling" /\ run'[w].todo = run[w].todo
          /\ run'[w].now = run[w].now
      BY <1>t, <2>5 DEF RunAt, Count
    <3>2. \A v \in Servers \X Batches : v # w => run'[v] = run[v]  BY <1>t, <2>5 DEF Count
    <3> QED  BY <3>1, <3>2
  <2>6. CASE Leave(s, b)  BY <1>t, <2>6 DEF Leave, NoRun
  <2> QED  BY <2>1, <2>2, <2>3, <2>4, <2>5, <2>6
           DEF RunNext, Pay, PaymentThrows, RecordPaid, RecordFailed, Backfill, Settle, RunGoes
<1>3. \A r \in Recipients : person'[r] = "pending" => person[r] = "pending"
  <2>1. CASE Take(s, b)  BY <1>t, <2>1 DEF Take
  <2>2. CASE RecordPaid(s, b) \/ RecordFailed(s, b)
    BY <1>t, <2>2 DEF RecordPaid, RecordFailed
  <2> QED  BY <2>1, <2>2 DEF RunNext, Select, Pay, PaymentThrows, Backfill, Count, Settle, Leave
<1>4. \A r \in Recipients :
        \/ payout'[r] = payout[r]
        \/ /\ payout[r] = "none" /\ payout'[r] = "accepted"
           /\ run[w].step = "paying" /\ run[w].now = r /\ run[w].now # NoOne
  <2>1. CASE Pay(s, b)
    BY <1>t, <1>o, <2>1, PayrollAssumption DEF Pay, RunGoes
  <2> QED  BY <2>1 DEF RunNext, Select, Take, PaymentThrows, RecordPaid, RecordFailed, Backfill,
                       Count, Settle, Leave
<1>5. \A c \in Batches : batch[c] # "absent" => batch'[c] # "absent"
  <2>1. CASE Settle(s, b)  BY <1>t, <1>o, <2>1 DEF Settle, RunGoes, RunAt
  <2> QED  BY <2>1 DEF RunNext, Select, Take, Pay, PaymentThrows, RecordPaid, RecordFailed,
                       Backfill, Count, Leave
<1> QED  BY <1>o, <1>u, <1>1, <1>2, <1>3, <1>4, <1>5

LEMMA OtherRunsStay ==
  ASSUME PayrollInv, ScopeOK, NEW s \in Servers, NEW b \in Batches, RunNext(s, b),
         NEW v \in Servers \X Batches, v # <<s, b>>
  PROVE  run'[v] = run[v]
<1>1. LET a == run[<<s, b>>]
          z == run'[<<s, b>>]
      IN /\ a.step # "off" /\ batch[b] # "absent"
         /\ \A w \in Servers \X Batches : w # <<s, b>> => run'[w] = run[w]
  BY RunWithin
<1> QED  BY <1>1

(* And a request to a run: at most it starts one.                          *)
LEMMA RequestWithin ==
  ASSUME PayrollInv, NEW q \in Requests, RequestNext(q)
  PROVE  \A w \in Servers \X Batches :
           /\ run'[w].todo = run[w].todo /\ run'[w].now = run[w].now
           /\ run'[w].step = run[w].step
                \/ (/\ run'[w].step = "selecting" /\ run[w].step = "off"
                    /\ w[2] = request[q].batch /\ Start(q))
<1>t. /\ request \in [Requests -> {NoRequest} \cup RequestAt]
      /\ run \in [Servers \X Batches -> RunAt]
  BY DEF PayrollInv, PayrollTypeOK
<1>1. CASE Start(q)
  <2> DEFINE v == <<request[q].server, request[q].batch>>
  <2>1. v \in Servers \X Batches /\ v[2] = request[q].batch
    BY <1>t, <1>1 DEF Start, NoRequest, RequestAt
  <2>2. run' = IF run[v].step = "off" THEN [run EXCEPT ![v].step = "selecting"] ELSE run
    BY <1>1 DEF Start
  <2>3. CASE run[v].step = "off"
    <3>1. /\ run'[v].todo = run[v].todo /\ run'[v].now = run[v].now
          /\ run'[v].step = "selecting"
      BY <1>t, <2>1, <2>2, <2>3 DEF RunAt
    <3>2. \A w \in Servers \X Batches : w # v => run'[w] = run[w]
      BY <1>t, <2>1, <2>2, <2>3
    <3> QED  BY <1>1, <2>1, <2>3, <3>1, <3>2
  <2>4. CASE run[v].step # "off"  BY <2>2, <2>4
  <2> QED  BY <2>3, <2>4
<1> QED  BY <1>1 DEF RequestNext, CheckStatus, SumOwed, Gate, MarkBatch

LEMMA ScopeStep ==
  ASSUME PayrollInv, ScopeOK, [PayrollNext]_payrollVars
  PROVE  ScopeOK'
<1> SUFFICES ASSUME NEW s \in Servers, NEW b \in Batches
             PROVE  /\ run'[<<s, b>>].todo \subseteq PayeesOf(b)
                    /\ run'[<<s, b>>].now # NoOne => run'[<<s, b>>].now \in PayeesOf(b)
                    /\ run'[<<s, b>>].step = "off" => run'[<<s, b>>].todo = {}
  BY DEF ScopeOK, PayeesOf
<1> DEFINE w == <<s, b>>
           Kept == /\ run'[w].todo \subseteq PayeesOf(b)
                   /\ run'[w].now # NoOne => run'[w].now \in PayeesOf(b)
                   /\ run'[w].step = "off" => run'[w].todo = {}
<1>w. w \in Servers \X Batches  OBVIOUS
<1>0. /\ run[w].todo \subseteq PayeesOf(b) /\ (run[w].now # NoOne => run[w].now \in PayeesOf(b))
      /\ run[w].step = "off" => run[w].todo = {}
  BY DEF ScopeOK
<1>1. CASE UNCHANGED run  BY <1>0, <1>1
<1>2. ASSUME NEW q \in Requests, RequestNext(q) PROVE Kept
  BY <1>0, <1>2, <1>w, RequestWithin
<1>3. ASSUME NEW r \in Servers, NEW c \in Batches, RunNext(r, c) PROVE Kept
  <2>1. CASE w = <<r, c>>
    <3>1. /\ run'[w].todo \subseteq run[w].todo \cup In(b, {"pending"})
          /\ run'[w].now # NoOne => run'[w].now \in run[w].todo \cup {run[w].now}
          /\ run'[w].step = "off" => run'[w].todo = {}
          /\ run'[w].step = "paying" => run'[w].now \in run[w].todo
      BY <1>3, <2>1, RunWithin
    <3> QED  BY <1>0, <3>1, PayrollAssumption DEF In
  <2>2. CASE w # <<r, c>>
    <3>1. run'[w] = run[w]  BY <1>3, <1>w, <2>2, OtherRunsStay
    <3> QED  BY <1>0, <3>1
  <2> QED  BY <2>1, <2>2
<1>4. ASSUME NEW r \in Servers, Crash(r) PROVE run'[w] = run[w] \/ run'[w] = NoRun
  BY <1>4, <1>w DEF Crash
<1>5. ASSUME OutsideNext PROVE Kept
  <2>1. CASE UNCHANGED run  BY <1>1, <2>1
  <2>2. CASE \E r \in Servers : Crash(r)
    <3>1. run'[w] = run[w] \/ run'[w] = NoRun  BY <1>4, <2>2
    <3> QED  BY <1>0, <3>1 DEF NoRun
  <2> QED
    BY <1>5, <2>1, <2>2 DEF OutsideNext, CreateBatch, Execute, Fund, BalanceReadThrows, TopUpLands,
       CarryOut
<1>6. CASE UNCHANGED payrollVars  BY <1>1, <1>6 DEF payrollVars
<1> QED  BY <1>2, <1>3, <1>5, <1>6 DEF PayrollNext

LEMMA AlwaysScope == PayrollSpec => []ScopeOK
<1>1. PayrollInit => ScopeOK  BY DEF PayrollInit, ScopeOK, NoRun
<1> QED  BY <1>1, ScopeStep, AlwaysInv, PTL DEF PayrollSpec

LEMMA GateRunStep ==
  ASSUME PayrollInv, PayrollInv', ScopeOK', GateInv, NEW s \in Servers, NEW b \in Batches, RunNext(s, b)
  PROVE  GateInv'
<1>h. UNCHANGED shared  BY DEF RunNext
<1> DEFINE a == run[<<s, b>>]
           z == run'[<<s, b>>]
<1>1. /\ a.step # "off" /\ batch[b] # "absent"
      /\ \A w \in Servers \X Batches : w # <<s, b>> => run'[w] = run[w]
      /\ z.todo \subseteq a.todo \cup In(b, {"pending"})
      /\ z.step = "paying" => z.now \in a.todo
      /\ z.now # NoOne => z.now \in a.todo \cup {a.now}
      /\ z.step = "off" => z.todo = {}
      /\ \A r \in Recipients : person'[r] = "pending" => person[r] = "pending"
      /\ \A r \in Recipients :
           payout'[r] = payout[r]
             \/ (/\ payout[r] = "none" /\ payout'[r] = "accepted"
                 /\ a.step = "paying" /\ a.now = r /\ a.now # NoOne)
      /\ \A c \in Batches : batch[c] # "absent" => batch'[c] # "absent"
      /\ UNCHANGED <<request, balance>>
  BY RunWithin DEF GateInv
<1>t. PayrollTypeOK /\ PayrollTypeOK' /\ BatchOf \in [Recipients -> Batches]
  BY PayrollAssumption DEF PayrollInv
<1>b. /\ \A r \in PayeesOf(b) : r \in Recipients /\ BatchOf[r] = b
      /\ a.todo \subseteq PayeesOf(b) /\ (a.now # NoOne => a.now \in PayeesOf(b))
      /\ In(b, {"pending"}) \subseteq PayeesOf(b)
      /\ Open(b)
  BY <1>1 DEF GateInv, ScopeOK, PayeesOf, In, Open, Engaged
<1>3. \A c \in Batches : Engaged(c)' => Engaged(c)
  <2> SUFFICES ASSUME NEW c \in Batches, Engaged(c)' PROVE Engaged(c)
    OBVIOUS
  <2>1. CASE \E q \in Requests : request'[q].step \in {"marking", "starting"}
                                 /\ request'[q].batch = c
    BY <1>1, <2>1 DEF Engaged
  <2>2. CASE \E r \in Servers : run'[<<r, c>>].step # "off"
    <3>1. PICK r \in Servers : run'[<<r, c>>].step # "off"  BY <2>2
    <3>2. CASE <<r, c>> = <<s, b>>  BY <1>1, <3>2 DEF Engaged
    <3>3. CASE <<r, c>> # <<s, b>>  BY <1>1, <3>1, <3>3 DEF Engaged
    <3> QED  BY <3>2, <3>3
  <2> QED  BY <2>1, <2>2 DEF Engaged
<1>4. \A c \in Batches : Open(c)' => Open(c)
  <2> SUFFICES ASSUME NEW c \in Batches, NEW r \in PayeesOf(c), payout'[r] = "accepted"
               PROVE  Open(c)
    BY <1>3 DEF Open, PayeesOf
  <2>1. CASE payout'[r] = payout[r]  BY <2>1 DEF Open
  <2>2. CASE payout'[r] # payout[r]
    <3>1. r = a.now /\ r \in PayeesOf(b)  BY <1>1, <1>b, <2>2 DEF PayeesOf
    <3>2. c = b  BY <3>1 DEF PayeesOf
    <3> QED  BY <1>b, <3>2
  <2> QED  BY <2>1, <2>2
<1>5. ASSUME NEW r \in Recipients, InHand(r)', payout[r] = "none" PROVE Drawing(r)
  <2>1. PICK v \in Servers :
          \/ r \in run'[<<v, BatchOf[r]>>].todo
          \/ run'[<<v, BatchOf[r]>>].step = "paying" /\ run'[<<v, BatchOf[r]>>].now = r
    BY <1>5 DEF InHand
  <2>2. CASE <<v, BatchOf[r]>> # <<s, b>>
    BY <1>1, <1>5, <1>t, <2>1, <2>2 DEF Drawing, InHand
  <2>3. CASE <<v, BatchOf[r]>> = <<s, b>>
    <3>1. r \in a.todo \/ r \in In(b, {"pending"})  BY <1>1, <2>1, <2>3
    <3>2. CASE r \in a.todo  BY <1>5, <2>3, <3>2 DEF Drawing, InHand
    <3>3. CASE r \in In(b, {"pending"})  BY <1>5, <1>b, <2>3, <3>3 DEF Drawing, In
    <3> QED  BY <3>1, <3>2, <3>3
  <2> QED  BY <2>2, <2>3
<1>6. ASSUME NEW r \in Recipients, Drawing(r)' PROVE Drawing(r)
  <2>1. CASE payout'[r] # payout[r]
    <3>1. payout[r] = "none" /\ a.step = "paying" /\ a.now = r /\ BatchOf[r] = b
      BY <1>1, <1>b, <2>1
    <3> QED  BY <3>1 DEF Drawing, InHand
  <2>2. CASE payout'[r] = payout[r]
    BY <1>1, <1>4, <1>5, <1>6, <1>t, <2>2 DEF Drawing
  <2> QED  BY <2>1, <2>2
<1>7. Alone' /\ FloatCovers'
  <2>1. balance' >= balance /\ balance' \in Nat  BY <1>1, <1>t DEF PayrollTypeOK
  <2> QED  BY <1>4, <1>6, <1>h, <1>t, <2>1, CoverStays DEF GateInv
<1>8. GateSums'  BY <1>1, SumsStay DEF GateInv
<1>9. PaidPresent'
  BY <1>1, <1>b, <1>t DEF GateInv, PaidPresent
<1>10. GateHolds'  BY <1>1, <1>h DEF GateInv, GateHolds, GasFits, PayeesOf
<1> QED  BY <1>7, <1>8, <1>9, <1>10 DEF GateInv

(* The requests: only the gate lets a batch draw. *)
LEMMA GateRequestStep ==
  ASSUME PayrollInv, PayrollInv', ScopeOK', GateInv, NEW q \in Requests, RequestNext(q)
  PROVE  GateInv'
<1> USE DEF circle, funding, counts
<1>b. PICK b : b = request[q].batch  OBVIOUS
<1> USE <1>b
<1>t. PayrollTypeOK /\ PayrollTypeOK' /\ BatchOf \in [Recipients -> Batches]
      /\ request \in [Requests -> {NoRequest} \cup RequestAt]
      /\ run \in [Servers \X Batches -> RunAt]
  BY PayrollAssumption DEF PayrollInv, PayrollTypeOK
<1>u. UNCHANGED <<person, payout, balance>>
  BY DEF RequestNext, CheckStatus, SumOwed, Gate, MarkBatch, Start
<1>r. request[q] \in RequestAt /\ b \in Batches /\ request[q].server \in Servers
  BY <1>t DEF RequestNext, CheckStatus, SumOwed, Gate, MarkBatch, Start, NoRequest, RequestAt
<1>p. \A p \in Requests : p # q => request'[p] = request[p]
  BY <1>t DEF RequestNext, CheckStatus, SumOwed, Gate, Pass, MarkBatch, Start, Answer, RequestGoes
<1>n. request'[q] # NoRequest => request'[q].batch = b
  BY <1>t, <1>r DEF RequestNext, CheckStatus, SumOwed, Gate, Pass, MarkBatch, Start, Answer,
                    RequestGoes, RequestAt
<1>w. \A w \in Servers \X Batches :
        /\ run'[w].todo = run[w].todo /\ run'[w].now = run[w].now
        /\ run'[w].step = run[w].step
             \/ (run'[w].step = "selecting" /\ run[w].step = "off" /\ w[2] = b /\ Start(q))
  BY RequestWithin
<1>2. \A r \in Recipients : InHand(r)' = InHand(r)
  <2>1. ASSUME NEW r \in Recipients, NEW s \in Servers
        PROVE  LET v == <<s, BatchOf[r]>> IN
                 /\ run'[v].todo = run[v].todo /\ run'[v].now = run[v].now
                 /\ (run'[v].step = "paying") = (run[v].step = "paying")
    <3>1. <<s, BatchOf[r]>> \in Servers \X Batches  BY <1>t
    <3> QED  BY <1>w, <3>1
  <2> QED  BY <2>1 DEF InHand
<1>3. PaidPresent'
  <2>1. \A c \in Batches : batch[c] # "absent" => batch'[c] # "absent"
    BY DEF RequestNext, CheckStatus, SumOwed, Gate, MarkBatch, Start, PayrollInv, PayrollTypeOK
  <2> QED  BY <1>t, <1>u, <2>1 DEF GateInv, PaidPresent
<1>h. shared \subseteq shared'  BY DEF RequestNext, Gate, Pass
<1>4. GateHolds'  BY <1>h, <1>t, <1>u DEF GateInv, GateHolds, GasFits, PayeesOf
<1>5. GateSums'
  <2> SUFFICES ASSUME NEW p \in Requests, request'[p].step = "gating"
               PROVE  Cardinality(In(request'[p].batch, {"pending"})) <= request'[p].owed
    BY <1>u DEF GateSums, In, PayeesOf
  <2>1. CASE p = q
    <3>1. SumOwed(q) /\ Owed(b) # 0
          /\ request' = [request EXCEPT ![q].step = "gating", ![q].owed = Owed(b)]
      BY <1>t, <1>r, <2>1 DEF RequestNext, CheckStatus, SumOwed, Gate, Pass, MarkBatch, Start,
                              Answer, RequestGoes, RequestAt, NoRequest
    <3>2. request'[q].batch = b /\ request'[q].owed = Owed(b)
      BY <1>t, <1>r, <3>1 DEF RequestAt
    <3>3. In(b, {"pending"}) \subseteq In(b, {"pending", "processing"})
          /\ In(b, {"pending", "processing"}) \subseteq Recipients
      BY DEF In, PayeesOf
    <3>4. IsFiniteSet(In(b, {"pending", "processing"}))
      BY <3>3, PayrollAssumption, FS_Subset
    <3>5. Cardinality(In(b, {"pending"})) <= Owed(b)  BY <3>3, <3>4, FS_Subset DEF Owed
    <3> QED  BY <2>1, <3>2, <3>5
  <2>2. CASE p # q  BY <1>p, <2>2 DEF GateInv, GateSums
  <2> QED  BY <2>1, <2>2
(* Unless the request passes the gate, no batch is open that was not. *)
<1>6. ASSUME NEW c \in Batches, Open(c)', ~ Open(c)
      PROVE  c = b /\ Gate(q) /\ Pass(q)
  <2>1. ~ Engaged(c) /\ Engaged(c)'  BY <1>6, <1>u DEF Open, PayeesOf
  <2>2. CASE \E p \in Requests : request'[p].step \in {"marking", "starting"}
                                 /\ request'[p].batch = c
    <3>1. PICK p \in Requests : request'[p].step \in {"marking", "starting"}
                                /\ request'[p].batch = c
      BY <2>2
    <3>2. p = q  BY <1>p, <2>1, <3>1 DEF Engaged
    <3>3. c = b  BY <1>n, <3>1, <3>2 DEF NoRequest
    <3>4. request[q].step \notin {"marking", "starting"}  BY <2>1, <3>3 DEF Engaged
    <3>5. Gate(q)
      BY <1>t, <1>r, <3>1, <3>2, <3>4
      DEF RequestNext, CheckStatus, SumOwed, MarkBatch, Start, Answer, RequestGoes, RequestAt,
          NoRequest
    <3>6. ~ Answer(q)  BY <1>t, <3>1, <3>2 DEF Answer, NoRequest
    <3> QED  BY <3>3, <3>5, <3>6 DEF Gate
  <2>3. CASE \E s \in Servers : run'[<<s, c>>].step # "off"
    <3>1. PICK s \in Servers : run'[<<s, c>>].step # "off"  BY <2>3
    <3>2. run[<<s, c>>].step = "off"  BY <2>1 DEF Engaged
    <3>3. c = b /\ request[q].step = "starting"  BY <1>w, <3>1, <3>2 DEF Start
    <3> QED  BY <2>1, <3>3 DEF Engaged
  <2> QED  BY <2>1, <2>2, <2>3 DEF Engaged
<1>7. balance' \in Nat /\ balance \in Nat /\ balance' = balance
  BY <1>t, <1>u DEF PayrollTypeOK
<1>8. \A r \in Recipients : (Open(BatchOf[r])' => Open(BatchOf[r])) /\ Drawing(r)' => Drawing(r)
  BY <1>2, <1>t, <1>u DEF Drawing
<1>9. CASE UNCHANGED shared /\ \A c \in Batches : Open(c)' => Open(c)
  <2>1. \A r \in Recipients : Drawing(r)' => Drawing(r)  BY <1>8, <1>9, <1>t
  <2> QED  BY <1>3, <1>4, <1>5, <1>7, <1>9, <1>t, <2>1, CoverStays DEF GateInv
<1>10. CASE Gate(q) /\ Pass(q) /\ OpenedBeside(b) # {}
  <2>1. shared' = shared \cup OpenedBeside(b) \cup {b}  BY <1>10 DEF Pass
  <2>2. ASSUME NEW c \in Batches, Open(c)' PROVE c \in shared'
    BY <1>6, <2>1, <2>2 DEF OpenedBeside
  <2>3. Alone' /\ FloatCovers'  BY <2>2 DEF Alone, FloatCovers
  <2> QED  BY <1>3, <1>4, <1>5, <1>t, <2>3 DEF GateInv
<1>11. CASE Gate(q) /\ Pass(q) /\ OpenedBeside(b) = {} /\ ~ Open(b)
  <2>1. shared' = shared  BY <1>11 DEF Pass
  <2>2. \A c \in Batches : ~ Open(c)  BY <1>11 DEF OpenedBeside
  <2>3. Alone'  BY <1>6, <2>2 DEF Alone
  <2>4. Drawable(b)' \subseteq In(b, {"pending"})
    <3> SUFFICES ASSUME NEW r \in PayeesOf(b), Drawing(r)' PROVE r \in In(b, {"pending"})
      BY DEF Drawable, PayeesOf
    <3>1. r \in Recipients /\ BatchOf[r] = b /\ ~ Open(b)  BY <1>11 DEF PayeesOf
    <3>2. payout'[r] # "accepted"  BY <1>u, <3>1 DEF Open
    <3>3. ~ InHand(r)
      BY <1>r, <3>1 DEF InHand, Open, Engaged, GateInv, ScopeOK
    <3>4. person[r] = "pending"  BY <1>2, <1>u, <3>1, <3>2, <3>3 DEF Drawing
    <3> QED  BY <3>4 DEF In
  <2>5. IsFiniteSet(In(b, {"pending"})) /\ In(b, {"pending"}) \subseteq PayeesOf(b)
    BY PayrollAssumption, FS_Subset DEF In, PayeesOf
  <2> DEFINE n == Cardinality(Drawable(b)')
             o == request[q].owed
             k == Cardinality(PayeesOf(b))
  <2>6. /\ n <= Cardinality(In(b, {"pending"})) /\ n \in Nat
        /\ Cardinality(In(b, {"pending"})) \in Nat
    BY <2>4, <2>5, FS_Subset, FS_CardinalityType
  <2>7. request[q].step = "gating"  BY <1>11 DEF Gate
  <2>8. Cardinality(In(b, {"pending"})) <= o  BY <2>7 DEF GateInv, GateSums
  <2>9. o \in Nat
    <3>1. Cardinality(Recipients) \in Nat  BY PayrollAssumption, FS_CardinalityType
    <3> QED  BY <1>r, <3>1 DEF RequestAt
  <2>10. n <= o  BY <2>6, <2>8, <2>9
  <2>11. k \in Nat /\ IsFiniteSet(PayeesOf(b))  BY DrawableSize
  <2>12. n <= k
    <3>1. Drawable(b)' \subseteq PayeesOf(b)  BY <2>4, <2>5
    <3> QED  BY <2>11, <3>1, FS_Subset
  <2>13. ~ (balance < o * Amount + GasBuffer)
    <3>1. ~ Answer(q)
      <4>1. request'[q].step = "marking"
        BY <1>11, <1>r, <1>t DEF Pass, RequestGoes, RequestAt
      <4> QED  BY <1>t, <4>1 DEF Answer, NoRequest
    <3> QED  BY <1>11, <3>1 DEF Gate
  <2>14. n * Amount <= o * Amount /\ n * Amount \in Nat /\ o * Amount \in Nat
    BY <2>6, <2>9, <2>10, CostType, TimesGrows
  <2>15. n * Gas <= k * Gas /\ n * Gas \in Nat /\ k * Gas \in Nat
    BY <2>6, <2>11, <2>12, CostType, TimesGrows
  <2>16. n * Cost = n * Amount + n * Gas  BY <2>6, CostType DEF Cost
  <2>17. GasFits(b) => n * Cost <= balance'
    <3> SUFFICES ASSUME k * Gas <= GasBuffer PROVE n * Cost <= balance'
      BY DEF GasFits
    <3> HIDE DEF n, o, k
    <3> QED  BY <1>7, <2>13, <2>14, <2>15, <2>16, CostType
  <2>18. FloatCovers'
    <3> SUFFICES ASSUME NEW c \in Batches, Open(c)', GasFits(c)
                 PROVE  Cardinality(Drawable(c)') * Cost <= balance'
      BY DEF FloatCovers, GasFits, PayeesOf, Cost
    <3>1. c = b  BY <1>6, <2>2
    <3> QED  BY <2>17, <3>1
  <2> QED  BY <1>3, <1>4, <1>5, <1>t, <2>3, <2>18 DEF GateInv
<1>12. CASE ~ (Gate(q) /\ Pass(q))
  <2>1. UNCHANGED shared  BY <1>12 DEF RequestNext, Gate
  <2> QED  BY <1>6, <1>9, <1>12, <2>1
<1>13. CASE Gate(q) /\ Pass(q) /\ OpenedBeside(b) = {} /\ Open(b)
  <2>1. UNCHANGED shared  BY <1>13 DEF Pass
  <2> QED  BY <1>6, <1>9, <1>13, <2>1
<1> QED  BY <1>10, <1>11, <1>12, <1>13

(* A new batch is not open: no request or run has it and nobody in it was  *)
(* sent anything.                                                          *)
LEMMA GateCreateStep ==
  ASSUME PayrollInv, PayrollInv', ScopeOK', GateInv, NEW b \in Batches, CreateBatch(b),
         UNCHANGED shared
  PROVE  GateInv'
<1> USE DEF circle, funding, counts
<1>t. PayrollTypeOK /\ PayrollTypeOK' /\ BatchOf \in [Recipients -> Batches]
  BY PayrollAssumption DEF PayrollInv
<1>u. UNCHANGED <<request, run, payout, balance>>  BY DEF CreateBatch
<1>a. batch[b] = "absent" /\ batch' = [batch EXCEPT ![b] = "draft"]  BY DEF CreateBatch
<1>p. \A r \in Recipients : person'[r] = "pending" => person[r] = "pending" \/ BatchOf[r] = b
  BY <1>t DEF CreateBatch, PayeesOf
<1>1. ~ Open(b)
  <2>1. ASSUME NEW q \in Requests, request[q].step \in {"marking", "starting"},
               request[q].batch = b
        PROVE  FALSE
    BY <1>a, <2>1 DEF PayrollInv, RequestsOK, NoRequest
  <2>2. ASSUME NEW s \in Servers, run[<<s, b>>].step # "off" PROVE FALSE
    <3>1. <<s, b>> \in Servers \X Batches /\ <<s, b>>[2] = b  OBVIOUS
    <3> QED  BY <1>a, <2>2, <3>1 DEF PayrollInv, RunsOK, RunOK
  <2>3. ASSUME NEW r \in PayeesOf(b), payout[r] = "accepted" PROVE FALSE
    BY <1>a, <2>3 DEF GateInv, PaidPresent, PayeesOf
  <2> QED  BY <2>1, <2>2, <2>3 DEF Open, Engaged
<1>2. \A c \in Batches : Open(c)' = Open(c)  BY <1>u DEF Open, Engaged, PayeesOf
<1>3. \A r \in Recipients : InHand(r)' = InHand(r)  BY <1>u DEF InHand
<1>4. \A r \in Recipients : Drawing(r)' => Drawing(r)
  BY <1>t, <1>u, <1>p, <1>1, <1>2, <1>3 DEF Drawing
<1>5. Alone' /\ FloatCovers'
  <2>1. balance' \in Nat /\ balance' >= balance  BY <1>t, <1>u DEF PayrollTypeOK
  <2> QED  BY <1>t, <1>2, <1>4, <2>1, CoverStays DEF GateInv
<1>6. GateSums'  BY <1>a, <1>p, <1>u, SumsStay DEF GateInv
<1>7. PaidPresent'  BY <1>a, <1>t, <1>u DEF GateInv, PaidPresent, PayrollTypeOK
<1>8. GateHolds'  BY <1>u DEF GateInv, GateHolds, GasFits, PayeesOf
<1> QED  BY <1>5, <1>6, <1>7, <1>8 DEF GateInv

LEMMA GateExecuteStep ==
  ASSUME PayrollInv, PayrollInv', ScopeOK', GateInv, NEW q \in Requests, NEW s \in Servers,
         NEW b \in Batches, Execute(q, s, b), UNCHANGED shared
  PROVE  GateInv'
<1> USE DEF circle, funding, counts
<1>t. PayrollTypeOK /\ PayrollTypeOK' /\ BatchOf \in [Recipients -> Batches]
  BY PayrollAssumption DEF PayrollInv
<1>u. UNCHANGED <<batch, person, run, payout, balance>>  BY DEF Execute
<1>r. \A p \in Requests : request'[p] = request[p] \/ request'[p].step = "checking"
  BY <1>t DEF Execute, PayrollTypeOK
<1>1. \A c \in Batches : Open(c)' => Open(c)  BY <1>r, <1>u DEF Open, Engaged, PayeesOf
<1>2. \A r \in Recipients : InHand(r)' = InHand(r)  BY <1>u DEF InHand
<1>3. \A r \in Recipients : Drawing(r)' => Drawing(r)  BY <1>t, <1>u, <1>1, <1>2 DEF Drawing
<1>4. Alone' /\ FloatCovers'
  <2>1. balance' \in Nat /\ balance' >= balance  BY <1>t, <1>u DEF PayrollTypeOK
  <2> QED  BY <1>t, <1>1, <1>3, <2>1, CoverStays DEF GateInv
<1>5. GateSums'
  <2> SUFFICES ASSUME NEW p \in Requests, request'[p].step = "gating"
               PROVE  Cardinality(In(request'[p].batch, {"pending"})) <= request'[p].owed
    BY <1>u DEF GateSums, In, PayeesOf
  <2> QED  BY <1>r DEF GateInv, GateSums
<1>6. GateHolds' /\ PaidPresent'  BY <1>u DEF GateInv, GateHolds, GasFits, PayeesOf, PaidPresent
<1> QED  BY <1>4, <1>5, <1>6 DEF GateInv

LEMMA GateCrashStep ==
  ASSUME PayrollInv, PayrollInv', ScopeOK', GateInv, NEW s \in Servers, Crash(s),
         UNCHANGED shared
  PROVE  GateInv'
<1> USE DEF circle, funding, counts
<1>t. PayrollTypeOK /\ PayrollTypeOK' /\ BatchOf \in [Recipients -> Batches]
  BY PayrollAssumption DEF PayrollInv
<1>u. UNCHANGED <<batch, person, payout, balance>>  BY DEF Crash
<1>r. \A p \in Requests : request'[p] = request[p] \/ request'[p] = NoRequest  BY DEF Crash
<1>w. \A v \in Servers, b \in Batches :
        run'[<<v, b>>] = run[<<v, b>>] \/ run'[<<v, b>>] = NoRun
  <2> SUFFICES ASSUME NEW v \in Servers, NEW b \in Batches
               PROVE  run'[<<v, b>>] = run[<<v, b>>] \/ run'[<<v, b>>] = NoRun
    OBVIOUS
  <2>1. <<v, b>> \in Servers \X Batches  OBVIOUS
  <2> QED  BY <2>1 DEF Crash
<1>1. \A c \in Batches : Open(c)' => Open(c)
  <2> SUFFICES ASSUME NEW c \in Batches, Open(c)' PROVE Open(c)
    OBVIOUS
  <2>1. ASSUME NEW p \in Requests, request'[p].step \in {"marking", "starting"},
               request'[p].batch = c
        PROVE  Open(c)
    BY <1>r, <2>1 DEF Open, Engaged, NoRequest
  <2>2. ASSUME NEW v \in Servers, run'[<<v, c>>].step # "off" PROVE Open(c)
    BY <1>w, <2>2 DEF Open, Engaged, NoRun
  <2>3. ASSUME NEW r \in PayeesOf(c), payout'[r] = "accepted" PROVE Open(c)
    BY <1>u, <2>3 DEF Open
  <2> QED  BY <2>1, <2>2, <2>3 DEF Open, Engaged, PayeesOf
<1>2. \A r \in Recipients : InHand(r)' => InHand(r)
  <2> SUFFICES ASSUME NEW r \in Recipients, NEW v \in Servers,
                      \/ r \in run'[<<v, BatchOf[r]>>].todo
                      \/ /\ run'[<<v, BatchOf[r]>>].step = "paying"
                         /\ run'[<<v, BatchOf[r]>>].now = r
               PROVE  InHand(r)
    BY DEF InHand
  <2>1. run'[<<v, BatchOf[r]>>] = run[<<v, BatchOf[r]>>]  BY <1>t, <1>w DEF NoRun
  <2> QED  BY <2>1 DEF InHand
<1>3. \A r \in Recipients : Drawing(r)' => Drawing(r)  BY <1>t, <1>u, <1>1, <1>2 DEF Drawing
<1>4. Alone' /\ FloatCovers'
  <2>1. balance' \in Nat /\ balance' >= balance  BY <1>t, <1>u DEF PayrollTypeOK
  <2> QED  BY <1>t, <1>1, <1>3, <2>1, CoverStays DEF GateInv
<1>5. GateSums'
  <2> SUFFICES ASSUME NEW p \in Requests, request'[p].step = "gating"
               PROVE  Cardinality(In(request'[p].batch, {"pending"})) <= request'[p].owed
    BY <1>u DEF GateSums, In, PayeesOf
  <2> QED  BY <1>r DEF GateInv, GateSums, NoRequest
<1>7. GateHolds' /\ PaidPresent'  BY <1>u DEF GateInv, GateHolds, GasFits, PayeesOf, PaidPresent
<1> QED  BY <1>4, <1>5, <1>7 DEF GateInv

(* Circle finds what it draws, and with it one who draws is done.          *)
LEMMA GateMoneyStep ==
  ASSUME PayrollInv, PayrollInv', ScopeOK', GateInv, UNCHANGED shared,
         \/ \E t \in TopUps : Fund(t) \/ BalanceReadThrows(t) \/ TopUpLands(t)
         \/ \E r \in Recipients : CarryOut(r)
  PROVE  GateInv'
<1> USE DEF circle, funding, counts
<1>t. /\ PayrollTypeOK /\ PayrollTypeOK' /\ BatchOf \in [Recipients -> Batches]
      /\ balance \in Nat /\ balance' \in Nat
  BY PayrollAssumption DEF PayrollInv, PayrollTypeOK
<1>u. UNCHANGED <<batch, person, run, request>>
  BY DEF Fund, BalanceReadThrows, TopUpLands, CarryOut
<1>1. GateSums'  BY <1>u, SumsStay DEF GateInv
<1>2. \A r \in Recipients : InHand(r)' = InHand(r)  BY <1>u DEF InHand
<1>3. \A c \in Batches : Engaged(c)' = Engaged(c)  BY <1>u DEF Engaged
<1>4. ASSUME NEW t \in TopUps, Fund(t) \/ BalanceReadThrows(t) \/ TopUpLands(t) PROVE GateInv'
  <2>1. payout' = payout /\ balance' >= balance
    BY <1>4, <1>t, CostType DEF Fund, BalanceReadThrows, TopUpLands
  <2>2. \A c \in Batches : Open(c)' = Open(c)  BY <1>3, <2>1 DEF Open, PayeesOf
  <2>3. \A r \in Recipients : Drawing(r)' => Drawing(r)
    BY <1>t, <1>u, <1>2, <2>1, <2>2 DEF Drawing
  <2>4. Alone' /\ FloatCovers'  BY <1>t, <2>1, <2>2, <2>3, CoverStays DEF GateInv
  <2>5. GateHolds' /\ PaidPresent'
    BY <1>u, <2>1 DEF GateInv, GateHolds, GasFits, PayeesOf, PaidPresent
  <2> QED  BY <1>1, <2>4, <2>5 DEF GateInv
<1>5. ASSUME NEW r \in Recipients, CarryOut(r) PROVE GateInv'
  <2> DEFINE b == BatchOf[r]
  <2>1. /\ payout[r] = "accepted" /\ r \in Drawable(b) /\ b \in Batches
        /\ Open(b) /\ r \in PayeesOf(b)
    BY <1>5, <1>t DEF CarryOut, Drawable, Drawing, Open, PayeesOf
  <2>2. payout'[r] \in {"mined", "dry"} /\ \A p \in Recipients \ {r} : payout'[p] = payout[p]
    BY <1>5, <1>t DEF CarryOut, PayrollTypeOK
  <2>3. \A c \in Batches : Open(c)' => Open(c)  BY <1>3, <2>2 DEF Open, PayeesOf
  <2>4. \A p \in Recipients : Drawing(p)' => Drawing(p) /\ p # r
    BY <1>t, <1>u, <1>2, <2>2, <2>3 DEF Drawing
  <2>5. Alone'  BY <2>3 DEF GateInv, Alone
  <2>6. /\ IsFiniteSet(Drawable(b)) /\ Cardinality(Drawable(b)) \in Nat
        /\ IsFiniteSet(Drawable(b) \ {r})
        /\ Cardinality(Drawable(b) \ {r}) = Cardinality(Drawable(b)) - 1
        /\ Cardinality(Drawable(b) \ {r}) \in Nat
    BY <2>1, DrawableSize, FS_RemoveElement, FS_CardinalityType
  <2>7. Drawable(b)' \subseteq Drawable(b) \ {r}  BY <2>4 DEF Drawable, PayeesOf
  <2>8. /\ Cardinality(Drawable(b)') <= Cardinality(Drawable(b)) - 1
        /\ Cardinality(Drawable(b)') \in Nat
    BY <2>6, <2>7, FS_Subset, FS_CardinalityType
  <2>9. /\ Cardinality(Drawable(b) \ {r}) * Cost = Cardinality(Drawable(b)) * Cost - Cost
        /\ Cardinality(Drawable(b)') * Cost <= Cardinality(Drawable(b) \ {r}) * Cost
        /\ Cardinality(Drawable(b) \ {r}) * Cost \in Nat
        /\ Cardinality(Drawable(b)') * Cost \in Nat
        /\ Cardinality(Drawable(b)) * Cost \in Nat
    <3>1. (Cardinality(Drawable(b)) - 1) * Cost = Cardinality(Drawable(b)) * Cost - Cost
      BY <2>6, CostType
    <3>2. Cardinality(Drawable(b)') <= Cardinality(Drawable(b) \ {r})  BY <2>6, <2>8
    <3> QED  BY <2>6, <2>8, <3>1, <3>2, CostType, TimesGrows
  <2>10. b \notin shared /\ GasFits(b) =>
           payout'[r] = "mined" /\ balance' = balance - Cost
    <3> SUFFICES ASSUME b \notin shared, GasFits(b)
                 PROVE  payout'[r] = "mined" /\ balance' = balance - Cost
      OBVIOUS
    <3>1. Cardinality(Drawable(b)) * Cost <= balance  BY <2>1 DEF GateInv, FloatCovers
    <3>2. Cost <= balance  BY <1>t, <2>9, <3>1, CostType
    <3>3. payout' = [payout EXCEPT ![r] = "mined"] /\ balance' = balance - (Amount + Gas)
      BY <1>5, <1>t, <3>2, CostType DEF CarryOut, Cost
    <3> QED  BY <1>t, <3>3 DEF PayrollTypeOK, Cost
  <2>11. FloatCovers'
    <3> SUFFICES ASSUME NEW c \in Batches \ shared, Open(c)', GasFits(c)
                 PROVE  Cardinality(Drawable(c)') * Cost <= balance'
      BY DEF FloatCovers, GasFits, PayeesOf, Cost
    <3>1. c = b  BY <2>1, <2>3 DEF GateInv, Alone
    <3>2. Cardinality(Drawable(b)) * Cost <= balance  BY <2>1, <3>1 DEF GateInv, FloatCovers
    <3>3. balance' = balance - Cost  BY <2>10, <3>1
    <3>4. Cardinality(Drawable(b)') * Cost <= Cardinality(Drawable(b)) * Cost - Cost
      BY <2>9, CostType
    <3> QED  BY <1>t, <2>9, <3>1, <3>2, <3>3, <3>4, CostType
  <2>12. GateHolds'
    <3> SUFFICES ASSUME NEW p \in Recipients, payout'[p] = "dry",
                        BatchOf[p] \notin shared, GasFits(BatchOf[p])
                 PROVE  FALSE
      BY DEF GateHolds, GasFits, PayeesOf
    <3>1. CASE p = r  BY <2>10, <3>1
    <3>2. CASE p # r  BY <2>2, <3>2 DEF GateInv, GateHolds
    <3> QED  BY <3>1, <3>2
  <2>13. PaidPresent'  BY <1>u, <2>1, <2>2 DEF GateInv, PaidPresent
  <2> QED  BY <1>1, <2>5, <2>11, <2>12, <2>13 DEF GateInv
<1> QED  BY <1>4, <1>5

LEMMA GateInit == PayrollInit => GateInv
<1> SUFFICES ASSUME PayrollInit PROVE GateInv
  OBVIOUS
<1>1. \A b \in Batches : ~ Open(b)
  BY DEF PayrollInit, Open, Engaged, NoRun, NoRequest, PayeesOf
<1>2. Alone /\ FloatCovers  BY <1>1 DEF Alone, FloatCovers
<1>3. ScopeOK  BY DEF PayrollInit, ScopeOK, NoRun
<1> QED
  BY <1>2, <1>3 DEF GateInv, GateSums, PaidPresent, GateHolds, PayrollInit, NoRequest

LEMMA GateStep ==
  ASSUME PayrollInv, PayrollInv', GateInv, [PayrollNext]_payrollVars
  PROVE  GateInv'
<1>0. ScopeOK'  BY ScopeStep DEF GateInv
<1>1. CASE UNCHANGED payrollVars
  <2>1. UNCHANGED <<batch, person, request, run, payout, balance, shared>>
    BY <1>1 DEF payrollVars
  <2>2. /\ \A c \in Batches : Open(c)' => Open(c)
        /\ \A r \in Recipients : Drawing(r)' => Drawing(r)
    BY <2>1 DEF Drawing, InHand, Open, Engaged, PayeesOf
  <2>3. balance' \in Nat /\ balance' >= balance /\ PayrollTypeOK
    BY <2>1 DEF PayrollInv, PayrollTypeOK
  <2>4. Alone' /\ FloatCovers'  BY <2>1, <2>2, <2>3, CoverStays DEF GateInv
  <2>5. GateSums'  BY <2>1, SumsStay DEF GateInv
  <2> QED  BY <1>0, <2>1, <2>4, <2>5 DEF GateInv, PaidPresent, GateHolds, GasFits, PayeesOf
<1>2. CASE PayrollNext
  BY <1>0, <1>2, GateRequestStep, GateRunStep, GateCreateStep, GateExecuteStep, GateCrashStep,
     GateMoneyStep DEF PayrollNext, OutsideNext
<1> QED  BY <1>1, <1>2

(* No transfer of a batch the gate let through finds the float short       *)
(* (GateHolds), whatever servers crash, calls throw and requests repeat,   *)
(* for any number of batches and any amounts: unless the batch was open    *)
(* together with another or its gas exceeds the buffer, whoever may still  *)
(* draw on it is covered by the balance.                                   *)
THEOREM GateKeepsTheFloat == PayrollSpec => []GateHolds
<1>1. PayrollInv /\ PayrollInv' /\ GateInv /\ [PayrollNext]_payrollVars => GateInv'
  BY GateStep
<1>2. GateInv => GateHolds  BY DEF GateInv
<1> QED  BY <1>1, <1>2, AlwaysInv, GateInit, PTL DEF PayrollSpec

-----------------------------------------------------------------------------
(* Nobody is stranded.  What StartedBatchIsWorkedOff says will happen, the *)
(* state already shows somebody at work on.                                *)

AtWork(b) ==
  \/ \E q \in Requests : request[q].step = "starting" /\ request[q].batch = b
  \/ \E s \in Servers : run[<<s, b>>].step # "off"

Working(s, r) ==
  LET a == run[<<s, BatchOf[r]>>] IN
    a.step \in {"paying", "recording", "failing"} /\ a.now = r

NobodyStranded ==
  crashes = 0 => \A r \in Recipients :
    /\ person[r] = "processing" => \E s \in Servers : Working(s, r)
    /\ person[r] = "pending" /\ batch[BatchOf[r]] = "processing" => AtWork(BatchOf[r])

(* A run past its SELECT has everybody who is pending in its rows, and is  *)
(* through with them when it counts.                                       *)
RunsHoldPending ==
  \A s \in Servers, b \in Batches :
    LET a == run[<<s, b>>] IN
      /\ a.step \notin {"off", "selecting"} => In(b, {"pending"}) \subseteq a.todo
      /\ a.step \in {"counting", "settling", "leaving"} => a.todo = {}

StrandInv == RunsHoldPending /\ NobodyStranded

(* How a step of a run moves it on. *)
LEMMA RunAdvances ==
  ASSUME PayrollInv, ScopeOK, StrandInv, NEW s \in Servers, NEW b \in Batches, RunNext(s, b)
  PROVE  LET a == run[<<s, b>>]
             z == run'[<<s, b>>]
         IN /\ z.step \notin {"off", "selecting"} => In(b, {"pending"})' \subseteq z.todo
            /\ z.step \in {"counting", "settling", "leaving"} => z.todo = {}
            /\ z.step = "off" => In(b, {"pending"}) = {}
            /\ \A r \in Recipients :
                 person'[r] = "processing" /\ person[r] # "processing" =>
                   z.step = "paying" /\ z.now = r /\ r \in a.todo
            /\ crashes' = 0 => crashes = 0
            /\ crashes' = 0 /\ a.step \in {"paying", "recording", "failing"} =>
                 \/ z.step \in {"paying", "recording", "failing"} /\ z.now = a.now
                 \/ person'[a.now] # "processing"
            /\ \A c \in Batches : c # b => batch'[c] = batch[c]
            /\ UNCHANGED request
<1> DEFINE w == <<s, b>>
<1>t. /\ w \in Servers \X Batches /\ run \in [Servers \X Batches -> RunAt] /\ run[w] \in RunAt
      /\ batch \in [Batches -> {"absent", "draft", "processing", "partial", "completed"}]
      /\ person \in [Recipients -> {"absent", "pending", "processing", "paid", "failed"}]
      /\ crashes \in Nat
  BY PayrollAssumption DEF PayrollInv, PayrollTypeOK
<1>o. /\ run[w].step \in {"paying", "recording", "failing"} => run[w].now \in Recipients
      /\ run[w].step \notin {"off", "selecting"} => In(b, {"pending"}) \subseteq run[w].todo
      /\ run[w].step \in {"counting", "settling", "leaving"} => run[w].todo = {}
  <2>1. RunOK(w)  BY <1>t DEF PayrollInv, RunsOK
  <2> QED  BY <2>1 DEF RunOK, StrandInv, RunsHoldPending
<1>u. /\ UNCHANGED request /\ (crashes' = crashes \/ crashes' = crashes + 1)
      /\ \A c \in Batches : c # b => batch'[c] = batch[c]
  BY <1>t DEF RunNext, Select, Take, Pay, PaymentThrows, RecordPaid, RecordFailed, Backfill,
         Count, Settle, Leave, counts
<1>c. crashes' = 0 => crashes = 0  BY <1>t, <1>u
<1> DEFINE Holds == /\ run'[w].step \notin {"off", "selecting"} =>
                         In(b, {"pending"})' \subseteq run'[w].todo
                    /\ run'[w].step \in {"counting", "settling", "leaving"} => run'[w].todo = {}
                    /\ run'[w].step = "off" => In(b, {"pending"}) = {}
           Takes == \A r \in Recipients :
                      person'[r] = "processing" /\ person[r] # "processing" =>
                        run'[w].step = "paying" /\ run'[w].now = r /\ r \in run[w].todo
           Keeps == crashes' = 0 /\ run[w].step \in {"paying", "recording", "failing"} =>
                      \/ /\ run'[w].step \in {"paying", "recording", "failing"}
                         /\ run'[w].now = run[w].now
                      \/ person'[run[w].now] # "processing"
<1>1. CASE Select(s, b)
  <2>1. run'[w].step = "sending" /\ run'[w].todo = In(b, {"pending"})
    BY <1>t, <1>1 DEF Select, RunAt
  <2>2. UNCHANGED person /\ run[w].step = "selecting"  BY <1>1 DEF Select
  <2>3. Holds /\ Takes /\ Keeps  BY <2>1, <2>2 DEF In, PayeesOf
  <2> QED  BY <1>u, <1>c, <2>3
<1>2. CASE Take(s, b)
  <2>1. PICK r \in run[w].todo :
          /\ run' = [run EXCEPT ![<<s, b>>].step = "paying", ![<<s, b>>].now = r,
                                ![<<s, b>>].todo = @ \ {r}]
          /\ person' = [person EXCEPT ![r] = IF @ = "pending" THEN "processing" ELSE @]
    BY <1>2 DEF Take
  <2>2. run'[w].step = "paying" /\ run'[w].now = r /\ run'[w].todo = run[w].todo \ {r}
    BY <1>t, <2>1 DEF RunAt
  <2>3. run[w].step = "sending" /\ r \in Recipients  BY <1>2, <1>t, <2>1 DEF Take, RunAt
  <2>4. In(b, {"pending"})' \subseteq In(b, {"pending"}) \ {r}
    BY <1>t, <2>1, <2>3 DEF In, PayeesOf
  <2>5. Holds /\ Keeps  BY <1>o, <2>2, <2>3, <2>4
  <2>6. Takes  BY <1>t, <2>1, <2>2
  <2> QED  BY <1>u, <1>c, <2>5, <2>6
<1>3. ASSUME NEW to \in {"recording", "failing"}, run' = [run EXCEPT ![<<s, b>>].step = to],
             UNCHANGED person, run[w].step \in {"paying", "recording"}
      PROVE  Holds /\ Takes /\ Keeps
  <2>1. run'[w].step = to /\ run'[w].todo = run[w].todo /\ run'[w].now = run[w].now
    BY <1>t, <1>3 DEF RunAt
  <2>2. In(b, {"pending"})' = In(b, {"pending"})  BY <1>3 DEF In, PayeesOf
  <2> QED  BY <1>o, <1>3, <2>1, <2>2
<1>4. CASE RecordPaid(s, b) \/ RecordFailed(s, b)
  <2>1. run'[w].step = "sending" /\ run'[w].todo = run[w].todo
    BY <1>t, <1>4 DEF RecordPaid, RecordFailed, NextRecipient, RunAt
  <2>2. run[w].step \in {"recording", "failing"} /\ run[w].now \in Recipients
    BY <1>4, <1>o DEF RecordPaid, RecordFailed
  <2>3. \/ person' = [person EXCEPT ![run[w].now] = "paid"]
        \/ person' = [person EXCEPT ![run[w].now] = "failed"]
        \/ UNCHANGED person /\ crashes' = crashes + 1
    BY <1>4 DEF RecordPaid, RecordFailed
  <2>4. In(b, {"pending"})' \subseteq In(b, {"pending"})
    BY <1>t, <2>2, <2>3 DEF In, PayeesOf
  <2>5. Holds  BY <1>o, <2>1, <2>2, <2>4
  <2>6. Takes  BY <1>t, <2>2, <2>3
  <2>7. Keeps  BY <1>t, <2>2, <2>3
  <2> QED  BY <1>u, <1>c, <2>5, <2>6, <2>7
<1>5. CASE Backfill(s, b) \/ Count(s, b) \/ Settle(s, b)
  <2>0. run[w].step \in {"sending", "counting", "settling"} /\ run[w].todo = {}
    BY <1>o, <1>5 DEF Backfill, Count, Settle, RunGoes
  <2>1. run'[w].step \in {"counting", "settling", "leaving"} /\ run'[w].todo = run[w].todo
    <3>1. ASSUME NEW to \in {"counting", "leaving"}, run' = [run EXCEPT ![<<s, b>>].step = to]
          PROVE  run'[w].step = to /\ run'[w].todo = run[w].todo
      BY <1>t, <3>1 DEF RunAt
    <3>2. CASE Count(s, b)  BY <1>t, <3>2 DEF Count, RunAt
    <3>3. CASE Backfill(s, b) \/ Settle(s, b)  BY <3>1, <3>3 DEF Backfill, Settle, RunGoes
    <3> QED  BY <1>5, <3>2, <3>3
  <2>2. UNCHANGED person  BY <1>5 DEF Backfill, Count, Settle
  <2>3. In(b, {"pending"})' = In(b, {"pending"})  BY <2>2 DEF In, PayeesOf
  <2>4. Holds /\ Takes /\ Keeps  BY <1>o, <2>0, <2>1, <2>2, <2>3
  <2> QED  BY <1>u, <1>c, <2>4
<1>6. CASE Leave(s, b)
  <2>1. run'[w].step = "off" /\ run[w].step = "leaving" /\ UNCHANGED person
    BY <1>t, <1>6 DEF Leave, NoRun
  <2>2. Holds /\ Takes /\ Keeps  BY <1>o, <2>1
  <2> QED  BY <1>u, <1>c, <2>2
<1>7. CASE Pay(s, b) \/ PaymentThrows(s, b)
  <2>1. Holds /\ Takes /\ Keeps  BY <1>3, <1>7 DEF Pay, PaymentThrows, RunGoes
  <2> QED  BY <1>u, <1>c, <2>1
<1> QED  BY <1>1, <1>2, <1>4, <1>5, <1>6, <1>7 DEF RunNext

LEMMA StrandRunStep ==
  ASSUME PayrollInv, ScopeOK, StrandInv, NEW s \in Servers, NEW b \in Batches, RunNext(s, b)
  PROVE  StrandInv'
<1> DEFINE a == run[<<s, b>>]
           z == run'[<<s, b>>]
<1>t. BatchOf \in [Recipients -> Batches]  BY PayrollAssumption
<1>1. /\ z.step \notin {"off", "selecting"} => In(b, {"pending"})' \subseteq z.todo
      /\ z.step \in {"counting", "settling", "leaving"} => z.todo = {}
      /\ z.step = "off" => In(b, {"pending"}) = {}
      /\ \A r \in Recipients :
           person'[r] = "processing" /\ person[r] # "processing" =>
             z.step = "paying" /\ z.now = r /\ r \in a.todo
      /\ crashes' = 0 => crashes = 0
      /\ crashes' = 0 /\ a.step \in {"paying", "recording", "failing"} =>
           \/ z.step \in {"paying", "recording", "failing"} /\ z.now = a.now
           \/ person'[a.now] # "processing"
      /\ \A c \in Batches : c # b => batch'[c] = batch[c]
      /\ UNCHANGED request
  BY RunAdvances
<1>2. ASSUME NEW r \in Recipients PROVE person'[r] = "pending" => person[r] = "pending"
  BY <1>2, RunWithin
<1>3. ASSUME NEW r \in Servers, NEW c \in Batches, <<r, c>> # <<s, b>>
      PROVE  run'[<<r, c>>] = run[<<r, c>>]
  <2>1. <<r, c>> \in Servers \X Batches  OBVIOUS
  <2> QED  BY <1>3, <2>1, OtherRunsStay
<1>4. RunsHoldPending'
  <2> SUFFICES ASSUME NEW r \in Servers, NEW c \in Batches
               PROVE  LET y == run'[<<r, c>>] IN
                        /\ y.step \notin {"off", "selecting"} =>
                             In(c, {"pending"})' \subseteq y.todo
                        /\ y.step \in {"counting", "settling", "leaving"} => y.todo = {}
    BY DEF RunsHoldPending, In, PayeesOf
  <2>1. CASE <<r, c>> = <<s, b>>
    <3>1. c = b /\ run'[<<r, c>>] = z  BY <2>1
    <3> QED  BY <1>1, <3>1
  <2>2. CASE <<r, c>> # <<s, b>>
    <3>1. run'[<<r, c>>] = run[<<r, c>>]  BY <1>3, <2>2
    <3>2. In(c, {"pending"})' \subseteq In(c, {"pending"})  BY <1>2 DEF In, PayeesOf
    <3> QED  BY <3>1, <3>2 DEF StrandInv, RunsHoldPending
  <2> QED  BY <2>1, <2>2
<1>5. ASSUME crashes' = 0, NEW r \in Recipients, person'[r] = "processing"
      PROVE  \E v \in Servers : Working(v, r)'
  <2>1. CASE person[r] = "processing"
    <3>1. PICK v \in Servers : Working(v, r)
      BY <1>1, <1>5, <2>1 DEF StrandInv, NobodyStranded
    <3>2. CASE <<v, BatchOf[r]>> # <<s, b>>
      <4>1. run'[<<v, BatchOf[r]>>] = run[<<v, BatchOf[r]>>]  BY <1>3, <1>t, <3>2
      <4> QED  BY <3>1, <4>1 DEF Working
    <3>3. CASE <<v, BatchOf[r]>> = <<s, b>>
      <4>1. a.step \in {"paying", "recording", "failing"} /\ a.now = r
        BY <3>1, <3>3 DEF Working
      <4>2. z.step \in {"paying", "recording", "failing"} /\ z.now = r
        BY <1>1, <1>5, <4>1
      <4> QED  BY <3>3, <4>2 DEF Working
    <3> QED  BY <3>2, <3>3
  <2>2. CASE person[r] # "processing"
    <3>1. z.step = "paying" /\ z.now = r /\ r \in a.todo  BY <1>1, <1>5, <2>2
    <3>2. BatchOf[r] = b  BY <3>1 DEF ScopeOK, PayeesOf
    <3> QED  BY <3>1, <3>2 DEF Working
  <2> QED  BY <2>1, <2>2
<1>6. ASSUME crashes' = 0, NEW r \in Recipients, person'[r] = "pending",
             batch'[BatchOf[r]] = "processing"
      PROVE  AtWork(BatchOf[r])'
  <2>1. person[r] = "pending"  BY <1>2, <1>6
  <2>2. CASE BatchOf[r] = b
    <3>1. z.step # "off"  BY <1>1, <2>1, <2>2 DEF In, PayeesOf
    <3> QED  BY <2>2, <3>1 DEF AtWork
  <2>3. CASE BatchOf[r] # b
    <3>1. batch[BatchOf[r]] = "processing" /\ BatchOf[r] \in Batches  BY <1>1, <1>6, <1>t, <2>3
    <3>2. AtWork(BatchOf[r])  BY <1>1, <1>6, <2>1, <3>1 DEF StrandInv, NobodyStranded
    <3>3. ASSUME NEW v \in Servers PROVE run'[<<v, BatchOf[r]>>] = run[<<v, BatchOf[r]>>]
      BY <1>3, <2>3, <3>1
    <3> QED  BY <1>1, <3>2, <3>3 DEF AtWork
  <2> QED  BY <2>2, <2>3
<1> QED  BY <1>4, <1>5, <1>6 DEF StrandInv, NobodyStranded

LEMMA StrandRequestStep ==
  ASSUME PayrollInv, StrandInv, NEW q \in Requests, RequestNext(q)
  PROVE  StrandInv'
<1> USE DEF circle, funding, counts
<1> DEFINE b == request[q].batch
<1>t. /\ request \in [Requests -> {NoRequest} \cup RequestAt]
      /\ BatchOf \in [Recipients -> Batches] /\ run \in [Servers \X Batches -> RunAt]
      /\ batch \in [Batches -> {"absent", "draft", "processing", "partial", "completed"}]
  BY PayrollAssumption DEF PayrollInv, PayrollTypeOK
<1>r. request[q] \in RequestAt /\ b \in Batches /\ request[q].server \in Servers
  BY <1>t DEF RequestNext, CheckStatus, SumOwed, Gate, MarkBatch, Start, NoRequest, RequestAt
<1>u. UNCHANGED <<person, crashes>>
  BY DEF RequestNext, CheckStatus, SumOwed, Gate, MarkBatch, Start
<1>p. \A p \in Requests : p # q => request'[p] = request[p]
  BY <1>t DEF RequestNext, CheckStatus, SumOwed, Gate, Pass, MarkBatch, Start, Answer, RequestGoes
<1>w. ASSUME NEW s \in Servers, NEW c \in Batches
      PROVE  /\ run'[<<s, c>>].todo = run[<<s, c>>].todo
             /\ run'[<<s, c>>].now = run[<<s, c>>].now
             /\ \/ run'[<<s, c>>].step = run[<<s, c>>].step
                \/ run'[<<s, c>>].step = "selecting" /\ run[<<s, c>>].step = "off"
  <2>1. <<s, c>> \in Servers \X Batches  OBVIOUS
  <2> QED  BY <2>1, RequestWithin
<1>1. RunsHoldPending'
  <2>1. ASSUME NEW c \in Batches PROVE In(c, {"pending"})' = In(c, {"pending"})
    BY <1>u DEF In, PayeesOf
  <2>2. ASSUME NEW s \in Servers, NEW c \in Batches
        PROVE  LET y == run'[<<s, c>>] IN
                 /\ y.step \notin {"off", "selecting"} => In(c, {"pending"})' \subseteq y.todo
                 /\ y.step \in {"counting", "settling", "leaving"} => y.todo = {}
    BY <1>w, <2>1 DEF StrandInv, RunsHoldPending
  <2> QED  BY <2>2 DEF RunsHoldPending, In, PayeesOf
<1>2. ASSUME crashes' = 0, NEW r \in Recipients, person'[r] = "processing"
      PROVE  \E v \in Servers : Working(v, r)'
  <2>1. PICK v \in Servers : Working(v, r)
    BY <1>2, <1>u DEF StrandInv, NobodyStranded
  <2>2. Working(v, r)'  BY <1>t, <1>w, <2>1 DEF Working
  <2> QED  BY <2>2
<1>3. ASSUME NEW c \in Batches, AtWork(c) PROVE AtWork(c)'
  <2>1. ASSUME NEW s \in Servers, run[<<s, c>>].step # "off" PROVE AtWork(c)'
    <3>1. run'[<<s, c>>].step # "off"  BY <1>w, <2>1
    <3> QED  BY <3>1 DEF AtWork
  <2>2. ASSUME NEW p \in Requests, request[p].step = "starting", request[p].batch = c
        PROVE  AtWork(c)'
    <3>1. CASE p # q  BY <1>p, <2>2, <3>1 DEF AtWork
    <3>2. CASE p = q
      <4>1. Start(q)
        BY <2>2, <3>2 DEF RequestNext, CheckStatus, SumOwed, Gate, MarkBatch
      <4> DEFINE v == <<request[q].server, c>>
      <4>2. v \in Servers \X Batches /\ c = b  BY <1>r, <2>2, <3>2
      <4>3. run' = IF run[v].step = "off" THEN [run EXCEPT ![v].step = "selecting"] ELSE run
        BY <4>1, <4>2 DEF Start
      <4>4. run'[v].step # "off"  BY <1>t, <4>2, <4>3 DEF RunAt
      <4> QED  BY <1>r, <4>4 DEF AtWork
    <3> QED  BY <3>1, <3>2
  <2> QED  BY <1>3, <2>1, <2>2 DEF AtWork
<1>4. ASSUME crashes' = 0, NEW r \in Recipients, person'[r] = "pending",
             batch'[BatchOf[r]] = "processing"
      PROVE  AtWork(BatchOf[r])'
  <2>1. CASE batch[BatchOf[r]] = "processing"
    <3>1. AtWork(BatchOf[r])  BY <1>4, <1>u, <2>1 DEF StrandInv, NobodyStranded
    <3> QED  BY <1>3, <1>t, <3>1
  <2>2. CASE batch[BatchOf[r]] # "processing"
    <3>1. MarkBatch(q)
      BY <1>4, <2>2 DEF RequestNext, CheckStatus, SumOwed, Gate, Start
    <3>2. BatchOf[r] = b  BY <1>t, <1>r, <1>4, <2>2, <3>1 DEF MarkBatch
    <3>3. request'[q].step = "starting" /\ request'[q].batch = b
      BY <1>t, <1>r, <3>1 DEF MarkBatch, RequestGoes, RequestAt
    <3> QED  BY <3>2, <3>3 DEF AtWork
  <2> QED  BY <2>1, <2>2
<1> QED  BY <1>1, <1>2, <1>4 DEF StrandInv, NobodyStranded

LEMMA StrandCreateStep ==
  ASSUME PayrollInv, StrandInv, NEW b \in Batches, CreateBatch(b)
  PROVE  StrandInv'
<1> USE DEF circle, funding, counts
<1>t. /\ BatchOf \in [Recipients -> Batches] /\ crashes \in Nat
      /\ batch \in [Batches -> {"absent", "draft", "processing", "partial", "completed"}]
  BY PayrollAssumption DEF PayrollInv, PayrollTypeOK
<1>u. UNCHANGED <<request, run>>  BY DEF CreateBatch
<1>a. batch[b] = "absent" /\ batch' = [batch EXCEPT ![b] = "draft"]  BY DEF CreateBatch
<1>p. \A r \in Recipients :
        person'[r] = person[r] \/ (person'[r] = "pending" /\ BatchOf[r] = b)
  BY <1>t DEF CreateBatch, PayeesOf
<1>c. crashes' = 0 => crashes = 0  BY <1>t DEF CreateBatch
<1>1. RunsHoldPending'
  <2> SUFFICES ASSUME NEW s \in Servers, NEW c \in Batches
               PROVE  LET y == run[<<s, c>>] IN
                        /\ y.step \notin {"off", "selecting"} =>
                             In(c, {"pending"})' \subseteq y.todo
                        /\ y.step \in {"counting", "settling", "leaving"} => y.todo = {}
    BY <1>u DEF RunsHoldPending, In, PayeesOf
  <2>1. CASE c = b
    <3>1. <<s, b>> \in Servers \X Batches /\ <<s, b>>[2] = b  OBVIOUS
    <3>2. run[<<s, b>>].step = "off"  BY <1>a, <3>1 DEF PayrollInv, RunsOK, RunOK
    <3> QED  BY <2>1, <3>2
  <2>2. CASE c # b
    <3>1. In(c, {"pending"})' \subseteq In(c, {"pending"})  BY <1>p, <2>2 DEF In, PayeesOf
    <3> QED  BY <3>1 DEF StrandInv, RunsHoldPending
  <2> QED  BY <2>1, <2>2
<1>2. ASSUME crashes' = 0, NEW r \in Recipients, person'[r] = "processing"
      PROVE  \E v \in Servers : Working(v, r)'
  BY <1>2, <1>c, <1>p, <1>u DEF StrandInv, NobodyStranded, Working
<1>3. ASSUME crashes' = 0, NEW r \in Recipients, person'[r] = "pending",
             batch'[BatchOf[r]] = "processing"
      PROVE  AtWork(BatchOf[r])'
  <2>1. BatchOf[r] # b /\ batch[BatchOf[r]] = "processing"  BY <1>a, <1>t, <1>3
  <2>2. person[r] = "pending"  BY <1>3, <1>p, <2>1
  <2>3. AtWork(BatchOf[r])  BY <1>3, <1>c, <2>1, <2>2 DEF StrandInv, NobodyStranded
  <2> QED  BY <1>u, <2>3 DEF AtWork
<1> QED  BY <1>1, <1>2, <1>3 DEF StrandInv, NobodyStranded

LEMMA StrandCrashStep ==
  ASSUME PayrollInv, StrandInv, NEW s \in Servers, Crash(s)
  PROVE  StrandInv'
<1>1. crashes' # 0  BY PayrollAssumption DEF Crash, PayrollInv, PayrollTypeOK
<1>2. UNCHANGED person  BY DEF Crash
<1>3. ASSUME NEW v \in Servers, NEW c \in Batches
      PROVE  run'[<<v, c>>] = run[<<v, c>>] \/ run'[<<v, c>>] = NoRun
  <2>1. <<v, c>> \in Servers \X Batches  OBVIOUS
  <2> QED  BY <2>1 DEF Crash
<1>4. RunsHoldPending'
  <2>1. ASSUME NEW v \in Servers, NEW c \in Batches
        PROVE  LET y == run'[<<v, c>>] IN
                 /\ y.step \notin {"off", "selecting"} => In(c, {"pending"})' \subseteq y.todo
                 /\ y.step \in {"counting", "settling", "leaving"} => y.todo = {}
    BY <1>2, <1>3 DEF StrandInv, RunsHoldPending, NoRun, In, PayeesOf
  <2> QED  BY <2>1 DEF RunsHoldPending, In, PayeesOf
<1> QED  BY <1>1, <1>4 DEF StrandInv, NobodyStranded

LEMMA StrandStep ==
  ASSUME PayrollInv, ScopeOK, StrandInv, [PayrollNext]_payrollVars
  PROVE  StrandInv'
<1> USE DEF circle, funding, counts
<1>1. ASSUME UNCHANGED <<batch, person, request, run, crashes>> PROVE StrandInv'
  <2>1. \A c \in Batches : AtWork(c) => AtWork(c)'  BY <1>1 DEF AtWork
  <2>2. RunsHoldPending'
    BY <1>1 DEF StrandInv, RunsHoldPending, In, PayeesOf
  <2>3. NobodyStranded'
    BY <1>1, <2>1, PayrollAssumption DEF StrandInv, NobodyStranded, Working
  <2> QED  BY <2>2, <2>3 DEF StrandInv
<1>2. ASSUME NEW q \in Requests, NEW s \in Servers, NEW b \in Batches, Execute(q, s, b)
      PROVE  StrandInv'
  <2>1. UNCHANGED <<batch, person, run, crashes>>  BY <1>2 DEF Execute
  <2>2. \A p \in Requests : request[p].step = "starting" => request'[p] = request[p]
    BY <1>2 DEF Execute, NoRequest, PayrollInv, PayrollTypeOK
  <2>3. \A c \in Batches : AtWork(c) => AtWork(c)'  BY <2>1, <2>2 DEF AtWork
  <2> QED
    BY <2>1, <2>3, PayrollAssumption
    DEF StrandInv, RunsHoldPending, NobodyStranded, Working, In, PayeesOf
<1>3. ASSUME \/ \E t \in TopUps : Fund(t) \/ BalanceReadThrows(t) \/ TopUpLands(t)
             \/ \E r \in Recipients : CarryOut(r)
             \/ UNCHANGED payrollVars
      PROVE  StrandInv'
  BY <1>1, <1>3 DEF Fund, BalanceReadThrows, TopUpLands, CarryOut, payrollVars
<1> QED
  BY <1>2, <1>3, StrandRequestStep, StrandRunStep, StrandCreateStep, StrandCrashStep
  DEF PayrollNext, OutsideNext

(* Unless a server crashed, whoever of a batch that reads processing has   *)
(* no outcome yet is being paid, or a run or a request about to start one  *)
(* has the batch: what StartedBatchIsWorkedOff needs of the state, however *)
(* many servers run it and overwrite each other's verdict.  So a page that *)
(* keeps the button of such a batch disabled locks nobody out.             *)
THEOREM NobodyIsStranded == PayrollSpec => []NobodyStranded
<1>1. PayrollInit => StrandInv
  BY PayrollAssumption
  DEF PayrollInit, StrandInv, RunsHoldPending, NobodyStranded, NoRun
<1>2. StrandInv => NobodyStranded  BY DEF StrandInv
<1> QED  BY <1>1, <1>2, AlwaysInv, AlwaysScope, StrandStep, PTL DEF PayrollSpec
=============================================================================
