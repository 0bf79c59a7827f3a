------------------------- MODULE RampTransferProofs -------------------------
(***************************************************************************)
(* Proofs about the payout orchestrator, for any number of tasks, webhooks *)
(* and faults: type correctness and that the provider makes one payout;    *)
(* and, but for legs passed over before they were inserted, that the legs  *)
(* start in order and that completed means delivered.                      *)
(***************************************************************************)
EXTENDS RampTransfer, SequenceTheorems, TLAPS

-----------------------------------------------------------------------------
(* What a task may count on: the leg it works on is one of the plan, and   *)
(* what it is about to write of it is a status.                            *)

LegPcs == {"find", "mark", "exec", "call", "refer", "failing", "polled"}

TaskOK(t) ==
  /\ task[t].pc \in LegPcs => task[t].leg \in DOMAIN plan
  /\ task[t].pc \in {"find", "mark"} => task[t].says \in {"done", "failed"}
  /\ task[t].pc = "polled" => task[t].says # "none"
  /\ task[t].todo \subseteq DOMAIN plan

PlanOK == IF transfer = "none"
          THEN plan = <<>> /\ \A t \in Tasks : task[t].pc = "idle"
          ELSE plan \in Plans

RowsOK ==
  /\ inserting \subseteq DOMAIN plan
  /\ \A k \in Indices : leg[k] # "absent" => k \in DOMAIN plan

JobsOK == \A r \in Ramps : made[r] <= 1 /\ (job[r] = "none" => made[r] = 0)

BaseInv == RampTypeOK /\ PlanOK /\ RowsOK /\ (\A t \in Tasks : TaskOK(t)) /\ JobsOK

-----------------------------------------------------------------------------
(* The order of the legs.  A leg's predecessors have been done, or passed  *)
(* over, before anything is set in motion for it: a task, a job, a         *)
(* webhook, a poll.                                                        *)

Passed == wasDone \cup skipped
Before(k) == 1 .. k - 1 \subseteq Passed
Delivered == job["offramp"] \in {"done", "reversed"}

StartOK ==
  transfer = "none" =>
    /\ wasDone = {} /\ skipped = {} /\ hooks = {}
    /\ \A r \in Ramps : job[r] = "none"

LegsOK ==
  /\ \A k \in Indices : leg[k] \notin {"absent", "pending"} => Before(k)
  /\ \A k \in Indices : leg[k] = "done" => k \in wasDone
  /\ transfer = "completed" => DOMAIN plan \subseteq Passed

ProviderOK ==
  /\ \A h \in hooks : job[h[1]] # "none" /\ (h = <<"offramp", "done">> => Delivered)
  /\ \A r \in Ramps : job[r] # "none" => \A k \in IndexOf(r) : Before(k)
  /\ \A o \in IndexOf("offramp") : o \in wasDone => Delivered

OrderOK(t) ==
  /\ task[t].pc \in LegPcs => Before(task[t].leg)
  /\ \A k \in task[t].todo : Before(k)
  /\ task[t].pc = "pairWrite" => \A p \in IndexOf("payout") : Before(p)
  /\ task[t].pc = "complete" => DOMAIN plan \subseteq Passed
  /\ task[t].pc \in {"find", "mark", "polled"} =>
       (task[t].says = "done" /\ plan[task[t].leg] = "offramp" => Delivered)

OrderInv == StartOK /\ LegsOK /\ ProviderOK /\ \A t \in Tasks : OrderOK(t)

-----------------------------------------------------------------------------
(* The plans, one by one. *)

LastLegs == <<"offramp", "payout", "reconcile">>

(* Short sequences, concatenated. *)

LEMMA OneAndOne ==
  ASSUME NEW a, NEW b
  PROVE  <<a>> \o <<b>> = <<a, b>>
<1> DEFINE S == {a, b}
           s == <<a>> \o <<b>>
<1>1. <<a>> \in Seq(S) /\ <<b>> \in Seq(S) /\ <<a, b>> \in Seq(S)  OBVIOUS
<1>2. Len(<<a>>) = 1 /\ Len(<<b>>) = 1 /\ Len(<<a, b>>) = 2  OBVIOUS
<1> HIDE DEF S
<1>3. s \in Seq(S) /\ Len(s) = 2  BY <1>1, <1>2, ConcatProperties
<1>4. s[1] = a /\ s[2] = b
  BY <1>1, <1>2, ConcatProperties
<1>5. \A i \in 1 .. 2 : s[i] = <<a, b>>[i]  BY <1>4
<1> QED  BY <1>1, <1>2, <1>3, <1>5, SeqEqual

LEMMA OneAndThree ==
  ASSUME NEW a, NEW b, NEW c, NEW d
  PROVE  <<a>> \o <<b, c, d>> = <<a, b, c, d>>
<1> DEFINE S == {a, b, c, d}
           s == <<a>> \o <<b, c, d>>
<1>1. <<a>> \in Seq(S) /\ <<b, c, d>> \in Seq(S) /\ <<a, b, c, d>> \in Seq(S)  OBVIOUS
<1>2. Len(<<a>>) = 1 /\ Len(<<b, c, d>>) = 3 /\ Len(<<a, b, c, d>>) = 4  OBVIOUS
<1> HIDE DEF S
<1>3. s \in Seq(S) /\ Len(s) = 4  BY <1>1, <1>2, ConcatProperties
<1>4. s[1] = a /\ s[2] = b /\ s[3] = c /\ s[4] = d
  BY <1>1, <1>2, ConcatProperties
<1>5. \A i \in 1 .. 4 : s[i] = <<a, b, c, d>>[i]  BY <1>4
<1> QED  BY <1>1, <1>2, <1>3, <1>5, SeqEqual

LEMMA TwoAndThree ==
  ASSUME NEW a, NEW b, NEW c, NEW d, NEW e
  PROVE  <<a, b>> \o <<c, d, e>> = <<a, b, c, d, e>>
<1> DEFINE S == {a, b, c, d, e}
           s == <<a, b>> \o <<c, d, e>>
<1>1. <<a, b>> \in Seq(S) /\ <<c, d, e>> \in Seq(S) /\ <<a, b, c, d, e>> \in Seq(S)  OBVIOUS
<1>2. Len(<<a, b>>) = 2 /\ Len(<<c, d, e>>) = 3 /\ Len(<<a, b, c, d, e>>) = 5  OBVIOUS
<1> HIDE DEF S
<1>3. s \in Seq(S) /\ Len(s) = 5  BY <1>1, <1>2, ConcatProperties
<1>4. s[1] = a /\ s[2] = b /\ s[3] = c /\ s[4] = d /\ s[5] = e
  BY <1>1, <1>2, ConcatProperties
<1>5. \A i \in 1 .. 5 : s[i] = <<a, b, c, d, e>>[i]  BY <1>4
<1> QED  BY <1>1, <1>2, <1>3, <1>5, SeqEqual

LEMMA PlansAre ==
  ASSUME NEW p \in Plans
  PROVE  \/ p = <<"onramp", "offramp", "payout", "reconcile">>
         \/ p = <<"onramp", "bridge", "offramp", "payout", "reconcile">>
         \/ p = <<"collect", "offramp", "payout", "reconcile">>
         \/ p = <<"collect", "bridge", "offramp", "payout", "reconcile">>
<1>1. PICK m \in {"fiat_in", "usdc_in"}, b \in BOOLEAN : p = planLegs(m, b)  BY DEF Plans
<1>2. CASE b
  <2>1. p = <<IF m = "fiat_in" THEN "onramp" ELSE "collect">> \o <<"bridge">> \o LastLegs
    BY <1>1, <1>2 DEF planLegs, LastLegs
  <2>2. CASE m = "fiat_in"
    <3>1. p = <<"onramp", "bridge">> \o <<"offramp", "payout", "reconcile">>
      BY <2>1, <2>2, OneAndOne DEF LastLegs
    <3> QED  BY <3>1, TwoAndThree
  <2>3. CASE m # "fiat_in"
    <3>1. p = <<"collect", "bridge">> \o <<"offramp", "payout", "reconcile">>
      BY <2>1, <2>3, OneAndOne DEF LastLegs
    <3> QED  BY <3>1, TwoAndThree
  <2> QED  BY <2>2, <2>3
<1>3. CASE ~b
  <2>1. p = <<IF m = "fiat_in" THEN "onramp" ELSE "collect">> \o <<>> \o LastLegs
    BY <1>1, <1>3 DEF planLegs, LastLegs
  <2>2. CASE m = "fiat_in"
    <3>1. <<"onramp">> \o <<>> = <<"onramp">>  OBVIOUS
    <3>2. p = <<"onramp">> \o <<"offramp", "payout", "reconcile">>
      BY <2>1, <2>2, <3>1 DEF LastLegs
    <3> QED  BY <3>2, OneAndThree
  <2>3. CASE m # "fiat_in"
    <3>1. <<"collect">> \o <<>> = <<"collect">>  OBVIOUS
    <3>2. p = <<"collect">> \o <<"offramp", "payout", "reconcile">>
      BY <2>1, <2>3, <3>1 DEF LastLegs
    <3> QED  BY <3>2, OneAndThree
  <2> QED  BY <2>2, <2>3
<1> QED  BY <1>2, <1>3

LEMMA PlanFact ==
  ASSUME NEW p \in Plans
  PROVE  /\ DOMAIN p \subseteq Indices
         /\ \A k \in DOMAIN p : 1 .. k - 1 \subseteq DOMAIN p
         /\ \E o \in DOMAIN p : p[o] = "offramp"
         /\ \A j, k \in DOMAIN p : p[j] = p[k] => j = k
         /\ \A o, q \in DOMAIN p : p[o] = "offramp" /\ p[q] = "payout" => q = o + 1
         /\ \A k \in DOMAIN p : p[k] = "reconcile" => DOMAIN p = 1 .. k
<1>1. CASE p = <<"onramp", "offramp", "payout", "reconcile">>
  <2>1. DOMAIN p = 1 .. 4  BY <1>1
  <2>2. p[1] = "onramp" /\ p[2] = "offramp" /\ p[3] = "payout" /\ p[4] = "reconcile"
    BY <1>1
  <2> QED  BY <2>1, <2>2 DEF Indices
<1>2. CASE p = <<"onramp", "bridge", "offramp", "payout", "reconcile">>
  <2>1. DOMAIN p = 1 .. 5  BY <1>2
  <2>2. p[1] = "onramp" /\ p[2] = "bridge" /\ p[3] = "offramp" /\ p[4] = "payout"
        /\ p[5] = "reconcile"
    BY <1>2
  <2> QED  BY <2>1, <2>2 DEF Indices
<1>3. CASE p = <<"collect", "offramp", "payout", "reconcile">>
  <2>1. DOMAIN p = 1 .. 4  BY <1>3
  <2>2. p[1] = "collect" /\ p[2] = "offramp" /\ p[3] = "payout" /\ p[4] = "reconcile"
    BY <1>3
  <2> QED  BY <2>1, <2>2 DEF Indices
<1>4. CASE p = <<"collect", "bridge", "offramp", "payout", "reconcile">>
  <2>1. DOMAIN p = 1 .. 5  BY <1>4
  <2>2. p[1] = "collect" /\ p[2] = "bridge" /\ p[3] = "offramp" /\ p[4] = "payout"
        /\ p[5] = "reconcile"
    BY <1>4
  <2> QED  BY <2>1, <2>2 DEF Indices
<1> QED  BY <1>1, <1>2, <1>3, <1>4, PlansAre

LEMMA PlanDomain ==
  ASSUME BaseInv
  PROVE  DOMAIN plan \subseteq Indices
<1>1. CASE plan = <<>>
  <2>1. DOMAIN plan = {}  BY <1>1
  <2> QED  BY <2>1
<1>2. CASE plan \in Plans  BY <1>2, PlanFact
<1> QED  BY <1>1, <1>2 DEF BaseInv, PlanOK

-----------------------------------------------------------------------------
(* What the common parts of the actions keep. *)

Pcs == {"idle", "starting", "find", "mark", "pair", "pairWrite", "ticking", "polling",
        "polled", "transfer", "legs", "exec", "call", "refer", "failing", "refund", "complete"}

LEMMA TaskReplaced ==
  ASSUME BaseInv, NEW t \in Tasks, NEW x \in TaskAt,
         task' = [task EXCEPT ![t] = x], plan' = plan,
         x.pc \in LegPcs => x.leg \in DOMAIN plan,
         x.pc \in {"find", "mark"} => x.says \in {"done", "failed"},
         x.pc = "polled" => x.says # "none",
         x.todo \subseteq DOMAIN plan
  PROVE  task' \in [Tasks -> TaskAt] /\ \A u \in Tasks : TaskOK(u)'
<1>1. task \in [Tasks -> TaskAt]  BY DEF BaseInv, RampTypeOK
<1>2. ASSUME NEW u \in Tasks  PROVE TaskOK(u)'
  <2>1. CASE u # t
    <3>1. task'[u] = task[u]  BY <1>1, <2>1
    <3> QED  BY <3>1 DEF BaseInv, TaskOK
  <2>2. CASE u = t
    <3>1. task'[u] = x  BY <1>1, <2>2
    <3> QED  BY <3>1 DEF TaskOK
  <2> QED  BY <2>1, <2>2
<1> QED  BY <1>1, <1>2

(* A task whose pc alone moves. *)
LEMMA GoesKeeps ==
  ASSUME BaseInv, NEW t \in Tasks, NEW from \in Pcs, NEW to \in Pcs,
         Goes(t, from, to), plan' = plan,
         to \in LegPcs => from \in LegPcs,
         to \in {"find", "mark"} => from \in {"find", "mark"},
         to = "polled" => from = "polled"
  PROVE  task' \in [Tasks -> TaskAt] /\ \A u \in Tasks : TaskOK(u)'
<1>1. task \in [Tasks -> TaskAt]  BY DEF BaseInv, RampTypeOK
<1>2. PICK x \in TaskAt : x = [task[t] EXCEPT !.pc = to]
  BY <1>1 DEF TaskAt, Pcs
<1>3. task' = [task EXCEPT ![t] = x]  BY <1>1, <1>2 DEF Goes
<1>4. x.pc = to /\ x.leg = task[t].leg /\ x.says = task[t].says /\ x.todo = task[t].todo
  BY <1>1, <1>2 DEF TaskAt
<1>5. TaskOK(t) /\ task[t].pc = from  BY DEF BaseInv, Goes
<1>6. /\ x.pc \in LegPcs => x.leg \in DOMAIN plan
      /\ x.pc \in {"find", "mark"} => x.says \in {"done", "failed"}
      /\ x.pc = "polled" => x.says # "none"
      /\ x.todo \subseteq DOMAIN plan
  BY <1>4, <1>5 DEF TaskOK
<1> QED  BY <1>3, <1>6, TaskReplaced

LEMMA EndsKeeps ==
  ASSUME BaseInv, NEW t \in Tasks, NEW from, Ends(t, from), plan' = plan
  PROVE  task' \in [Tasks -> TaskAt] /\ \A u \in Tasks : TaskOK(u)'
<1>1. Idle \in TaskAt  BY DEF Idle, TaskAt, Indices
<1>2. /\ Idle.pc = "idle" /\ Idle.todo = {}
  BY DEF Idle
<1> QED  BY <1>1, <1>2, TaskReplaced DEF Ends, LegPcs

LEMMA SetLegKeeps ==
  ASSUME BaseInv, NEW k \in DOMAIN plan, NEW s \in {"pending", "in_flight", "done", "failed"},
         SetLeg(k, s), plan' = plan, inserting' = inserting
  PROVE  /\ leg' \in [Indices -> {"absent", "pending", "in_flight", "done", "failed"}]
         /\ wasDone' \subseteq Indices
         /\ RowsOK'
<1>1. k \in Indices  BY PlanDomain
<1> QED  BY <1>1 DEF BaseInv, RampTypeOK, RowsOK, SetLeg

(* The task's leg is a leg of the plan. *)
LEMMA LegInPlan ==
  ASSUME BaseInv, NEW t \in Tasks, task[t].pc \in LegPcs
  PROVE  task[t].leg \in DOMAIN plan /\ task[t].leg \in Indices
<1>1. task[t].leg \in DOMAIN plan  BY DEF BaseInv, TaskOK
<1> QED  BY <1>1, PlanDomain

(* Faults stay within their bound. *)
LEMMA FaultBound ==
  ASSUME BaseInv, fault' = fault \/ Faulty
  PROVE  fault' \in 0 .. MaxFaults
<1>1. fault \in Nat /\ fault <= MaxFaults /\ MaxFaults \in Nat
  BY RampAssumption DEF BaseInv, RampTypeOK
<1> QED  BY <1>1 DEF Faulty

LEMMA Moving ==
  ASSUME BaseInv, NEW t \in Tasks, task[t].pc # "idle"
  PROVE  transfer # "none" /\ plan \in Plans
BY DEF BaseInv, PlanOK

-----------------------------------------------------------------------------
(* Each action keeps BaseInv. *)

LEMMA BaseStarted ==
  ASSUME BaseInv, NEW t \in Tasks, Started(t)
  PROVE  BaseInv'
<1>1. plan' = plan /\ transfer # "none" /\ transfer' # "none"
  BY Moving DEF Started, Goes, Ends, Works, rows
<1>2. task' \in [Tasks -> TaskAt] /\ \A u \in Tasks : TaskOK(u)'
  BY <1>1, GoesKeeps DEF Started, Pcs, LegPcs
<1>3. leg' = leg /\ wasDone' = wasDone /\ RowsOK'
  BY DEF Started, rows, BaseInv, RowsOK
<1>4. RampTypeOK'
  BY <1>1, <1>2, <1>3 DEF BaseInv, RampTypeOK, Started, rows, world, history, Faulty
<1>5. PlanOK'  BY <1>1 DEF BaseInv, PlanOK
<1>6. JobsOK'  BY DEF BaseInv, JobsOK, Started, rows, world
<1> QED  BY <1>2, <1>3, <1>4, <1>5, <1>6 DEF BaseInv

LEMMA BaseReadTransfer ==
  ASSUME BaseInv, NEW t \in Tasks, ReadTransfer(t)
  PROVE  BaseInv'
<1>1. plan' = plan /\ transfer # "none" /\ transfer' # "none"
  BY Moving DEF ReadTransfer, Goes, Ends, Works, rows
<1>2. task' \in [Tasks -> TaskAt] /\ \A u \in Tasks : TaskOK(u)'
  BY <1>1, GoesKeeps, EndsKeeps DEF ReadTransfer, Pcs, LegPcs
<1>3. leg' = leg /\ wasDone' = wasDone /\ RowsOK'
  BY DEF ReadTransfer, rows, BaseInv, RowsOK
<1>4. RampTypeOK'
  BY <1>1, <1>2, <1>3 DEF BaseInv, RampTypeOK, ReadTransfer, rows, world, history, Faulty
<1>5. PlanOK'  BY <1>1 DEF BaseInv, PlanOK
<1>6. JobsOK'  BY DEF BaseInv, JobsOK, ReadTransfer, rows, world
<1> QED  BY <1>2, <1>3, <1>4, <1>5, <1>6 DEF BaseInv

LEMMA BaseComplete ==
  ASSUME BaseInv, NEW t \in Tasks, Complete(t)
  PROVE  BaseInv'
<1>1. plan' = plan /\ transfer # "none" /\ transfer' # "none"
  BY Moving DEF Complete, Goes, Ends, Works, rows
<1>2. task' \in [Tasks -> TaskAt] /\ \A u \in Tasks : TaskOK(u)'
  BY <1>1, EndsKeeps DEF Complete
<1>3. leg' = leg /\ wasDone' = wasDone /\ RowsOK'
  BY DEF Complete, rows, BaseInv, RowsOK
<1>4. RampTypeOK'
  BY <1>1, <1>2, <1>3 DEF BaseInv, RampTypeOK, Complete, rows, world, history, Faulty
<1>5. PlanOK'  BY <1>1 DEF BaseInv, PlanOK
<1>6. JobsOK'  BY DEF BaseInv, JobsOK, Complete, rows, world
<1> QED  BY <1>2, <1>3, <1>4, <1>5, <1>6 DEF BaseInv

LEMMA BaseRefund ==
  ASSUME BaseInv, NEW t \in Tasks, Refund(t)
  PROVE  BaseInv'
<1>1. plan' = plan /\ transfer # "none" /\ transfer' # "none"
  BY Moving DEF Refund, Goes, Ends, Works, rows
<1>2. task' \in [Tasks -> TaskAt] /\ \A u \in Tasks : TaskOK(u)'
  BY <1>1, EndsKeeps DEF Refund
<1>3. leg' = leg /\ wasDone' = wasDone /\ RowsOK'
  BY DEF Refund, rows, BaseInv, RowsOK
<1>4. RampTypeOK'
  BY <1>1, <1>2, <1>3 DEF BaseInv, RampTypeOK, Refund, rows, world, history, Faulty
<1>5. PlanOK'  BY <1>1 DEF BaseInv, PlanOK
<1>6. JobsOK'  BY DEF BaseInv, JobsOK, Refund, rows, world
<1> QED  BY <1>2, <1>3, <1>4, <1>5, <1>6 DEF BaseInv

LEMMA BaseRecordRef ==
  ASSUME BaseInv, NEW t \in Tasks, RecordRef(t)
  PROVE  BaseInv'
<1>1. plan' = plan /\ transfer # "none" /\ transfer' # "none"
  BY Moving DEF RecordRef, Goes, Ends, Works, rows
<1>0. task[t].leg \in Indices  BY LegInPlan DEF RecordRef, Ends, LegPcs
<1>2. task' \in [Tasks -> TaskAt] /\ \A u \in Tasks : TaskOK(u)'
  BY <1>1, EndsKeeps DEF RecordRef
<1>3. leg' = leg /\ wasDone' = wasDone /\ RowsOK'
  BY DEF RecordRef, rows, BaseInv, RowsOK
<1>4. RampTypeOK'
  BY <1>1, <1>2, <1>3, <1>0 DEF BaseInv, RampTypeOK, RecordRef, rows, world, history, Faulty
<1>5. PlanOK'  BY <1>1 DEF BaseInv, PlanOK
<1>6. JobsOK'  BY DEF BaseInv, JobsOK, RecordRef, rows, world
<1> QED  BY <1>2, <1>3, <1>4, <1>5, <1>6 DEF BaseInv

LEMMA BaseRecordFailure ==
  ASSUME BaseInv, NEW t \in Tasks, RecordFailure(t)
  PROVE  BaseInv'
<1>1. plan' = plan /\ transfer # "none" /\ transfer' # "none"
  BY Moving DEF RecordFailure, Goes, Ends, Works, rows
<1>2. task' \in [Tasks -> TaskAt] /\ \A u \in Tasks : TaskOK(u)'
  BY <1>1, GoesKeeps DEF RecordFailure, Pcs, LegPcs
<1>3. /\ leg' \in [Indices -> {"absent", "pending", "in_flight", "done", "failed"}]
      /\ wasDone' \subseteq Indices
      /\ RowsOK'
  BY <1>1, SetLegKeeps, LegInPlan DEF RecordFailure, Goes, Ends, LegPcs
<1>4. RampTypeOK'
  BY <1>1, <1>2, <1>3 DEF BaseInv, RampTypeOK, RecordFailure, rows, world, history, Faulty
<1>5. PlanOK'  BY <1>1 DEF BaseInv, PlanOK
<1>6. JobsOK'  BY DEF BaseInv, JobsOK, RecordFailure, rows, world
<1> QED  BY <1>2, <1>3, <1>4, <1>5, <1>6 DEF BaseInv

LEMMA BaseFindLeg ==
  ASSUME BaseInv, NEW t \in Tasks, FindLeg(t)
  PROVE  BaseInv'
<1>1. plan' = plan /\ transfer # "none" /\ transfer' # "none"
  BY Moving DEF FindLeg, Goes, Ends, Works, rows
<1>2. task' \in [Tasks -> TaskAt] /\ \A u \in Tasks : TaskOK(u)'
  BY <1>1, GoesKeeps, EndsKeeps DEF FindLeg, Pcs, LegPcs
<1>3. leg' = leg /\ wasDone' = wasDone /\ RowsOK'
  BY DEF FindLeg, rows, BaseInv, RowsOK
<1>4. RampTypeOK'
  BY <1>1, <1>2, <1>3 DEF BaseInv, RampTypeOK, FindLeg, rows, world, history, Faulty
<1>5. PlanOK'  BY <1>1 DEF BaseInv, PlanOK
<1>6. JobsOK'  BY DEF BaseInv, JobsOK, FindLeg, rows, world
<1> QED  BY <1>2, <1>3, <1>4, <1>5, <1>6 DEF BaseInv

LEMMA BaseReadPair ==
  ASSUME BaseInv, NEW t \in Tasks, ReadPair(t)
  PROVE  BaseInv'
<1>1. plan' = plan /\ transfer # "none" /\ transfer' # "none"
  BY Moving DEF ReadPair, Goes, Ends, Works, rows
<1>2. task' \in [Tasks -> TaskAt] /\ \A u \in Tasks : TaskOK(u)'
  BY <1>1, GoesKeeps DEF ReadPair, Pcs, LegPcs
<1>3. leg' = leg /\ wasDone' = wasDone /\ RowsOK'
  BY DEF ReadPair, rows, BaseInv, RowsOK
<1>4. RampTypeOK'
  BY <1>1, <1>2, <1>3 DEF BaseInv, RampTypeOK, ReadPair, rows, world, history, Faulty
<1>5. PlanOK'  BY <1>1 DEF BaseInv, PlanOK
<1>6. JobsOK'  BY DEF BaseInv, JobsOK, ReadPair, rows, world
<1> QED  BY <1>2, <1>3, <1>4, <1>5, <1>6 DEF BaseInv

LEMMA BaseExecAtOnce ==
  ASSUME BaseInv, NEW t \in Tasks, ExecAtOnce(t)
  PROVE  BaseInv'
<1>1. plan' = plan /\ transfer # "none" /\ transfer' # "none"
  BY Moving DEF ExecAtOnce, Goes, Ends, Works, rows
<1>2. task' \in [Tasks -> TaskAt] /\ \A u \in Tasks : TaskOK(u)'
  BY <1>1, GoesKeeps, EndsKeeps DEF ExecAtOnce, Pcs, LegPcs, Works
<1>3. /\ leg' \in [Indices -> {"absent", "pending", "in_flight", "done", "failed"}]
      /\ wasDone' \subseteq Indices
      /\ RowsOK'
  BY <1>1, SetLegKeeps, LegInPlan DEF ExecAtOnce, Goes, Ends, LegPcs, Works
<1>4. RampTypeOK'
  BY <1>1, <1>2, <1>3 DEF BaseInv, RampTypeOK, ExecAtOnce, rows, world, history, Faulty
<1>5. PlanOK'  BY <1>1 DEF BaseInv, PlanOK
<1>6. JobsOK'  BY DEF BaseInv, JobsOK, ExecAtOnce, rows, world
<1> QED  BY <1>2, <1>3, <1>4, <1>5, <1>6 DEF BaseInv

LEMMA BaseExecInFlight ==
  ASSUME BaseInv, NEW t \in Tasks, ExecInFlight(t)
  PROVE  BaseInv'
<1>1. plan' = plan /\ transfer # "none" /\ transfer' # "none"
  BY Moving DEF ExecInFlight, Goes, Ends, Works, rows
<1>2. task' \in [Tasks -> TaskAt] /\ \A u \in Tasks : TaskOK(u)'
  BY <1>1, GoesKeeps, EndsKeeps DEF ExecInFlight, Pcs, LegPcs, Works
<1>3. /\ leg' \in [Indices -> {"absent", "pending", "in_flight", "done", "failed"}]
      /\ wasDone' \subseteq Indices
      /\ RowsOK'
  BY <1>1, SetLegKeeps, LegInPlan DEF ExecInFlight, Goes, Ends, LegPcs, Works
<1>4. RampTypeOK'
  BY <1>1, <1>2, <1>3 DEF BaseInv, RampTypeOK, ExecInFlight, rows, world, history, Faulty
<1>5. PlanOK'  BY <1>1 DEF BaseInv, PlanOK
<1>6. JobsOK'  BY DEF BaseInv, JobsOK, ExecInFlight, rows, world
<1> QED  BY <1>2, <1>3, <1>4, <1>5, <1>6 DEF BaseInv

LEMMA BaseBridge ==
  ASSUME BaseInv, NEW t \in Tasks, Bridge(t)
  PROVE  BaseInv'
<1>1. plan' = plan /\ transfer # "none" /\ transfer' # "none"
  BY Moving DEF Bridge, Goes, Ends, Works, rows
<1>2. task' \in [Tasks -> TaskAt] /\ \A u \in Tasks : TaskOK(u)'
  BY <1>1, GoesKeeps, EndsKeeps DEF Bridge, Pcs, LegPcs
<1>3. /\ leg' \in [Indices -> {"absent", "pending", "in_flight", "done", "failed"}]
      /\ wasDone' \subseteq Indices
      /\ RowsOK'
  BY <1>1, SetLegKeeps, LegInPlan DEF Bridge, Goes, Ends, LegPcs
<1>3a. fault' \in 0 .. MaxFaults  BY FaultBound DEF Bridge, history
<1>4. RampTypeOK'
  BY <1>1, <1>2, <1>3, <1>3a DEF BaseInv, RampTypeOK, Bridge, rows, world
<1>5. PlanOK'  BY <1>1 DEF BaseInv, PlanOK
<1>6. JobsOK'  BY DEF BaseInv, JobsOK, Bridge, rows, world
<1> QED  BY <1>2, <1>3, <1>4, <1>5, <1>6 DEF BaseInv

LEMMA BaseMarkLeg ==
  ASSUME BaseInv, NEW t \in Tasks, MarkLeg(t)
  PROVE  BaseInv'
<1>1. plan' = plan /\ transfer # "none" /\ transfer' # "none"
  BY Moving DEF MarkLeg, Goes, Ends, Works, rows
<1>0. task[t].says \in {"done", "failed"}  BY DEF BaseInv, TaskOK, MarkLeg, Goes
<1>2. task' \in [Tasks -> TaskAt] /\ \A u \in Tasks : TaskOK(u)'
  BY <1>1, GoesKeeps DEF MarkLeg, Pcs, LegPcs
<1>3. /\ leg' \in [Indices -> {"absent", "pending", "in_flight", "done", "failed"}]
      /\ wasDone' \subseteq Indices
      /\ RowsOK'
  BY <1>1, SetLegKeeps, LegInPlan, <1>0 DEF MarkLeg, Goes, Ends, LegPcs
<1>4. RampTypeOK'
  BY <1>1, <1>2, <1>3 DEF BaseInv, RampTypeOK, MarkLeg, rows, world, history, Faulty
<1>5. PlanOK'  BY <1>1 DEF BaseInv, PlanOK
<1>6. JobsOK'  BY DEF BaseInv, JobsOK, MarkLeg, rows, world
<1> QED  BY <1>2, <1>3, <1>4, <1>5, <1>6 DEF BaseInv

LEMMA BaseCompletePair ==
  ASSUME BaseInv, NEW t \in Tasks, CompletePair(t)
  PROVE  BaseInv'
<1>1. plan' = plan /\ transfer # "none" /\ transfer' # "none"
  BY Moving DEF CompletePair, Goes, Ends, Works, rows
<1>2. task' \in [Tasks -> TaskAt] /\ \A u \in Tasks : TaskOK(u)'
  BY <1>1, GoesKeeps DEF CompletePair, Pcs, LegPcs
<1>3. /\ leg' \in [Indices -> {"absent", "pending", "in_flight", "done", "failed"}]
      /\ wasDone' \subseteq Indices
      /\ RowsOK'
  BY <1>1, SetLegKeeps DEF CompletePair, IndexOf
<1>4. RampTypeOK'
  BY <1>1, <1>2, <1>3 DEF BaseInv, RampTypeOK, CompletePair, rows, world, history, Faulty
<1>5. PlanOK'  BY <1>1 DEF BaseInv, PlanOK
<1>6. JobsOK'  BY DEF BaseInv, JobsOK, CompletePair, rows, world
<1> QED  BY <1>2, <1>3, <1>4, <1>5, <1>6 DEF BaseInv

LEMMA BaseRecordStatus ==
  ASSUME BaseInv, NEW t \in Tasks, RecordStatus(t)
  PROVE  BaseInv'
<1>1. plan' = plan /\ transfer # "none" /\ transfer' # "none"
  BY Moving DEF RecordStatus, Goes, Ends, Works, rows
<1>0. task[t].says \in {"pending", "done", "failed"} /\ task[t].leg \in DOMAIN plan
  BY DEF BaseInv, RampTypeOK, TaskAt, TaskOK, RecordStatus, Goes, LegPcs
<1>2. task' \in [Tasks -> TaskAt] /\ \A u \in Tasks : TaskOK(u)'
  BY <1>1, GoesKeeps DEF RecordStatus, Pcs, LegPcs
<1>3. /\ leg' \in [Indices -> {"absent", "pending", "in_flight", "done", "failed"}]
      /\ wasDone' \subseteq Indices
      /\ RowsOK'
  <2>1. CASE task[t].says = "pending"
    BY <2>1, <1>1 DEF RecordStatus, BaseInv, RampTypeOK, RowsOK
  <2>2. CASE task[t].says # "pending"
    BY <2>2, <1>0, <1>1, SetLegKeeps DEF RecordStatus
  <2> QED  BY <2>1, <2>2
<1>4. RampTypeOK'
  BY <1>1, <1>2, <1>3 DEF BaseInv, RampTypeOK, RecordStatus, rows, world, history, Faulty
<1>5. PlanOK'  BY <1>1 DEF BaseInv, PlanOK
<1>6. JobsOK'  BY DEF BaseInv, JobsOK, RecordStatus, rows, world
<1> QED  BY <1>2, <1>3, <1>4, <1>5, <1>6 DEF BaseInv

LEMMA BaseCallProvider ==
  ASSUME BaseInv, NEW t \in Tasks, CallProvider(t)
  PROVE  BaseInv'
<1>1. plan' = plan /\ transfer # "none" /\ transfer' # "none"
  BY Moving DEF CallProvider, Goes, Ends, Works, rows
<1>0. /\ job' \in [Ramps -> {"none", "pending", "done", "failed", "reversed"}]
      /\ made' \in [Ramps -> Nat]
      /\ JobsOK'
  <2>1. PICK type \in Ramps : MakeJob(type) \/ UNCHANGED <<job, made>>
    BY DEF CallProvider
  <2>2. /\ job \in [Ramps -> {"none", "pending", "done", "failed", "reversed"}]
        /\ made \in [Ramps -> Nat] /\ JobsOK
    BY DEF BaseInv, RampTypeOK
  <2>3. CASE job' = job /\ made' = made  BY <2>2, <2>3 DEF JobsOK
  <2>4. CASE /\ job[type] = "none"
             /\ job' = [job EXCEPT ![type] = "pending"]
             /\ made' = [made EXCEPT ![type] = @ + 1]
    <3>1. made[type] = 0  BY <2>2, <2>4 DEF JobsOK
    <3>2. made' = [made EXCEPT ![type] = 1]  BY <2>4, <3>1
    <3> QED  BY <2>2, <2>4, <3>2 DEF JobsOK
  <2> QED  BY <2>1, <2>3, <2>4 DEF MakeJob
<1>2. task' \in [Tasks -> TaskAt] /\ \A u \in Tasks : TaskOK(u)'
  BY <1>1, GoesKeeps DEF CallProvider, Pcs, LegPcs
<1>3. leg' = leg /\ wasDone' = wasDone /\ RowsOK'
  BY DEF CallProvider, rows, BaseInv, RowsOK
<1>3a. fault' \in 0 .. MaxFaults  BY FaultBound DEF CallProvider, history
<1>4. RampTypeOK'
  BY <1>1, <1>2, <1>3, <1>3a, <1>0 DEF BaseInv, RampTypeOK, CallProvider, rows, world
<1>5. PlanOK'  BY <1>1 DEF BaseInv, PlanOK
<1>6. JobsOK'  BY <1>0
<1> QED  BY <1>2, <1>3, <1>4, <1>5, <1>6 DEF BaseInv

LEMMA BaseReadLegs ==
  ASSUME BaseInv, NEW t \in Tasks, ReadLegs(t)
  PROVE  BaseInv'
<1>1. plan' = plan /\ transfer # "none" /\ transfer' # "none"
  BY Moving DEF ReadLegs, Goes, Ends, Works, rows
<1>2. task' \in [Tasks -> TaskAt] /\ \A u \in Tasks : TaskOK(u)'
  <2>1. CASE Goes(t, "legs", "complete")  BY <2>1, <1>1, GoesKeeps DEF Pcs, LegPcs
  <2>2. ASSUME NEW k \in Indices, NextLeg(k), NEW pc \in {"refund", "exec"},
               task' = [task EXCEPT ![t].leg = k, ![t].pc = pc]
        PROVE  task' \in [Tasks -> TaskAt] /\ \A u \in Tasks : TaskOK(u)'
    <3>1. task \in [Tasks -> TaskAt] /\ task[t] \in TaskAt  BY DEF BaseInv, RampTypeOK
    <3>2. PICK x \in TaskAt : x = [task[t] EXCEPT !.leg = k, !.pc = pc]
      <4>1. k \in 0 .. 5  BY DEF Indices
      <4>2. [task[t] EXCEPT !.leg = k, !.pc = pc] \in TaskAt  BY <2>2, <3>1, <4>1 DEF TaskAt
      <4> QED  BY <4>2
    <3>3. task' = [task EXCEPT ![t] = x]  BY <2>2, <3>1, <3>2
    <3>4. x.pc = pc /\ x.leg = k /\ x.todo = task[t].todo
      BY <3>1, <3>2 DEF TaskAt
    <3>5. k \in DOMAIN plan  BY <2>2 DEF NextLeg, Open, BaseInv, RowsOK
    <3>6. x.todo \subseteq DOMAIN plan  BY <3>4 DEF BaseInv, TaskOK
    <3> QED  BY <1>1, <2>2, <3>3, <3>4, <3>5, <3>6, TaskReplaced
  <2>3. ASSUME NEW k \in Indices, NextLeg(k),
               task' = [task EXCEPT ![t].leg = k,
                                    ![t].pc = IF leg[k] = "failed" THEN "refund" ELSE "exec"]
        PROVE  \E pc \in {"refund", "exec"} :
                 task' = [task EXCEPT ![t].leg = k, ![t].pc = pc]
    BY <2>3
  <2> QED  BY <2>1, <2>2, <2>3 DEF ReadLegs
<1>3. leg' = leg /\ wasDone' = wasDone /\ RowsOK'
  BY DEF ReadLegs, rows, BaseInv, RowsOK
<1>3a. skipped' \subseteq Indices
  BY PlanDomain DEF ReadLegs, BaseInv, RampTypeOK, Indices
<1>4. RampTypeOK'
  BY <1>1, <1>2, <1>3, <1>3a DEF BaseInv, RampTypeOK, ReadLegs, rows, world, history, Faulty
<1>5. PlanOK'  BY <1>1 DEF BaseInv, PlanOK
<1>6. JobsOK'  BY DEF BaseInv, JobsOK, ReadLegs, rows, world
<1> QED  BY <1>2, <1>3, <1>4, <1>5, <1>6 DEF BaseInv

LEMMA BasePoll ==
  ASSUME BaseInv, NEW t \in Tasks, Poll(t)
  PROVE  BaseInv'
<1>1. plan' = plan /\ transfer # "none" /\ transfer' # "none"
  BY Moving DEF Poll, Goes, Ends, Works, rows
<1>2. task' \in [Tasks -> TaskAt] /\ \A u \in Tasks : TaskOK(u)'
  <2>1. CASE Goes(t, "polling", "transfer")  BY <2>1, <1>1, GoesKeeps DEF Pcs, LegPcs
  <2>2. ASSUME NEW k \in task[t].todo,
               task' = [task EXCEPT ![t] = [pc |-> "polled", leg |-> k, says |-> Status(k),
                                            todo |-> task[t].todo \ {k}]]
        PROVE  task' \in [Tasks -> TaskAt] /\ \A u \in Tasks : TaskOK(u)'
    <3> DEFINE x == [pc |-> "polled", leg |-> k, says |-> Status(k),
                     todo |-> task[t].todo \ {k}]
    <3>1. Status(k) \in {"pending", "done", "failed"}  BY DEF Status
    <3>2. /\ task[t].todo \subseteq DOMAIN plan /\ task[t].todo \subseteq Indices
          /\ k \in 0 .. 5
      BY PlanDomain DEF BaseInv, TaskOK, Indices
    <3>3. x \in TaskAt  BY <3>1, <3>2 DEF TaskAt
    <3>4. /\ x.pc = "polled" /\ x.leg \in DOMAIN plan /\ x.says # "none"
          /\ x.todo \subseteq DOMAIN plan
      BY <3>1, <3>2
    <3>5. task' = [task EXCEPT ![t] = x]  BY <2>2
    <3> HIDE DEF x
    <3> QED  BY <1>1, <3>3, <3>4, <3>5, TaskReplaced
  <2> QED  BY <2>1, <2>2 DEF Poll
<1>3. leg' = leg /\ wasDone' = wasDone /\ RowsOK'
  BY DEF Poll, rows, BaseInv, RowsOK
<1>4. RampTypeOK'
  BY <1>1, <1>2, <1>3 DEF BaseInv, RampTypeOK, Poll, rows, world, history, Faulty
<1>5. PlanOK'  BY <1>1 DEF BaseInv, PlanOK
<1>6. JobsOK'  BY DEF BaseInv, JobsOK, Poll, rows, world
<1> QED  BY <1>2, <1>3, <1>4, <1>5, <1>6 DEF BaseInv

LEMMA BaseTick ==
  ASSUME BaseInv, NEW t \in Tasks, Tick(t)
  PROVE  BaseInv'
<1>1. plan' = plan /\ transfer # "none" /\ transfer' # "none"
  BY DEF Tick, rows
<1>2. task' \in [Tasks -> TaskAt] /\ \A u \in Tasks : TaskOK(u)'
  BY <1>1, GoesKeeps DEF Tick, Pcs, LegPcs
<1>3. leg' = leg /\ wasDone' = wasDone /\ RowsOK'
  BY DEF Tick, rows, BaseInv, RowsOK
<1>4. RampTypeOK'
  BY <1>1, <1>2, <1>3 DEF BaseInv, RampTypeOK, Tick, rows, world, history
<1>5. PlanOK'  BY <1>1 DEF BaseInv, PlanOK
<1>6. JobsOK'  BY DEF BaseInv, JobsOK, Tick, rows, world
<1> QED  BY <1>2, <1>3, <1>4, <1>5, <1>6 DEF BaseInv

LEMMA BaseTickLegs ==
  ASSUME BaseInv, NEW t \in Tasks, TickLegs(t)
  PROVE  BaseInv'
<1>1. plan' = plan /\ transfer # "none" /\ transfer' # "none"
  BY Moving DEF TickLegs, rows
<1>2. task' \in [Tasks -> TaskAt] /\ \A u \in Tasks : TaskOK(u)'
  <2> DEFINE inflight == {k \in DOMAIN plan : leg[k] = "in_flight" /\ plan[k] \in ByProvider}
             pc == IF inflight = {} THEN "transfer" ELSE "polling"
  <2>1. task \in [Tasks -> TaskAt]  BY DEF BaseInv, RampTypeOK
  <2>2. inflight \subseteq Indices  BY PlanDomain
  <2>3. task' = [task EXCEPT ![t].todo = inflight, ![t].pc = pc]  BY DEF TickLegs
  <2>4. inflight \subseteq DOMAIN plan /\ pc \in {"transfer", "polling"}  OBVIOUS
  <2> HIDE DEF inflight, pc
  <2>5. PICK x \in TaskAt : x = [task[t] EXCEPT !.todo = inflight, !.pc = pc]
    BY <2>1, <2>2, <2>4 DEF TaskAt
  <2>6. task' = [task EXCEPT ![t] = x]  BY <2>1, <2>3, <2>5
  <2>7. x.pc = pc /\ x.todo = inflight  BY <2>1, <2>5 DEF TaskAt
  <2> QED  BY <1>1, <2>4, <2>6, <2>7, TaskReplaced DEF LegPcs
<1>3. leg' = leg /\ wasDone' = wasDone /\ RowsOK'
  BY DEF TickLegs, rows, BaseInv, RowsOK
<1>4. RampTypeOK'
  BY <1>1, <1>2, <1>3 DEF BaseInv, RampTypeOK, TickLegs, rows, world, history, Faulty
<1>5. PlanOK'  BY <1>1 DEF BaseInv, PlanOK
<1>6. JobsOK'  BY DEF BaseInv, JobsOK, TickLegs, rows, world
<1> QED  BY <1>2, <1>3, <1>4, <1>5, <1>6 DEF BaseInv

LEMMA BaseWebhook ==
  ASSUME BaseInv, NEW t \in Tasks, Webhook(t)
  PROVE  BaseInv'
<1>1. plan' = plan /\ transfer # "none" /\ transfer' # "none"
  <2>1. plan' = plan /\ transfer' = transfer  BY DEF Webhook, rows
  <2>2. PICK h \in hooks : IndexOf(h[1]) # {}  BY DEF Webhook
  <2>3. plan # <<>>  BY <2>2 DEF IndexOf
  <2> QED  BY <2>1, <2>3 DEF BaseInv, PlanOK
<1>2. task' \in [Tasks -> TaskAt] /\ \A u \in Tasks : TaskOK(u)'
  <2>0. PICK h \in hooks : \E k \in IndexOf(h[1]) :
          task' = [task EXCEPT ![t] = [pc |-> "find", leg |-> k, says |-> h[2], todo |-> {}]]
    BY DEF Webhook
  <2>1. PICK k \in IndexOf(h[1]) :
          task' = [task EXCEPT ![t] = [pc |-> "find", leg |-> k, says |-> h[2], todo |-> {}]]
    BY <2>0
  <2> DEFINE x == [pc |-> "find", leg |-> k, says |-> h[2], todo |-> {}]
  <2>2. k \in DOMAIN plan /\ k \in 0 .. 5  BY PlanDomain DEF IndexOf, Indices
  <2>3. h[2] \in {"done", "failed"}  BY DEF BaseInv, RampTypeOK
  <2>4. x \in TaskAt  BY <2>2, <2>3 DEF TaskAt
  <2>5. x.pc = "find" /\ x.leg = k /\ x.says = h[2] /\ x.todo = {}  OBVIOUS
  <2>6. task' = [task EXCEPT ![t] = x]  BY <2>1
  <2> HIDE DEF x
  <2> QED  BY <1>1, <2>2, <2>3, <2>4, <2>5, <2>6, TaskReplaced
<1>3. leg' = leg /\ wasDone' = wasDone /\ RowsOK'
  BY DEF Webhook, rows, BaseInv, RowsOK
<1>3a. fault' \in 0 .. MaxFaults  BY FaultBound DEF Webhook, history
<1>4. RampTypeOK'
  BY <1>1, <1>2, <1>3, <1>3a DEF BaseInv, RampTypeOK, Webhook, rows, world
<1>5. PlanOK'  BY <1>1 DEF BaseInv, PlanOK
<1>6. JobsOK'  BY DEF BaseInv, JobsOK, Webhook, rows, world
<1> QED  BY <1>2, <1>3, <1>4, <1>5, <1>6 DEF BaseInv

LEMMA BaseInsertLeg ==
  ASSUME BaseInv, NEW k \in Indices, InsertLeg(k)
  PROVE  BaseInv'
<1>1. RampTypeOK'
  BY DEF BaseInv, RampTypeOK, InsertLeg, world, history
<1>2. PlanOK' /\ (\A u \in Tasks : TaskOK(u)') /\ JobsOK'
  BY DEF BaseInv, PlanOK, TaskOK, JobsOK, InsertLeg, world
<1>3. RowsOK'  BY DEF BaseInv, RampTypeOK, RowsOK, InsertLeg
<1> QED  BY <1>1, <1>2, <1>3 DEF BaseInv

LEMMA BaseCreate ==
  ASSUME BaseInv, NEW t \in Tasks, Create(t)
  PROVE  BaseInv'
<1>1. plan' \in Plans /\ transfer' = "created" /\ inserting' = DOMAIN plan'
  <2>1. PICK mode \in {"fiat_in", "usdc_in"} :
          plan' = planLegs(mode, mode = "usdc_in" /\ ~PayoutOnArc)
    BY DEF Create
  <2>2. PICK b \in BOOLEAN : b = (mode = "usdc_in" /\ ~PayoutOnArc)  OBVIOUS
  <2>3. plan' = planLegs(mode, b)  BY <2>1, <2>2
  <2>4. plan' \in Plans  BY <2>3 DEF Plans
  <2> QED  BY <2>4 DEF Create
<1>2. DOMAIN plan' \subseteq Indices  BY <1>1, PlanFact
<1>3. DOMAIN plan = {} /\ \A k \in Indices : leg[k] = "absent"
  <2>1. plan = <<>>  BY DEF Create, BaseInv, PlanOK
  <2>2. DOMAIN plan = {}  BY <2>1
  <2> QED  BY <2>2 DEF BaseInv, RowsOK
<1>4. /\ task \in [Tasks -> TaskAt] /\ task[t] \in TaskAt
      /\ task' = [task EXCEPT ![t].pc = "starting"]
  BY DEF BaseInv, RampTypeOK, Create, Goes
<1>5. PICK x \in TaskAt : x = [task[t] EXCEPT !.pc = "starting"]
  BY <1>4 DEF TaskAt
<1>6. task' = [task EXCEPT ![t] = x]  BY <1>4, <1>5
<1>7. x.pc = "starting" /\ x.todo = task[t].todo  BY <1>4, <1>5 DEF TaskAt
<1>8. ASSUME NEW u \in Tasks  PROVE TaskOK(u)'
  <2>1. task[u].pc = "idle" /\ task[u].todo = {}
    BY <1>3 DEF Create, BaseInv, PlanOK, TaskOK
  <2>2. task'[u].pc \in {"idle", "starting"} /\ task'[u].todo = {}
    BY <1>4, <1>6, <1>7, <2>1
  <2> QED  BY <2>2 DEF TaskOK, LegPcs
<1>9. RampTypeOK'
  BY <1>1, <1>2, <1>4, <1>6 DEF BaseInv, RampTypeOK, Create, world, history
<1>10. PlanOK' /\ RowsOK' /\ JobsOK'
  BY <1>1, <1>3 DEF BaseInv, PlanOK, RowsOK, JobsOK, Create, world
<1> QED  BY <1>8, <1>9, <1>10 DEF BaseInv

LEMMA BaseWorld ==
  ASSUME BaseInv,
         UNCHANGED <<rows, plan, inserting, task, made, wasDone, skipped>>,
         job' \in [Ramps -> {"none", "pending", "done", "failed", "reversed"}],
         \A r \in Ramps : job'[r] = "none" => job[r] = "none",
         hooks' \subseteq Ramps \X {"done", "failed"},
         lost' \in 0 .. MaxLost, fault' = fault
  PROVE  BaseInv'
<1>1. RampTypeOK'  BY DEF BaseInv, RampTypeOK, rows
<1>2. PlanOK' /\ RowsOK' /\ (\A u \in Tasks : TaskOK(u)')
  BY DEF BaseInv, PlanOK, RowsOK, TaskOK, rows
<1>3. JobsOK'  BY DEF BaseInv, JobsOK
<1> QED  BY <1>1, <1>2, <1>3 DEF BaseInv

LEMMA BaseJobEnds ==
  ASSUME BaseInv, NEW type \in Ramps, JobEnds(type)
  PROVE  BaseInv'
<1>1. PICK s \in {"done", "failed"} :
        job' = [job EXCEPT ![type] = s] /\ hooks' = hooks \cup {<<type, s>>}
  BY DEF JobEnds
<1>2. /\ job' \in [Ramps -> {"none", "pending", "done", "failed", "reversed"}]
      /\ \A r \in Ramps : job'[r] = "none" => job[r] = "none"
  BY <1>1 DEF BaseInv, RampTypeOK
<1>3. hooks' \subseteq Ramps \X {"done", "failed"}  BY <1>1 DEF BaseInv, RampTypeOK
<1> QED  BY <1>2, <1>3, BaseWorld DEF JobEnds, history, BaseInv, RampTypeOK

LEMMA BaseReverse ==
  ASSUME BaseInv, Reverse
  PROVE  BaseInv'
<1>1. /\ job' \in [Ramps -> {"none", "pending", "done", "failed", "reversed"}]
      /\ \A r \in Ramps : job'[r] = "none" => job[r] = "none"
  BY DEF BaseInv, RampTypeOK, Reverse
<1>2. hooks' \subseteq Ramps \X {"done", "failed"}
  BY DEF Reverse, BaseInv, RampTypeOK, Ramps
<1> QED  BY <1>1, <1>2, BaseWorld DEF Reverse, history, BaseInv, RampTypeOK

LEMMA BaseLoseWebhook ==
  ASSUME BaseInv, NEW h \in hooks, LoseWebhook(h)
  PROVE  BaseInv'
<1>1. lost' \in 0 .. MaxLost
  <2>1. lost \in Nat /\ MaxLost \in Nat /\ lost < MaxLost /\ lost' = lost + 1
    BY RampAssumption DEF BaseInv, RampTypeOK, LoseWebhook
  <2> QED  BY <2>1
<1>2. hooks' \subseteq Ramps \X {"done", "failed"}  BY DEF LoseWebhook, BaseInv, RampTypeOK
<1> QED  BY <1>1, <1>2, BaseWorld DEF LoseWebhook, BaseInv, RampTypeOK

LEMMA BaseCrash ==
  ASSUME BaseInv, Crash
  PROVE  BaseInv'
<1>1. Idle \in TaskAt /\ Idle.pc = "idle" /\ Idle.todo = {}
  BY DEF Idle, TaskAt
<1>2. \A u \in Tasks : task'[u] = Idle  BY DEF Crash
<1>3. task' \in [Tasks -> TaskAt] /\ \A u \in Tasks : TaskOK(u)'
  BY <1>1, <1>2 DEF Crash, TaskOK, LegPcs
<1>4. fault' \in 0 .. MaxFaults  BY FaultBound DEF Crash
<1>5. RampTypeOK'
  BY <1>3, <1>4 DEF Crash, BaseInv, RampTypeOK, rows, world
<1>6. PlanOK' /\ RowsOK' /\ JobsOK'
  BY <1>1, <1>2 DEF Crash, BaseInv, PlanOK, RowsOK, JobsOK, rows, world
<1> QED  BY <1>3, <1>5, <1>6 DEF BaseInv

LEMMA BaseStays ==
  ASSUME BaseInv, UNCHANGED rampVars
  PROVE  BaseInv'
BY DEF BaseInv, RampTypeOK, PlanOK, RowsOK, TaskOK, JobsOK, rampVars

LEMMA BaseInit == RampInit => BaseInv
<1> SUFFICES ASSUME RampInit PROVE BaseInv  OBVIOUS
<1>1. Idle \in TaskAt /\ Idle.pc = "idle" /\ Idle.todo = {}
  BY DEF Idle, TaskAt
<1>2. RampTypeOK  BY <1>1, RampAssumption DEF RampInit, RampTypeOK
<1>3. (\A u \in Tasks : TaskOK(u)) /\ PlanOK /\ RowsOK /\ JobsOK
  BY <1>1 DEF RampInit, TaskOK, LegPcs, PlanOK, RowsOK, JobsOK
<1> QED  BY <1>2, <1>3 DEF BaseInv

LEMMA BaseStep == BaseInv /\ [RampNext]_rampVars => BaseInv'
<1> SUFFICES ASSUME BaseInv, [RampNext]_rampVars PROVE BaseInv'  OBVIOUS
<1>1. ASSUME NEW k \in Indices, InsertLeg(k) PROVE BaseInv'  BY <1>1, BaseInsertLeg
<1>2. ASSUME NEW t \in Tasks, Create(t) \/ Webhook(t) \/ Tick(t)  PROVE BaseInv'
  BY <1>2, BaseCreate, BaseWebhook, BaseTick
<1>3. ASSUME NEW t \in Tasks, Serve(t)  PROVE BaseInv'
  <2>1. CASE Advance(t)
    BY <2>1, BaseReadTransfer, BaseReadLegs, BaseComplete, BaseRefund, BaseExecAtOnce,
       BaseExecInFlight, BaseBridge, BaseCallProvider, BaseRecordRef, BaseRecordFailure
       DEF Advance
  <2> QED
    BY <1>3, <2>1, BaseStarted, BaseFindLeg, BaseMarkLeg, BaseReadPair, BaseCompletePair,
       BaseTickLegs, BasePoll, BaseRecordStatus DEF Serve
<1>4. ASSUME NEW type \in Ramps, JobEnds(type)  PROVE BaseInv'  BY <1>4, BaseJobEnds
<1>5. CASE Reverse  BY <1>5, BaseReverse
<1>6. ASSUME NEW h \in hooks, LoseWebhook(h)  PROVE BaseInv'  BY <1>6, BaseLoseWebhook
<1>7. CASE Crash  BY <1>7, BaseCrash
<1>8. CASE UNCHANGED rampVars  BY <1>8, BaseStays
<1> QED  BY <1>1, <1>2, <1>3, <1>4, <1>5, <1>6, <1>7, <1>8 DEF RampNext

LEMMA BaseAlways == RampSpec => []BaseInv
BY BaseInit, BaseStep, PTL DEF RampSpec

(* Whatever tasks, webhooks, ticks, crashes and refusals interleave, the   *)
(* rows, the tasks and the provider's jobs stay of their kinds.            *)
THEOREM RampTypeCorrect == RampSpec => []RampTypeOK
<1>1. BaseInv => RampTypeOK  BY DEF BaseInv
<1> QED  BY <1>1, BaseAlways, PTL

(* The offramp is executed by every call that finds its leg open, and the  *)
(* provider, asked under one idempotency key, pays the recipient once.     *)
THEOREM PaysOutOnce == RampSpec => []PaidOutOnce
<1>1. BaseInv => PaidOutOnce  BY DEF BaseInv, JobsOK, PaidOutOnce, Ramps
<1> QED  BY <1>1, BaseAlways, PTL

-----------------------------------------------------------------------------
(* The order of the legs: what the common parts of the actions keep. *)

LEMMA PlanAgain ==
  ASSUME BaseInv
  PROVE  /\ DOMAIN plan \subseteq Indices
         /\ \A k \in DOMAIN plan : 1 .. k - 1 \subseteq DOMAIN plan
         /\ \A j, k \in DOMAIN plan : plan[j] = plan[k] => j = k
         /\ \A o, q \in DOMAIN plan : plan[o] = "offramp" /\ plan[q] = "payout" => q = o + 1
         /\ \A k \in DOMAIN plan : plan[k] = "reconcile" => DOMAIN plan = 1 .. k
<1>1. CASE plan = <<>>
  <2>1. DOMAIN plan = {}  BY <1>1
  <2> QED  BY <2>1
<1>2. CASE plan \in Plans  BY <1>2, PlanFact
<1> QED  BY <1>1, <1>2 DEF BaseInv, PlanOK

LEMMA OrderReplaced ==
  ASSUME BaseInv, OrderInv, NEW t \in Tasks, NEW x \in TaskAt,
         task' = [task EXCEPT ![t] = x], plan' = plan,
         Passed \subseteq Passed', Delivered => Delivered',
         x.pc \in LegPcs => Before(x.leg)',
         \A k \in x.todo : Before(k)',
         x.pc = "pairWrite" => \A p \in IndexOf("payout") : Before(p)',
         x.pc = "complete" => DOMAIN plan \subseteq Passed',
         x.pc \in {"find", "mark", "polled"} =>
           (x.says = "done" /\ plan[x.leg] = "offramp" => Delivered')
  PROVE  \A u \in Tasks : OrderOK(u)'
<1>1. task \in [Tasks -> TaskAt]  BY DEF BaseInv, RampTypeOK
<1> SUFFICES ASSUME NEW u \in Tasks PROVE OrderOK(u)'  OBVIOUS
<1>2. CASE u # t
  <2>1. task'[u] = task[u]  BY <1>1, <1>2
  <2>2. OrderOK(u)  BY DEF OrderInv
  <2> QED  BY <2>1, <2>2 DEF OrderOK, Before, IndexOf
<1>3. CASE u = t
  <2>1. task'[u] = x  BY <1>1, <1>3
  <2> QED  BY <2>1 DEF OrderOK, IndexOf
<1> QED  BY <1>2, <1>3

LEMMA OrderGoes ==
  ASSUME BaseInv, OrderInv, NEW t \in Tasks, NEW from \in Pcs, NEW to \in Pcs,
         Goes(t, from, to), plan' = plan,
         Passed \subseteq Passed', Delivered => Delivered',
         to \in LegPcs => from \in LegPcs,
         to \in {"find", "mark", "polled"} => from \in {"find", "mark", "polled"},
         to = "pairWrite" => \A p \in IndexOf("payout") : Before(p)',
         to = "complete" => DOMAIN plan \subseteq Passed'
  PROVE  \A u \in Tasks : OrderOK(u)'
<1>1. task \in [Tasks -> TaskAt]  BY DEF BaseInv, RampTypeOK
<1>2. PICK x \in TaskAt : x = [task[t] EXCEPT !.pc = to]
  BY <1>1 DEF TaskAt, Pcs
<1>3. task' = [task EXCEPT ![t] = x]  BY <1>1, <1>2 DEF Goes
<1>4. x.pc = to /\ x.leg = task[t].leg /\ x.says = task[t].says /\ x.todo = task[t].todo
  BY <1>1, <1>2 DEF TaskAt
<1>5. OrderOK(t) /\ task[t].pc = from  BY DEF OrderInv, Goes
<1>6. /\ x.pc \in LegPcs => Before(x.leg)'
      /\ \A k \in x.todo : Before(k)'
  BY <1>4, <1>5 DEF OrderOK, Before
<1>7. /\ x.pc = "pairWrite" => \A p \in IndexOf("payout") : Before(p)'
      /\ x.pc = "complete" => DOMAIN plan \subseteq Passed'
  BY <1>4
<1>8. x.pc \in {"find", "mark", "polled"} =>
           (x.says = "done" /\ plan[x.leg] = "offramp" => Delivered')
  BY <1>4, <1>5 DEF OrderOK
<1> QED  BY <1>3, <1>6, <1>7, <1>8, OrderReplaced

LEMMA OrderEnds ==
  ASSUME BaseInv, OrderInv, NEW t \in Tasks, NEW from, Ends(t, from), plan' = plan,
         Passed \subseteq Passed', Delivered => Delivered'
  PROVE  \A u \in Tasks : OrderOK(u)'
<1>1. Idle \in TaskAt  BY DEF Idle, TaskAt, Indices
<1>2. Idle.pc = "idle" /\ Idle.todo = {}  BY DEF Idle
<1> QED  BY <1>1, <1>2, OrderReplaced DEF Ends, LegPcs

(* A leg whose turn has come changes, and is done only when delivered. *)
LEMMA LegsSet ==
  ASSUME BaseInv, OrderInv, NEW k \in DOMAIN plan,
         NEW s \in {"pending", "in_flight", "done", "failed"},
         SetLeg(k, s), Before(k), plan' = plan, transfer' = transfer,
         s = "done" /\ plan[k] = "offramp" => Delivered,
         UNCHANGED <<job, hooks, skipped>>
  PROVE  /\ LegsOK' /\ ProviderOK'
         /\ Passed \subseteq Passed' /\ (Delivered => Delivered')
<1>1. k \in Indices  BY PlanDomain
<1>2. wasDone \subseteq wasDone' /\ (s = "done" => k \in wasDone')
      /\ \A j \in wasDone' : j \in wasDone \/ (j = k /\ s = "done")
  BY DEF SetLeg
<1>3. \A j \in Indices : leg'[j] = IF j = k THEN s ELSE leg[j]
  BY <1>1 DEF SetLeg, BaseInv, RampTypeOK
<1>4. Passed \subseteq Passed' /\ \A j : Before(j) => Before(j)'
  BY <1>2 DEF Passed, Before
<1>5. LegsOK'
  <2>1. ASSUME NEW j \in Indices, leg'[j] \notin {"absent", "pending"}  PROVE Before(j)'
    BY <2>1, <1>3, <1>4 DEF OrderInv, LegsOK
  <2>2. \A j \in Indices : leg'[j] = "done" => j \in wasDone'
    BY <1>2, <1>3 DEF OrderInv, LegsOK
  <2>3. transfer' = "completed" => DOMAIN plan' \subseteq Passed'
    BY <1>4 DEF OrderInv, LegsOK
  <2> QED  BY <2>1, <2>2, <2>3 DEF LegsOK
<1>6. Delivered' <=> Delivered  BY DEF Delivered
<1>7. ProviderOK'
  <2>1. \A h \in hooks' : job'[h[1]] # "none" /\ (h = <<"offramp", "done">> => Delivered')
    BY <1>6 DEF OrderInv, ProviderOK
  <2>2. \A r \in Ramps : job'[r] # "none" => \A j \in IndexOf(r)' : Before(j)'
    BY <1>4 DEF OrderInv, ProviderOK, IndexOf
  <2>3. \A o \in IndexOf("offramp")' : o \in wasDone' => Delivered'
    BY <1>2, <1>6 DEF OrderInv, ProviderOK, IndexOf
  <2> QED  BY <2>1, <2>2, <2>3 DEF ProviderOK
<1> QED  BY <1>4, <1>5, <1>6, <1>7

LEMMA LegsQuiet ==
  ASSUME BaseInv, OrderInv, UNCHANGED <<leg, wasDone, plan, job>>,
         skipped \subseteq skipped', hooks' \subseteq hooks,
         transfer' = "completed" => transfer = "completed" \/ DOMAIN plan \subseteq Passed
  PROVE  /\ LegsOK' /\ ProviderOK'
         /\ Passed \subseteq Passed' /\ (Delivered => Delivered')
<1>1. Passed \subseteq Passed' /\ \A j : Before(j) => Before(j)'
  BY DEF Passed, Before
<1>2. LegsOK'
  BY <1>1 DEF OrderInv, LegsOK
<1>3. Delivered' <=> Delivered  BY DEF Delivered
<1>4. ProviderOK'
  <2>1. \A r \in Ramps : job'[r] # "none" => \A j \in IndexOf(r)' : Before(j)'
    BY <1>1 DEF OrderInv, ProviderOK, IndexOf
  <2> QED  BY <2>1, <1>3 DEF OrderInv, ProviderOK, IndexOf
<1> QED  BY <1>1, <1>2, <1>3, <1>4

-----------------------------------------------------------------------------
(* Each action keeps OrderInv. *)

LEMMA OrderReadTransfer ==
  ASSUME BaseInv, OrderInv, NEW t \in Tasks, ReadTransfer(t)
  PROVE  OrderInv'
<1>1. plan' = plan /\ transfer # "none" /\ transfer' # "none"
  BY Moving DEF ReadTransfer, Goes, Ends, Works, rows
<1>2. /\ LegsOK' /\ ProviderOK'
      /\ Passed \subseteq Passed' /\ (Delivered => Delivered')
  BY <1>1, LegsQuiet DEF ReadTransfer, rows, world, history
<1>3. \A u \in Tasks : OrderOK(u)'
  BY <1>1, <1>2, OrderGoes, OrderEnds DEF ReadTransfer, Pcs, LegPcs
<1>5. StartOK'  BY <1>1 DEF StartOK
<1> QED  BY <1>2, <1>3, <1>5 DEF OrderInv

LEMMA OrderComplete ==
  ASSUME BaseInv, OrderInv, NEW t \in Tasks, Complete(t)
  PROVE  OrderInv'
<1>1. plan' = plan /\ transfer # "none" /\ transfer' # "none"
  BY Moving DEF Complete, Goes, Ends, Works, rows
<1>2. /\ LegsOK' /\ ProviderOK'
      /\ Passed \subseteq Passed' /\ (Delivered => Delivered')
  BY <1>1, LegsQuiet DEF OrderInv, OrderOK, Ends, Complete, rows, world, history
<1>3. \A u \in Tasks : OrderOK(u)'
  BY <1>1, <1>2, OrderEnds DEF Complete
<1>5. StartOK'  BY <1>1 DEF StartOK
<1> QED  BY <1>2, <1>3, <1>5 DEF OrderInv

LEMMA OrderRefund ==
  ASSUME BaseInv, OrderInv, NEW t \in Tasks, Refund(t)
  PROVE  OrderInv'
<1>1. plan' = plan /\ transfer # "none" /\ transfer' # "none"
  BY Moving DEF Refund, Goes, Ends, Works, rows
<1>2. /\ LegsOK' /\ ProviderOK'
      /\ Passed \subseteq Passed' /\ (Delivered => Delivered')
  BY <1>1, LegsQuiet DEF Refund, rows, world, history
<1>3. \A u \in Tasks : OrderOK(u)'
  BY <1>1, <1>2, OrderEnds DEF Refund
<1>5. StartOK'  BY <1>1 DEF StartOK
<1> QED  BY <1>2, <1>3, <1>5 DEF OrderInv

LEMMA OrderRecordRef ==
  ASSUME BaseInv, OrderInv, NEW t \in Tasks, RecordRef(t)
  PROVE  OrderInv'
<1>1. plan' = plan /\ transfer # "none" /\ transfer' # "none"
  BY Moving DEF RecordRef, Goes, Ends, Works, rows
<1>2. /\ LegsOK' /\ ProviderOK'
      /\ Passed \subseteq Passed' /\ (Delivered => Delivered')
  BY <1>1, LegsQuiet DEF RecordRef, rows, world, history
<1>3. \A u \in Tasks : OrderOK(u)'
  BY <1>1, <1>2, OrderEnds DEF RecordRef
<1>5. StartOK'  BY <1>1 DEF StartOK
<1> QED  BY <1>2, <1>3, <1>5 DEF OrderInv

LEMMA OrderFindLeg ==
  ASSUME BaseInv, OrderInv, NEW t \in Tasks, FindLeg(t)
  PROVE  OrderInv'
<1>1. plan' = plan /\ transfer # "none" /\ transfer' # "none"
  BY Moving DEF FindLeg, Goes, Ends, Works, rows
<1>2. /\ LegsOK' /\ ProviderOK'
      /\ Passed \subseteq Passed' /\ (Delivered => Delivered')
  BY <1>1, LegsQuiet DEF FindLeg, rows, world, history
<1>3. \A u \in Tasks : OrderOK(u)'
  BY <1>1, <1>2, OrderGoes, OrderEnds DEF FindLeg, Pcs, LegPcs
<1>5. StartOK'  BY <1>1 DEF StartOK
<1> QED  BY <1>2, <1>3, <1>5 DEF OrderInv

LEMMA OrderRecordFailure ==
  ASSUME BaseInv, OrderInv, NEW t \in Tasks, RecordFailure(t)
  PROVE  OrderInv'
<1>1. plan' = plan /\ transfer # "none" /\ transfer' # "none"
  BY Moving DEF RecordFailure, Goes, Ends, Works, rows
<1>0. task[t].leg \in DOMAIN plan /\ Before(task[t].leg)
  BY LegInPlan DEF RecordFailure, Goes, Ends, Works, LegPcs, OrderInv, OrderOK
<1>2. /\ LegsOK' /\ ProviderOK'
      /\ Passed \subseteq Passed' /\ (Delivered => Delivered')
  BY <1>0, <1>1, LegsSet DEF RecordFailure, world, history, Works
<1>3. \A u \in Tasks : OrderOK(u)'
  BY <1>1, <1>2, OrderGoes DEF RecordFailure, Pcs, LegPcs
<1>5. StartOK'  BY <1>1 DEF StartOK
<1> QED  BY <1>2, <1>3, <1>5 DEF OrderInv

LEMMA OrderExecInFlight ==
  ASSUME BaseInv, OrderInv, NEW t \in Tasks, ExecInFlight(t)
  PROVE  OrderInv'
<1>1. plan' = plan /\ transfer # "none" /\ transfer' # "none"
  BY Moving DEF ExecInFlight, Goes, Ends, Works, rows
<1>0. task[t].leg \in DOMAIN plan /\ Before(task[t].leg)
  BY LegInPlan DEF ExecInFlight, Goes, Ends, Works, LegPcs, OrderInv, OrderOK
<1>2. /\ LegsOK' /\ ProviderOK'
      /\ Passed \subseteq Passed' /\ (Delivered => Delivered')
  BY <1>0, <1>1, LegsSet DEF ExecInFlight, world, history, Works
<1>3. \A u \in Tasks : OrderOK(u)'
  BY <1>1, <1>2, OrderGoes, OrderEnds DEF ExecInFlight, Pcs, LegPcs, Works
<1>5. StartOK'  BY <1>1 DEF StartOK
<1> QED  BY <1>2, <1>3, <1>5 DEF OrderInv

LEMMA OrderBridge ==
  ASSUME BaseInv, OrderInv, NEW t \in Tasks, Bridge(t)
  PROVE  OrderInv'
<1>1. plan' = plan /\ transfer # "none" /\ transfer' # "none"
  BY Moving DEF Bridge, Goes, Ends, Works, rows
<1>0. task[t].leg \in DOMAIN plan /\ Before(task[t].leg)
  BY LegInPlan DEF Bridge, Goes, Ends, Works, LegPcs, OrderInv, OrderOK
<1>2. /\ LegsOK' /\ ProviderOK'
      /\ Passed \subseteq Passed' /\ (Delivered => Delivered')
  BY <1>0, <1>1, LegsSet DEF Bridge, world, history, Works
<1>3. \A u \in Tasks : OrderOK(u)'
  BY <1>1, <1>2, OrderGoes, OrderEnds DEF Bridge, Pcs, LegPcs
<1>5. StartOK'  BY <1>1 DEF StartOK
<1> QED  BY <1>2, <1>3, <1>5 DEF OrderInv

LEMMA OrderExecAtOnce ==
  ASSUME BaseInv, OrderInv, NEW t \in Tasks, ExecAtOnce(t)
  PROVE  OrderInv'
<1>1. plan' = plan /\ transfer # "none" /\ transfer' # "none"
  BY Moving DEF ExecAtOnce, Goes, Ends, Works, rows
<1>0. task[t].leg \in DOMAIN plan /\ Before(task[t].leg)
  BY LegInPlan DEF ExecAtOnce, Goes, Ends, Works, LegPcs, OrderInv, OrderOK
<1>2. /\ LegsOK' /\ ProviderOK'
      /\ Passed \subseteq Passed' /\ (Delivered => Delivered')
  BY <1>0, <1>1, LegsSet DEF ExecAtOnce, world, history, Works
<1>3. \A u \in Tasks : OrderOK(u)'
  <2>1. CASE Ends(t, "exec")  BY <2>1, <1>1, <1>2, OrderEnds
  <2>2. CASE plan[task[t].leg] = "reconcile" /\ Goes(t, "exec", "complete")
    <3>1. task[t].leg \in wasDone'  BY DEF ExecAtOnce, SetLeg
    <3>2. DOMAIN plan = 1 .. task[t].leg /\ DOMAIN plan \subseteq Indices
      BY <1>0, <2>2, PlanAgain
    <3>3. task[t].leg \in Nat /\ \A j \in 1 .. task[t].leg : j \in 1 .. task[t].leg - 1 \/ j = task[t].leg
      BY <1>0, <3>2 DEF Indices
    <3>4. DOMAIN plan \subseteq Passed'
      BY <1>0, <1>2, <3>1, <3>2, <3>3 DEF Before, Passed
    <3> QED  BY <2>2, <3>4, <1>1, <1>2, OrderGoes DEF Pcs, LegPcs
  <2> QED  BY <2>1, <2>2 DEF ExecAtOnce, Works
<1>5. StartOK'  BY <1>1 DEF StartOK
<1> QED  BY <1>2, <1>3, <1>5 DEF OrderInv

LEMMA OrderMarkLeg ==
  ASSUME BaseInv, OrderInv, NEW t \in Tasks, MarkLeg(t)
  PROVE  OrderInv'
<1>1. plan' = plan /\ transfer # "none" /\ transfer' # "none"
  BY Moving DEF MarkLeg, Goes, Ends, Works, rows
<1>0. /\ task[t].leg \in DOMAIN plan /\ Before(task[t].leg)
      /\ task[t].says \in {"pending", "done", "failed"}
      /\ task[t].says = "done" /\ plan[task[t].leg] = "offramp" => Delivered
  <2>1. task[t].pc = "mark"  BY DEF MarkLeg, Goes
  <2>2. TaskOK(t) /\ OrderOK(t) /\ task[t] \in TaskAt  BY DEF BaseInv, RampTypeOK, OrderInv
  <2> QED  BY <2>1, <2>2 DEF TaskOK, OrderOK, LegPcs, TaskAt
<1>2. /\ LegsOK' /\ ProviderOK'
      /\ Passed \subseteq Passed' /\ (Delivered => Delivered')
  BY <1>0, <1>1, LegsSet DEF MarkLeg, world, history, Works
<1>3. \A u \in Tasks : OrderOK(u)'
  BY <1>1, <1>2, OrderGoes DEF MarkLeg, Pcs, LegPcs
<1>5. StartOK'  BY <1>1 DEF StartOK
<1> QED  BY <1>2, <1>3, <1>5 DEF OrderInv

LEMMA OrderRecordStatus ==
  ASSUME BaseInv, OrderInv, NEW t \in Tasks, RecordStatus(t)
  PROVE  OrderInv'
<1>1. plan' = plan /\ transfer # "none" /\ transfer' # "none"
  BY Moving DEF RecordStatus, Goes, Ends, Works, rows
<1>0. /\ task[t].leg \in DOMAIN plan /\ Before(task[t].leg)
      /\ task[t].says \in {"pending", "done", "failed"}
      /\ task[t].says = "done" /\ plan[task[t].leg] = "offramp" => Delivered
  <2>1. task[t].pc = "polled"  BY DEF RecordStatus, Goes
  <2>2. TaskOK(t) /\ OrderOK(t) /\ task[t] \in TaskAt  BY DEF BaseInv, RampTypeOK, OrderInv
  <2> QED  BY <2>1, <2>2 DEF TaskOK, OrderOK, LegPcs, TaskAt
<1>2. /\ LegsOK' /\ ProviderOK'
      /\ Passed \subseteq Passed' /\ (Delivered => Delivered')
  <2>1. CASE task[t].says = "pending"
    BY <2>1, <1>1, LegsQuiet DEF RecordStatus, world, history
  <2>2. CASE task[t].says # "pending"
    BY <2>2, <1>0, <1>1, LegsSet DEF RecordStatus, world, history
  <2> QED  BY <2>1, <2>2
<1>3. \A u \in Tasks : OrderOK(u)'
  BY <1>1, <1>2, OrderGoes DEF RecordStatus, Pcs, LegPcs
<1>5. StartOK'  BY <1>1 DEF StartOK
<1> QED  BY <1>2, <1>3, <1>5 DEF OrderInv

LEMMA OrderReadPair ==
  ASSUME BaseInv, OrderInv, NEW t \in Tasks, ReadPair(t)
  PROVE  OrderInv'
<1>1. plan' = plan /\ transfer # "none" /\ transfer' # "none"
  BY Moving DEF ReadPair, Goes, Ends, Works, rows
<1>2. /\ LegsOK' /\ ProviderOK'
      /\ Passed \subseteq Passed' /\ (Delivered => Delivered')
  BY <1>1, LegsQuiet DEF ReadPair, rows, world, history
<1>3. \A u \in Tasks : OrderOK(u)'
  <2> DEFINE paired == \E o \in IndexOf("offramp"), p \in IndexOf("payout") :
                         leg[o] = "done" /\ leg[p] \in {"pending", "in_flight"}
  <2>1. CASE ~paired
    <3>1. Goes(t, "pair", "transfer")  BY <2>1 DEF ReadPair
    <3> QED  BY <3>1, <1>1, <1>2, OrderGoes DEF Pcs, LegPcs
  <2>2. CASE paired
    <3>1. Goes(t, "pair", "pairWrite")  BY <2>2 DEF ReadPair
    <3>2. ASSUME NEW p \in IndexOf("payout")  PROVE Before(p)'
      <4>1. PICK o \in DOMAIN plan : plan[o] = "offramp" /\ leg[o] = "done"
        BY <2>2 DEF IndexOf
      <4>2. p = o + 1 /\ o \in Indices  BY <3>2, <4>1, PlanAgain DEF IndexOf
      <4>3. o \in wasDone /\ Before(o)  BY <4>1, <4>2 DEF OrderInv, LegsOK
      <4>4. \A j \in 1 .. p - 1 : j = o \/ j \in 1 .. o - 1  BY <4>2 DEF Indices
      <4> QED  BY <1>2, <4>3, <4>4 DEF Before, Passed
    <3>3. \A p \in IndexOf("payout") : Before(p)'  BY <3>2
    <3> HIDE DEF paired
    <3> QED  BY <3>1, <3>3, <1>1, <1>2, OrderGoes DEF Pcs, LegPcs
  <2> QED  BY <2>1, <2>2
<1>5. StartOK'  BY <1>1 DEF StartOK
<1> QED  BY <1>2, <1>3, <1>5 DEF OrderInv

LEMMA OrderCompletePair ==
  ASSUME BaseInv, OrderInv, NEW t \in Tasks, CompletePair(t)
  PROVE  OrderInv'
<1>1. plan' = plan /\ transfer # "none" /\ transfer' # "none"
  BY Moving DEF CompletePair, Goes, Ends, Works, rows
<1>2. /\ LegsOK' /\ ProviderOK'
      /\ Passed \subseteq Passed' /\ (Delivered => Delivered')
  <2>1. PICK p \in IndexOf("payout") : SetLeg(p, "done")  BY DEF CompletePair
  <2>2. p \in DOMAIN plan /\ plan[p] = "payout"  BY DEF IndexOf
  <2>3. Before(p)  BY DEF CompletePair, Goes, OrderInv, OrderOK
  <2> QED  BY <1>1, <2>1, <2>2, <2>3, LegsSet DEF CompletePair, world, history
<1>3. \A u \in Tasks : OrderOK(u)'
  BY <1>1, <1>2, OrderGoes DEF CompletePair, Pcs, LegPcs
<1>5. StartOK'  BY <1>1 DEF StartOK
<1> QED  BY <1>2, <1>3, <1>5 DEF OrderInv

LEMMA OrderReadLegs ==
  ASSUME BaseInv, OrderInv, NEW t \in Tasks, ReadLegs(t)
  PROVE  OrderInv'
<1>1. plan' = plan /\ transfer # "none" /\ transfer' # "none"
  BY Moving DEF ReadLegs, Goes, Ends, Works, rows
<1>2. /\ LegsOK' /\ ProviderOK'
      /\ Passed \subseteq Passed' /\ (Delivered => Delivered')
  BY <1>1, LegsQuiet DEF ReadLegs, rows, world
<1>3. \A u \in Tasks : OrderOK(u)'
  <2>1. \A j \in DOMAIN plan : j \in Indices  BY PlanDomain
  <2>2. CASE /\ Open = {} /\ Goes(t, "legs", "complete")
             /\ skipped' = skipped \cup {j \in DOMAIN plan : leg[j] = "absent"}
    <3>1. DOMAIN plan \subseteq Passed'
      BY <2>1, <2>2, <1>1 DEF Open, OrderInv, LegsOK, Passed, ReadLegs
    <3> QED  BY <2>2, <3>1, <1>1, <1>2, OrderGoes DEF Pcs, LegPcs
  <2>3. ASSUME NEW k \in Indices, NextLeg(k), NEW pc \in {"refund", "exec"},
               skipped' = skipped \cup {j \in 1 .. k - 1 : leg[j] = "absent"},
               task' = [task EXCEPT ![t].leg = k, ![t].pc = pc]
        PROVE  \A u \in Tasks : OrderOK(u)'
    <3>1. task \in [Tasks -> TaskAt] /\ task[t] \in TaskAt  BY DEF BaseInv, RampTypeOK
    <3>2. PICK x \in TaskAt : x = [task[t] EXCEPT !.leg = k, !.pc = pc]
      <4>1. k \in 0 .. 5  BY DEF Indices
      <4>2. [task[t] EXCEPT !.leg = k, !.pc = pc] \in TaskAt  BY <2>3, <3>1, <4>1 DEF TaskAt
      <4> QED  BY <4>2
    <3>3. task' = [task EXCEPT ![t] = x]  BY <2>3, <3>1, <3>2
    <3>4. x.pc = pc /\ x.leg = k /\ x.todo = task[t].todo
      BY <3>1, <3>2 DEF TaskAt
    <3>5. k \in DOMAIN plan  BY <2>3 DEF NextLeg, Open, BaseInv, RowsOK
    <3>6. ASSUME NEW j \in 1 .. k - 1  PROVE j \in Passed'
      <4>1. j \in DOMAIN plan  BY <3>5, PlanAgain
      <4>2. j \in Indices /\ ~(k <= j)  BY <2>1, <4>1 DEF Indices
      <4>3. leg[j] \in {"absent", "done"}  BY <2>3, <4>2 DEF NextLeg, Open
      <4>4. CASE leg[j] = "absent"  BY <2>3, <4>4 DEF Passed
      <4>5. CASE leg[j] = "done"
        BY <4>2, <4>5 DEF OrderInv, LegsOK, Passed, ReadLegs
      <4> QED  BY <4>3, <4>4, <4>5
    <3>7. Before(x.leg)'  BY <3>4, <3>6 DEF Before
    <3>8. \A j \in x.todo : Before(j)'  BY <3>4, <1>2 DEF OrderInv, OrderOK, Before
    <3> QED  BY <1>1, <1>2, <2>3, <3>3, <3>4, <3>7, <3>8, OrderReplaced
  <2>4. ASSUME NEW k \in Indices, NextLeg(k),
               task' = [task EXCEPT ![t].leg = k,
                                    ![t].pc = IF leg[k] = "failed" THEN "refund" ELSE "exec"]
        PROVE  \E pc \in {"refund", "exec"} :
                 task' = [task EXCEPT ![t].leg = k, ![t].pc = pc]
    BY <2>4
  <2> QED  BY <2>2, <2>3, <2>4 DEF ReadLegs
<1>5. StartOK'  BY <1>1 DEF StartOK
<1> QED  BY <1>2, <1>3, <1>5 DEF OrderInv

LEMMA OrderPoll ==
  ASSUME BaseInv, OrderInv, NEW t \in Tasks, Poll(t)
  PROVE  OrderInv'
<1>1. plan' = plan /\ transfer # "none" /\ transfer' # "none"
  BY Moving DEF Poll, Goes, Ends, Works, rows
<1>2. /\ LegsOK' /\ ProviderOK'
      /\ Passed \subseteq Passed' /\ (Delivered => Delivered')
  BY <1>1, LegsQuiet DEF Poll, rows, world, history
<1>3. \A u \in Tasks : OrderOK(u)'
  <2>1. CASE Goes(t, "polling", "transfer")
    BY <2>1, <1>1, <1>2, OrderGoes DEF Pcs, LegPcs
  <2>2. ASSUME NEW k \in task[t].todo,
               task' = [task EXCEPT ![t] = [pc |-> "polled", leg |-> k, says |-> Status(k),
                                            todo |-> task[t].todo \ {k}]]
        PROVE  \A u \in Tasks : OrderOK(u)'
    <3> DEFINE x == [pc |-> "polled", leg |-> k, says |-> Status(k),
                     todo |-> task[t].todo \ {k}]
    <3>1. Status(k) \in {"pending", "done", "failed"}
          /\ (Status(k) = "done" => job[plan[k]] = "done")
      BY DEF Status
    <3>2. /\ task[t].todo \subseteq Indices
          /\ k \in 0 .. 5
      BY PlanDomain DEF BaseInv, TaskOK, Indices
    <3>3. x \in TaskAt  BY <3>1, <3>2 DEF TaskAt
    <3>4. x.pc = "polled" /\ x.leg = k /\ x.says = Status(k) /\ x.todo \subseteq task[t].todo
      OBVIOUS
    <3>5. task' = [task EXCEPT ![t] = x]  BY <2>2
    <3> HIDE DEF x
    <3>6. \A j \in task[t].todo : Before(j)'  BY <1>2 DEF OrderInv, OrderOK, Before
    <3>7. x.says = "done" /\ plan[x.leg] = "offramp" => Delivered'
      BY <1>2, <3>1, <3>4 DEF Delivered
    <3> QED  BY <1>1, <1>2, <3>3, <3>4, <3>5, <3>6, <3>7, OrderReplaced
  <2> QED  BY <2>1, <2>2 DEF Poll
<1>5. StartOK'  BY <1>1 DEF StartOK
<1> QED  BY <1>2, <1>3, <1>5 DEF OrderInv

LEMMA OrderCallProvider ==
  ASSUME BaseInv, OrderInv, NEW t \in Tasks, CallProvider(t)
  PROVE  OrderInv'
<1>1. plan' = plan /\ transfer # "none" /\ transfer' # "none"
  BY Moving DEF CallProvider, Goes, Ends, Works, rows
<1>0. task[t].leg \in DOMAIN plan /\ Before(task[t].leg)
  BY LegInPlan DEF CallProvider, Goes, Ends, Works, LegPcs, OrderInv, OrderOK
<1>2. /\ LegsOK' /\ ProviderOK'
      /\ Passed \subseteq Passed' /\ (Delivered => Delivered')
  <2> DEFINE type == plan[task[t].leg]
  <2>1. type \in Ramps /\ (MakeJob(type) \/ UNCHANGED <<job, made>>)  BY DEF CallProvider
  <2>2. job \in [Ramps -> {"none", "pending", "done", "failed", "reversed"}]
    BY DEF BaseInv, RampTypeOK
  <2>3. UNCHANGED <<leg, wasDone, skipped, hooks, transfer>>  BY DEF CallProvider, rows
  <2>4. \A k \in IndexOf(type) : k = task[t].leg  BY <1>0, PlanAgain DEF IndexOf
  <2> HIDE DEF type
  <2>5. \A r \in Ramps : job'[r] = job[r] \/ (r = type /\ job[r] = "none" /\ job'[r] = "pending")
    BY <2>1, <2>2 DEF MakeJob
  <2>6. Delivered => Delivered'  BY <2>5 DEF Delivered, Ramps
  <2>7. LegsOK' /\ Passed' = Passed  BY <1>1, <2>3 DEF OrderInv, LegsOK, Before, Passed
  <2>8. \A h \in hooks : job'[h[1]] # "none" /\ (h = <<"offramp", "done">> => Delivered')
    BY <2>5, <2>6 DEF OrderInv, ProviderOK, BaseInv, RampTypeOK
  <2>9. ASSUME NEW r \in Ramps, job'[r] # "none", NEW k \in IndexOf(r)  PROVE Before(k)
    <3>1. CASE r = type /\ job[r] = "none"  BY <3>1, <2>4, <2>9, <1>0
    <3>2. CASE job[r] # "none"  BY <3>2 DEF OrderInv, ProviderOK
    <3> QED  BY <2>5, <2>9, <3>1, <3>2
  <2>10. ProviderOK'
    BY <1>1, <2>3, <2>6, <2>7, <2>8, <2>9 DEF OrderInv, ProviderOK, IndexOf, Before
  <2> QED  BY <2>3, <2>6, <2>7, <2>10
<1>3. \A u \in Tasks : OrderOK(u)'
  BY <1>1, <1>2, OrderGoes DEF CallProvider, Pcs, LegPcs
<1>5. StartOK'  BY <1>1 DEF StartOK
<1> QED  BY <1>2, <1>3, <1>5 DEF OrderInv

LEMMA OrderStarted ==
  ASSUME BaseInv, OrderInv, NEW t \in Tasks, Started(t)
  PROVE  OrderInv'
<1>1. plan' = plan /\ transfer' = "in_progress"  BY DEF Started
<1>2. /\ LegsOK' /\ ProviderOK'
      /\ Passed \subseteq Passed' /\ (Delivered => Delivered')
  BY <1>1, LegsQuiet DEF Started, world, history
<1>3. \A u \in Tasks : OrderOK(u)'
  BY <1>1, <1>2, OrderGoes DEF Started, Pcs, LegPcs
<1>4. StartOK'  BY <1>1 DEF StartOK
<1> QED  BY <1>2, <1>3, <1>4 DEF OrderInv

LEMMA OrderInsertLeg ==
  ASSUME BaseInv, OrderInv, NEW k \in Indices, InsertLeg(k)
  PROVE  OrderInv'
<1>1. \A j \in Indices : leg'[j] = IF j = k THEN "pending" ELSE leg[j]
  BY DEF InsertLeg, BaseInv, RampTypeOK
<1>2. UNCHANGED <<transfer, plan, task, job, hooks, wasDone, skipped>>
  BY DEF InsertLeg, world, history
<1>3. Passed' = Passed  BY <1>2 DEF Passed
<1>4. StartOK'  BY <1>2 DEF OrderInv, StartOK
<1>5. LegsOK'  BY <1>1, <1>2, <1>3 DEF OrderInv, LegsOK, Before
<1>6. ProviderOK'  BY <1>2, <1>3 DEF OrderInv, ProviderOK, Before, IndexOf, Delivered
<1>7. \A u \in Tasks : OrderOK(u)'
  BY <1>2, <1>3 DEF OrderInv, OrderOK, Before, IndexOf, Delivered
<1> QED  BY <1>4, <1>5, <1>6, <1>7 DEF OrderInv

LEMMA OrderCreate ==
  ASSUME BaseInv, OrderInv, NEW t \in Tasks, Create(t)
  PROVE  OrderInv'
<1>1. /\ transfer = "none" /\ transfer' = "created"
      /\ UNCHANGED <<leg, job, hooks, wasDone, skipped>>
  BY DEF Create, world, history
<1>2. DOMAIN plan = {} /\ \A k \in Indices : leg[k] = "absent"
  <2>1. plan = <<>>  BY <1>1 DEF BaseInv, PlanOK
  <2>2. DOMAIN plan = {}  BY <2>1
  <2> QED  BY <2>2 DEF BaseInv, RowsOK
<1>3. \A u \in Tasks : task[u].pc = "idle" /\ task[u].todo = {}
  BY <1>1, <1>2 DEF BaseInv, PlanOK, TaskOK
<1>4. \A u \in Tasks : /\ task'[u].pc = IF u = t THEN "starting" ELSE "idle"
                       /\ task'[u].todo = {}
  BY <1>3 DEF Create, Goes, BaseInv, RampTypeOK, TaskAt
<1>5. wasDone = {} /\ hooks = {} /\ \A r \in Ramps : job[r] = "none"
  BY <1>1 DEF OrderInv, StartOK
<1>6. StartOK'  BY <1>1 DEF StartOK
<1>7. LegsOK'  BY <1>1, <1>2 DEF LegsOK
<1>8. ProviderOK'  BY <1>1, <1>5 DEF ProviderOK, IndexOf
<1>9. \A u \in Tasks : OrderOK(u)'  BY <1>4 DEF OrderOK, LegPcs
<1> QED  BY <1>6, <1>7, <1>8, <1>9 DEF OrderInv

LEMMA OrderWebhook ==
  ASSUME BaseInv, OrderInv, NEW t \in Tasks, Webhook(t)
  PROVE  OrderInv'
<1>1. /\ plan' = plan /\ transfer' = transfer /\ transfer # "none"
      /\ wasDone' = wasDone /\ skipped' = skipped
  BY DEF Webhook, rows, OrderInv, StartOK
<1>2. /\ LegsOK' /\ ProviderOK'
      /\ Passed \subseteq Passed' /\ (Delivered => Delivered')
  <2>1. hooks' \subseteq hooks  BY DEF Webhook
  <2> QED  BY <1>1, <2>1, LegsQuiet DEF Webhook, rows
<1>3. PICK h \in hooks : \E k \in IndexOf(h[1]) :
        task' = [task EXCEPT ![t] = [pc |-> "find", leg |-> k, says |-> h[2], todo |-> {}]]
  BY DEF Webhook
<1>4. PICK k \in IndexOf(h[1]) :
        task' = [task EXCEPT ![t] = [pc |-> "find", leg |-> k, says |-> h[2], todo |-> {}]]
  BY <1>3
<1>5. h \in Ramps \X {"done", "failed"} /\ k \in DOMAIN plan /\ k \in 0 .. 5
  BY PlanDomain DEF BaseInv, RampTypeOK, IndexOf, Indices
<1>6. Before(k)  BY <1>5 DEF OrderInv, ProviderOK
<1>7. h[2] = "done" /\ plan[k] = "offramp" => Delivered
  <2>1. plan[k] = h[1]  BY DEF IndexOf
  <2>2. h = <<h[1], h[2]>>  BY <1>5
  <2> QED  BY <2>1, <2>2 DEF OrderInv, ProviderOK
<1> DEFINE x == [pc |-> "find", leg |-> k, says |-> h[2], todo |-> {}]
<1>8. x \in TaskAt  BY <1>5 DEF TaskAt
<1>9. x.pc = "find" /\ x.leg = k /\ x.says = h[2] /\ x.todo = {}  OBVIOUS
<1>10. task' = [task EXCEPT ![t] = x]  BY <1>4
<1> HIDE DEF x
<1>11. Before(x.leg)'  BY <1>2, <1>6, <1>9 DEF Before
<1>12. \A u \in Tasks : OrderOK(u)'
  BY <1>1, <1>2, <1>7, <1>8, <1>9, <1>10, <1>11, OrderReplaced
<1>14. StartOK'  BY <1>1 DEF StartOK
<1> QED  BY <1>2, <1>12, <1>14 DEF OrderInv

LEMMA OrderTick ==
  ASSUME BaseInv, OrderInv, NEW t \in Tasks, Tick(t)
  PROVE  OrderInv'
<1>1. plan' = plan /\ transfer' = transfer /\ transfer # "none"
  BY DEF Tick, rows
<1>2. /\ LegsOK' /\ ProviderOK'
      /\ Passed \subseteq Passed' /\ (Delivered => Delivered')
  BY <1>1, LegsQuiet DEF Tick, rows, world, history
<1>3. \A u \in Tasks : OrderOK(u)'
  BY <1>1, <1>2, OrderGoes DEF Tick, Pcs, LegPcs
<1>4. StartOK'  BY <1>1 DEF StartOK
<1> QED  BY <1>2, <1>3, <1>4 DEF OrderInv

LEMMA OrderTickLegs ==
  ASSUME BaseInv, OrderInv, NEW t \in Tasks, TickLegs(t)
  PROVE  OrderInv'
<1>1. plan' = plan /\ transfer' = transfer /\ transfer # "none"
  BY Moving DEF TickLegs, rows
<1>2. /\ LegsOK' /\ ProviderOK'
      /\ Passed \subseteq Passed' /\ (Delivered => Delivered')
  BY <1>1, LegsQuiet DEF TickLegs, rows, world, history
<1> DEFINE inflight == {k \in DOMAIN plan : leg[k] = "in_flight" /\ plan[k] \in ByProvider}
           pc == IF inflight = {} THEN "transfer" ELSE "polling"
<1>3. task \in [Tasks -> TaskAt]  BY DEF BaseInv, RampTypeOK
<1>4. inflight \subseteq Indices  BY PlanDomain
<1>5. task' = [task EXCEPT ![t].todo = inflight, ![t].pc = pc]  BY DEF TickLegs
<1>6. pc \in {"transfer", "polling"}  OBVIOUS
<1>7. \A k \in inflight : Before(k)  BY <1>4 DEF OrderInv, LegsOK
<1> HIDE DEF inflight, pc
<1>8. PICK x \in TaskAt : x = [task[t] EXCEPT !.todo = inflight, !.pc = pc]
  BY <1>3, <1>4, <1>6 DEF TaskAt
<1>9. task' = [task EXCEPT ![t] = x]  BY <1>3, <1>5, <1>8
<1>10. x.pc = pc /\ x.todo = inflight  BY <1>3, <1>8 DEF TaskAt
<1>11. \A k \in x.todo : Before(k)'  BY <1>2, <1>7, <1>10 DEF Before
<1>12. \A u \in Tasks : OrderOK(u)'
  BY <1>1, <1>2, <1>6, <1>9, <1>10, <1>11, OrderReplaced DEF LegPcs
<1>14. StartOK'  BY <1>1 DEF StartOK
<1> QED  BY <1>2, <1>12, <1>14 DEF OrderInv

(* The provider's jobs end, and a delivered one may be taken back. *)
LEMMA OrderWorld ==
  ASSUME BaseInv, OrderInv, UNCHANGED <<rows, plan, inserting, task, wasDone, skipped>>,
         transfer # "none",
         \A r \in Ramps : job'[r] # "none" => job[r] # "none",
         Delivered => Delivered',
         \A h \in hooks' : job'[h[1]] # "none" /\ (h = <<"offramp", "done">> => Delivered')
  PROVE  OrderInv'
<1>1. StartOK'  BY DEF StartOK, rows
<1>2. LegsOK'  BY DEF OrderInv, LegsOK, Before, Passed, rows
<1>3. ProviderOK'  BY DEF OrderInv, ProviderOK, Before, Passed, IndexOf, rows
<1>4. \A u \in Tasks : OrderOK(u)'
  BY DEF OrderInv, OrderOK, Before, Passed, IndexOf, rows
<1> QED  BY <1>1, <1>2, <1>3, <1>4 DEF OrderInv

LEMMA OrderJobEnds ==
  ASSUME BaseInv, OrderInv, NEW type \in Ramps, JobEnds(type)
  PROVE  OrderInv'
<1>1. PICK s \in {"done", "failed"} :
        job' = [job EXCEPT ![type] = s] /\ hooks' = hooks \cup {<<type, s>>}
  BY DEF JobEnds
<1>2. job \in [Ramps -> {"none", "pending", "done", "failed", "reversed"}]
      /\ hooks \subseteq Ramps \X {"done", "failed"} /\ job[type] = "pending"
  BY DEF BaseInv, RampTypeOK, JobEnds
<1>3. \A r \in Ramps : job'[r] = IF r = type THEN s ELSE job[r]  BY <1>1, <1>2
<1>4. Delivered => Delivered'  BY <1>2, <1>3 DEF Delivered, Ramps
<1>5. ASSUME NEW h \in hooks'
      PROVE  job'[h[1]] # "none" /\ (h = <<"offramp", "done">> => Delivered')
  <2>1. CASE h \in hooks
    BY <2>1, <1>2, <1>3, <1>4 DEF OrderInv, ProviderOK
  <2>2. CASE h = <<type, s>>
    <3>1. h[1] = type /\ job'[type] = s  BY <2>2, <1>3
    <3>2. h = <<"offramp", "done">> => type = "offramp" /\ s = "done"  BY <2>2
    <3> QED  BY <3>1, <3>2 DEF Delivered
  <2> QED  BY <1>1, <2>1, <2>2
<1>6. transfer # "none"  BY <1>2 DEF OrderInv, StartOK
<1> QED  BY <1>2, <1>3, <1>4, <1>5, <1>6, OrderWorld DEF JobEnds, history

LEMMA OrderReverse ==
  ASSUME BaseInv, OrderInv, Reverse
  PROVE  OrderInv'
<1>1. job \in [Ramps -> {"none", "pending", "done", "failed", "reversed"}]
      /\ hooks \subseteq Ramps \X {"done", "failed"} /\ job["offramp"] = "done"
  BY DEF BaseInv, RampTypeOK, Reverse
<1>2. \A r \in Ramps : job'[r] = IF r = "offramp" THEN "reversed" ELSE job[r]
  BY <1>1 DEF Reverse
<1>3. Delivered'  BY <1>2 DEF Delivered, Ramps
<1>4. ASSUME NEW h \in hooks'
      PROVE  job'[h[1]] # "none" /\ (h = <<"offramp", "done">> => Delivered')
  <2>1. CASE h \in hooks  BY <2>1, <1>1, <1>2, <1>3 DEF OrderInv, ProviderOK
  <2>2. CASE h = <<"offramp", "failed">>  BY <2>2, <1>2, <1>3 DEF Ramps
  <2> QED  BY <2>1, <2>2 DEF Reverse
<1>5. transfer # "none"  BY <1>1 DEF OrderInv, StartOK, Ramps
<1> QED  BY <1>1, <1>2, <1>3, <1>4, <1>5, OrderWorld DEF Reverse, history

LEMMA OrderLoseWebhook ==
  ASSUME BaseInv, OrderInv, NEW h \in hooks, LoseWebhook(h)
  PROVE  OrderInv'
<1>1. hooks' \subseteq hooks /\ job' = job  BY DEF LoseWebhook
<1>2. transfer # "none"  BY DEF OrderInv, StartOK
<1> QED  BY <1>1, <1>2, OrderWorld DEF LoseWebhook, OrderInv, ProviderOK, Delivered

LEMMA OrderCrash ==
  ASSUME BaseInv, OrderInv, Crash
  PROVE  OrderInv'
<1>1. \A u \in Tasks : task'[u].pc = "idle" /\ task'[u].todo = {}
  BY DEF Crash, Idle
<1>2. StartOK'  BY <1>1 DEF Crash, OrderInv, StartOK, rows, world, history
<1>3. LegsOK'  BY DEF Crash, OrderInv, LegsOK, Before, Passed, rows
<1>4. ProviderOK'
  BY DEF Crash, OrderInv, ProviderOK, Before, Passed, IndexOf, Delivered, world
<1>5. \A u \in Tasks : OrderOK(u)'  BY <1>1 DEF OrderOK, LegPcs
<1> QED  BY <1>2, <1>3, <1>4, <1>5 DEF OrderInv

LEMMA OrderStays ==
  ASSUME OrderInv, UNCHANGED rampVars
  PROVE  OrderInv'
<1>1. StartOK'  BY DEF OrderInv, StartOK, rampVars
<1>2. LegsOK'  BY DEF OrderInv, LegsOK, Before, Passed, rampVars
<1>3. ProviderOK'  BY DEF OrderInv, ProviderOK, Before, Passed, IndexOf, Delivered, rampVars
<1>4. \A u \in Tasks : OrderOK(u)'
  BY DEF OrderInv, OrderOK, Before, Passed, IndexOf, Delivered, rampVars
<1> QED  BY <1>1, <1>2, <1>3, <1>4 DEF OrderInv

LEMMA OrderInit == RampInit => OrderInv
<1> SUFFICES ASSUME RampInit PROVE OrderInv  OBVIOUS
<1>1. \A u \in Tasks : task[u].pc = "idle" /\ task[u].todo = {}
  BY DEF RampInit, Idle
<1>2. DOMAIN plan = {}
  <2>1. plan = <<>>  BY DEF RampInit
  <2> QED  BY <2>1
<1>3. StartOK  BY <1>1 DEF RampInit, StartOK
<1>4. LegsOK  BY DEF RampInit, LegsOK
<1>5. ProviderOK  BY <1>2 DEF RampInit, ProviderOK, IndexOf
<1>6. \A u \in Tasks : OrderOK(u)  BY <1>1 DEF OrderOK, LegPcs
<1> QED  BY <1>3, <1>4, <1>5, <1>6 DEF OrderInv

LEMMA OrderStep == BaseInv /\ OrderInv /\ [RampNext]_rampVars => OrderInv'
<1> SUFFICES ASSUME BaseInv, OrderInv, [RampNext]_rampVars PROVE OrderInv'  OBVIOUS
<1>1. ASSUME NEW k \in Indices, InsertLeg(k) PROVE OrderInv'  BY <1>1, OrderInsertLeg
<1>2. ASSUME NEW t \in Tasks, Create(t) \/ Webhook(t) \/ Tick(t)  PROVE OrderInv'
  BY <1>2, OrderCreate, OrderWebhook, OrderTick
<1>3. ASSUME NEW t \in Tasks, Serve(t)  PROVE OrderInv'
  <2>1. CASE Advance(t)
    BY <2>1, OrderReadTransfer, OrderReadLegs, OrderComplete, OrderRefund, OrderExecAtOnce,
       OrderExecInFlight, OrderBridge, OrderCallProvider, OrderRecordRef, OrderRecordFailure
       DEF Advance
  <2> QED
    BY <1>3, <2>1, OrderStarted, OrderFindLeg, OrderMarkLeg, OrderReadPair,
       OrderCompletePair, OrderTickLegs, OrderPoll, OrderRecordStatus DEF Serve
<1>4. ASSUME NEW type \in Ramps, JobEnds(type)  PROVE OrderInv'  BY <1>4, OrderJobEnds
<1>5. CASE Reverse  BY <1>5, OrderReverse
<1>6. ASSUME NEW h \in hooks, LoseWebhook(h)  PROVE OrderInv'  BY <1>6, OrderLoseWebhook
<1>7. CASE Crash  BY <1>7, OrderCrash
<1>8. CASE UNCHANGED rampVars  BY <1>8, OrderStays
<1> QED  BY <1>1, <1>2, <1>3, <1>4, <1>5, <1>6, <1>7, <1>8 DEF RampNext

LEMMA OrderAlways == RampSpec => []OrderInv
<1>1. RampInit => BaseInv /\ OrderInv  BY BaseInit, OrderInit
<1>2. BaseInv /\ OrderInv /\ [RampNext]_rampVars => (BaseInv /\ OrderInv)'
  BY BaseStep, OrderStep
<1> QED  BY <1>1, <1>2, PTL DEF RampSpec

(* engine.ts:3-4, as far as the code keeps it: a leg under way has all its *)
(* predecessors done, then or before, but for those advanceTransfer passed *)
(* over because they were not inserted, in every interleaving of inserts,  *)
(* ticks, webhooks, retries and crashes.                                   *)
THEOREM RampLegsInOrder == RampSpec => []UnskippedLegsInOrder
<1>1. OrderInv => UnskippedLegsInOrder
  BY DEF OrderInv, LegsOK, Before, Passed, UnskippedLegsInOrder
<1> QED  BY <1>1, OrderAlways, PTL

(* A transfer reads completed only when the provider delivered, whatever   *)
(* it took back since, or when the offramp's leg was passed over: no other *)
(* path completes it on a guess.                                           *)
THEOREM CompletedMeansDelivered == RampSpec => []CompletedWasDelivered
<1>1. BaseInv /\ OrderInv => CompletedWasDelivered
  <2> SUFFICES ASSUME BaseInv, OrderInv, transfer = "completed"
               PROVE  \/ job["offramp"] \in {"done", "reversed"}
                      \/ IndexOf("offramp") \subseteq skipped
    BY DEF CompletedWasDelivered
  <2>1. ASSUME NEW o \in IndexOf("offramp"), o \notin skipped
        PROVE  job["offramp"] \in {"done", "reversed"}
    <3>1. o \in wasDone  BY <2>1 DEF OrderInv, LegsOK, Passed, IndexOf
    <3> QED  BY <2>1, <3>1 DEF OrderInv, ProviderOK, Delivered
  <2> QED  BY <2>1
<1> QED  BY <1>1, BaseAlways, OrderAlways, PTL
=============================================================================
