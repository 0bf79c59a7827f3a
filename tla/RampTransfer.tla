---------------------------- MODULE RampTransfer ----------------------------
(***************************************************************************)
(* The payout orchestrator (services/ramp): a transfer is a row and a row  *)
(* per leg, and advanceTransfer moves the first leg that is not done.  It  *)
(* is called when the transfer starts, by each webhook of the provider and *)
(* by the reconciler's tick, with nothing that keeps the calls apart; each *)
(* is a task here, and each await of it a step.                            *)
(*                                                                         *)
(* The provider keeps one job per idempotency key.  The payout leg has no  *)
(* job: the provider pays out as part of the offramp's.                    *)
(***************************************************************************)
EXTENDS Naturals, Sequences, FiniteSets

CONSTANTS
  Tasks,         \* bound: requests and ticks served at the same time
  PayoutOnArc,   \* RAMP_PAYOUT_CHAIN = 'arc'
  Reversals,     \* the provider may take a delivered payout back
  Ticks,         \* the reconciler runs
  MaxLost,       \* bound: webhooks lost
  MaxFaults      \* bound: calls that throw, and crashes

ASSUME RampAssumption ==
  /\ {PayoutOnArc, Reversals, Ticks} \subseteq BOOLEAN
  /\ MaxLost \in Nat /\ MaxFaults \in Nat

VARIABLES
  transfer,     \* transfers.status
  plan,         \* the legs of planLegs, in order
  leg,          \* transfer_legs.status, per index
  refs,         \* legs whose provider_ref is set
  inserting,    \* legs whose INSERT was sent and is not served
  task,
  job,          \* the provider's jobs
  made,         \* history: jobs the provider made per leg type
  hooks,        \* webhooks on their way
  wasDone,      \* history: legs that were done once
  skipped,       \* history: legs not yet inserted that advanceTransfer passed over
  lost, fault   \* history: faults so far

rows == <<transfer, leg, refs>>
world == <<job, made, hooks>>
history == <<skipped, lost, fault>>
rampVars == <<transfer, plan, leg, refs, inserting, task, job, made, hooks,
              wasDone, skipped, lost, fault>>

Indices == 1 .. 5
Ramps == {"onramp", "offramp"}        \* leg types with a job at the provider
ByProvider == Ramps \cup {"payout"}   \* and those its word finishes

(* planner.ts *)
planLegs(senderMode, needsBridge) ==
  <<IF senderMode = "fiat_in" THEN "onramp" ELSE "collect">>
  \o (IF needsBridge THEN <<"bridge">> ELSE <<>>)
  \o <<"offramp", "payout", "reconcile">>

Plans == {planLegs(m, b) : m \in {"fiat_in", "usdc_in"}, b \in BOOLEAN}

Idle == [pc |-> "idle", leg |-> 0, says |-> "none", todo |-> {}]
TaskAt == [pc: {"idle", "starting", "find", "mark", "pair", "pairWrite", "ticking",
                "polling", "polled", "transfer", "legs", "exec", "call", "refer",
                "failing", "refund", "complete"},
           leg: 0 .. 5,                            \* the leg it works on
           says: {"none", "pending", "done", "failed"},   \* what the provider says
           todo: SUBSET Indices]                   \* legs the tick has yet to poll

RampTypeOK ==
  /\ transfer \in {"none", "created", "in_progress", "refunding", "completed"}
  /\ plan \in Plans \cup {<<>>}
  /\ leg \in [Indices -> {"absent", "pending", "in_flight", "done", "failed"}]
  /\ refs \subseteq Indices
  /\ inserting \subseteq Indices
  /\ task \in [Tasks -> TaskAt]
  /\ job \in [Ramps -> {"none", "pending", "done", "failed", "reversed"}]
  /\ made \in [Ramps -> Nat]
  /\ hooks \subseteq Ramps \X {"done", "failed"}
  /\ wasDone \subseteq Indices /\ skipped \subseteq Indices
  /\ lost \in 0 .. MaxLost /\ fault \in 0 .. MaxFaults

RampInit ==
  /\ transfer = "none"
  /\ plan = <<>>
  /\ leg = [k \in Indices |-> "absent"]
  /\ refs = {}
  /\ inserting = {}
  /\ task = [t \in Tasks |-> Idle]
  /\ job = [r \in Ramps |-> "none"]
  /\ made = [r \in Ramps |-> 0]
  /\ hooks = {}
  /\ wasDone = {}
  /\ skipped = {}
  /\ lost = 0
  /\ fault = 0

Goes(t, from, to) == task[t].pc = from /\ task' = [task EXCEPT ![t].pc = to]
Ends(t, from) == task[t].pc = from /\ task' = [task EXCEPT ![t] = Idle]
Faulty == fault < MaxFaults /\ fault' = fault + 1

SetLeg(k, s) ==
  /\ leg' = [leg EXCEPT ![k] = s]
  /\ wasDone' = IF s = "done" THEN wasDone \cup {k} ELSE wasDone

-----------------------------------------------------------------------------
(* startTransfer, from POST /transfers or a cash-out.  The legs' INSERTs   *)
(* are sent from a forEach nothing awaits.                                 *)

Create(t) ==
  /\ transfer = "none"
  /\ Goes(t, "idle", "starting")
  /\ transfer' = "created"
  /\ \E mode \in {"fiat_in", "usdc_in"} :
       plan' = planLegs(mode, mode = "usdc_in" /\ ~PayoutOnArc)
  /\ inserting' = DOMAIN plan'
  /\ UNCHANGED <<leg, refs, world, wasDone, history>>

InsertLeg(k) ==
  /\ k \in inserting
  /\ inserting' = inserting \ {k}
  /\ leg' = [leg EXCEPT ![k] = "pending"]
  /\ UNCHANGED <<transfer, plan, refs, task, world, wasDone, history>>

Started(t) ==
  /\ Goes(t, "starting", "transfer")
  /\ transfer' = "in_progress"
  /\ UNCHANGED <<plan, leg, refs, inserting, world, wasDone, history>>

-----------------------------------------------------------------------------
(* advanceTransfer. *)

ReadTransfer(t) ==
  /\ IF transfer = "completed" THEN Ends(t, "transfer") ELSE Goes(t, "transfer", "legs")
  /\ UNCHANGED <<rows, plan, inserting, world, wasDone, history>>

Open == {k \in Indices : leg[k] \notin {"absent", "done"}}

NextLegUnstarted(k) == k \in Open /\ leg[k] # "in_flight"
                       /\ \A j \in Open : leg[j] = "in_flight" \/ k <= j
NextLeg(k) == k \in Open /\ \A j \in Open : k <= j

ReadLegs(t) ==
  /\ \/ /\ Open = {} /\ Goes(t, "legs", "complete")
        /\ skipped' = skipped \cup {j \in DOMAIN plan : leg[j] = "absent"}
     \/ \E k \in Indices :
          /\ NextLeg(k)
          /\ task[t].pc = "legs"
          /\ task' = [task EXCEPT ![t].leg = k,
                                  ![t].pc = IF leg[k] = "failed" THEN "refund" ELSE "exec"]
          /\ skipped' = skipped \cup {j \in 1 .. k - 1 : leg[j] = "absent"}
  /\ UNCHANGED <<rows, plan, inserting, world, wasDone, lost, fault>>

Complete(t) ==
  /\ Ends(t, "complete")
  /\ transfer' = "completed"
  /\ UNCHANGED <<plan, leg, refs, inserting, world, wasDone, history>>

RefundAtOnce(t) ==
  /\ Ends(t, "refund")
  /\ transfer' = "refunded"
  /\ UNCHANGED <<plan, leg, refs, inserting, world, wasDone, history>>

Refund(t) ==
  /\ Ends(t, "refund")
  /\ transfer' = "refunding"
  /\ UNCHANGED <<plan, leg, refs, inserting, world, wasDone, history>>

Works(t, type) == task[t].pc = "exec" /\ plan[task[t].leg] = type

(* execCollect, execReconcile *)
ExecAtOnce(t) ==
  /\ \/ Works(t, "collect") /\ Ends(t, "exec")
     \/ Works(t, "reconcile") /\ Goes(t, "exec", "complete")
  /\ SetLeg(task[t].leg, "done")
  /\ UNCHANGED <<transfer, plan, refs, inserting, world, history>>

(* The first statement of execOnramp, execBridge, execOfframp; all of      *)
(* execPayout.                                                             *)
ExecInFlight(t) ==
  /\ \/ \E type \in Ramps \cup {"bridge"} : Works(t, type) /\ Goes(t, "exec", "call")
     \/ Works(t, "payout") /\ Ends(t, "exec")
  /\ SetLeg(task[t].leg, "in_flight")
  /\ UNCHANGED <<transfer, plan, refs, inserting, world, history>>

(* bridge() of cctp.ts, which is a mock: it moves nothing.                 *)
Bridge(t) ==
  /\ task[t].pc = "call" /\ plan[task[t].leg] = "bridge"
  /\ \/ Ends(t, "call") /\ SetLeg(task[t].leg, "done") /\ UNCHANGED fault
     \/ Goes(t, "call", "failing") /\ SetLeg(task[t].leg, "failed") /\ Faulty
  /\ UNCHANGED <<transfer, plan, refs, inserting, world, skipped, lost>>

MakeJobAgain(type) ==
  /\ job' = [job EXCEPT ![type] = "pending"]
  /\ made' = [made EXCEPT ![type] = @ + 1]

(* createOnramp and createPayout: one job per key, however often called.   *)
MakeJob(type) ==
  IF job[type] = "none"
  THEN /\ job' = [job EXCEPT ![type] = "pending"]
       /\ made' = [made EXCEPT ![type] = @ + 1]
  ELSE UNCHANGED <<job, made>>

CallProvider(t) ==
  /\ task[t].pc = "call"
  /\ plan[task[t].leg] \in Ramps
  /\ \/ MakeJob(plan[task[t].leg]) /\ Goes(t, "call", "refer") /\ UNCHANGED fault
     \/ MakeJob(plan[task[t].leg]) /\ Goes(t, "call", "failing") /\ Faulty   \* answer lost
     \/ UNCHANGED <<job, made>> /\ Goes(t, "call", "failing") /\ Faulty      \* refused
  /\ UNCHANGED <<rows, plan, inserting, hooks, wasDone, skipped, lost>>

RecordRef(t) ==
  /\ Ends(t, "refer")
  /\ refs' = refs \cup {task[t].leg}
  /\ UNCHANGED <<transfer, plan, leg, inserting, world, wasDone, history>>

(* The catch block. *)
RecordFailure(t) ==
  /\ Goes(t, "failing", "refund")
  /\ SetLeg(task[t].leg, "failed")
  /\ UNCHANGED <<transfer, plan, refs, inserting, world, history>>

-----------------------------------------------------------------------------
(* handleProviderWebhook; the provider may send a webhook more than once.  *)

IndexOf(type) == {k \in DOMAIN plan : plan[k] = type}

Webhook(t) ==
  /\ task[t].pc = "idle"
  /\ \E h \in hooks, again \in BOOLEAN :
       /\ \E k \in IndexOf(h[1]) :
            task' = [task EXCEPT ![t] = [pc |-> "find", leg |-> k, says |-> h[2], todo |-> {}]]
       /\ IF again THEN Faulty /\ UNCHANGED hooks
          ELSE hooks' = hooks \ {h} /\ UNCHANGED fault
  /\ UNCHANGED <<rows, plan, inserting, job, made, wasDone, skipped, lost>>

FindLeg(t) ==
  /\ task[t].pc = "find"
  /\ IF leg[task[t].leg] \in {"absent", "done", "failed"}
     THEN Ends(t, "find") ELSE Goes(t, "find", "mark")
  /\ UNCHANGED <<rows, plan, inserting, world, wasDone, history>>

MarkLeg(t) ==
  /\ Goes(t, "mark", IF task[t].says = "done" THEN "pair" ELSE "transfer")
  /\ SetLeg(task[t].leg, task[t].says)
  /\ UNCHANGED <<transfer, plan, refs, inserting, world, history>>

(* maybeCompletePairedPayout *)
ReadPair(t) ==
  /\ LET paired == \E o \in IndexOf("offramp"), p \in IndexOf("payout") :
                     leg[o] = "done" /\ leg[p] \in {"pending", "in_flight"}
     IN Goes(t, "pair", IF paired THEN "pairWrite" ELSE "transfer")
  /\ UNCHANGED <<rows, plan, inserting, world, wasDone, history>>

CompletePair(t) ==
  /\ Goes(t, "pairWrite", "transfer")
  /\ \E p \in IndexOf("payout") : SetLeg(p, "done")
  /\ UNCHANGED <<transfer, plan, refs, inserting, world, history>>

-----------------------------------------------------------------------------
(* The reconciler's tick. *)

Tick(t) ==
  /\ Ticks
  /\ transfer = "in_progress"
  /\ Goes(t, "idle", "ticking")
  /\ UNCHANGED <<rows, plan, inserting, world, wasDone, history>>

TickLegs(t) ==
  /\ task[t].pc = "ticking"
  /\ LET inflight == {k \in DOMAIN plan : leg[k] = "in_flight" /\ plan[k] \in ByProvider} IN
       task' = [task EXCEPT ![t].todo = inflight,
                            ![t].pc = IF inflight = {} THEN "transfer" ELSE "polling"]
  /\ UNCHANGED <<rows, plan, inserting, world, wasDone, history>>

StatusOptimistic(k) ==
  IF plan[k] \in Ramps /\ job[plan[k]] = "failed" THEN "failed" ELSE "done"

(* getStatus: Flutterwave is asked for a transfer by provider_ref, and     *)
(* without one the leg is pending.  A reversed transfer reads neither      *)
(* SUCCESSFUL nor FAILED.                                                  *)
Status(k) ==
  IF k \in refs /\ plan[k] \in Ramps /\ job[plan[k]] \in {"done", "failed"}
  THEN job[plan[k]]
  ELSE "pending"

Poll(t) ==
  /\ task[t].pc = "polling"
  /\ \/ task[t].todo = {} /\ Goes(t, "polling", "transfer")
     \/ \E k \in task[t].todo :
          task' = [task EXCEPT ![t] = [pc |-> "polled", leg |-> k, says |-> Status(k),
                                       todo |-> task[t].todo \ {k}]]
  /\ UNCHANGED <<rows, plan, inserting, world, wasDone, history>>

RecordStatus(t) ==
  /\ Goes(t, "polled", "polling")
  /\ IF task[t].says = "pending" THEN UNCHANGED <<leg, wasDone>>
     ELSE SetLeg(task[t].leg, task[t].says)
  /\ UNCHANGED <<transfer, plan, refs, inserting, world, history>>

-----------------------------------------------------------------------------
(* The provider (external), and what goes wrong between. *)

JobEnds(type) ==
  /\ job[type] = "pending"
  /\ \E s \in {"done", "failed"} :
       job' = [job EXCEPT ![type] = s] /\ hooks' = hooks \cup {<<type, s>>}
  /\ UNCHANGED <<rows, plan, inserting, task, made, wasDone, history>>

Reverse ==
  /\ Reversals
  /\ job["offramp"] = "done"
  /\ job' = [job EXCEPT !["offramp"] = "reversed"]
  /\ hooks' = hooks \cup {<<"offramp", "failed">>}
  /\ UNCHANGED <<rows, plan, inserting, task, made, wasDone, history>>

LoseWebhook(h) ==
  /\ lost < MaxLost
  /\ h \in hooks
  /\ hooks' = hooks \ {h}
  /\ lost' = lost + 1
  /\ UNCHANGED <<rows, plan, inserting, task, job, made, wasDone, skipped, fault>>

Crash ==
  /\ Faulty
  /\ task' = [t \in Tasks |-> Idle]
  /\ inserting' = {}
  /\ UNCHANGED <<rows, plan, world, wasDone, skipped, lost>>

-----------------------------------------------------------------------------
Advance(t) ==
  \/ ReadTransfer(t) \/ ReadLegs(t) \/ Complete(t) \/ Refund(t) \/ ExecAtOnce(t)
  \/ ExecInFlight(t) \/ Bridge(t) \/ CallProvider(t) \/ RecordRef(t) \/ RecordFailure(t)

Serve(t) ==
  \/ Started(t) \/ Advance(t) \/ FindLeg(t) \/ MarkLeg(t) \/ ReadPair(t) \/ CompletePair(t)
  \/ TickLegs(t) \/ Poll(t) \/ RecordStatus(t)

RampNext ==
  \/ \E k \in Indices : InsertLeg(k)
  \/ \E t \in Tasks : Create(t) \/ Webhook(t) \/ Tick(t) \/ Serve(t)
  \/ \E type \in Ramps : JobEnds(type)
  \/ Reverse
  \/ \E h \in hooks : LoseWebhook(h)
  \/ Crash

RampSpec == RampInit /\ [][RampNext]_rampVars

-----------------------------------------------------------------------------
(* Properties. *)

(* engine.ts:3-4 "never start leg N+1 until leg N is 'done'": a leg that   *)
(* is under way has all its predecessors done, then or before.  The code   *)
(* does not keep it: a leg that is not inserted yet is not looked for.     *)
LegsStartInOrder ==
  \A k \in Indices :
    leg[k] \notin {"absent", "pending"} => 1 .. k - 1 \subseteq wasDone

(* What it keeps: whatever ticks, webhooks and crashes interleave, a leg   *)
(* under way has every predecessor done, then or before, but for those     *)
(* advanceTransfer passed over because they were not inserted.             *)
UnskippedLegsInOrder ==
  \A k \in Indices :
    leg[k] \notin {"absent", "pending"} => 1 .. k - 1 \subseteq wasDone \cup skipped

(* A transfer is called completed only once the provider delivered, never  *)
(* on a guess (engine.ts:4-5), unless advanceTransfer passed over the      *)
(* offramp's leg: with no leg to be found it completes.                    *)
CompletedWasDelivered ==
  transfer = "completed" =>
    \/ job["offramp"] \in {"done", "reversed"}
    \/ IndexOf("offramp") \subseteq skipped

(* The offramp is executed again by every tick and webhook that finds it   *)
(* in flight; the recipient is paid once.                                  *)
PaidOutOnce == made["offramp"] <= 1
=============================================================================
