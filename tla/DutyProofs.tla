----------------------------- MODULE DutyProofs -----------------------------
(* Proofs about Duty.                                                      *)
EXTENDS Duty, TLAPS

-----------------------------------------------------------------------------
(* Windows. *)

(* A window of valid hours is a window, no longer than MaxDuty. *)
LEMMA WindowOnIsWindow ==
  ASSUME NEW h \in Hours, NEW d \in h.days
  PROVE  WindowOn(h, d) \in Window
<1>1. d \in Nat /\ h.start \in Nat /\ h.end \in Nat  BY DEF Hours
<1>2. Day \in Nat  BY DutyAssumption
<1>3. d * Day \in Nat  BY <1>1, <1>2, SMT
<1>4. d * Day + h.start \in Nat /\ d * Day + h.end \in Nat  BY <1>1, <1>3, SMT
<1> QED  BY <1>4 DEF WindowOn, Window

LEMMA WindowIsShort ==
  ASSUME NEW h \in Hours, Valid(h), NEW t \in Nat, NEW w \in WindowsAt(h, t)
  PROVE  w \in Window /\ w.start <= t /\ t < w.start + MaxDuty
<1>1. PICK d \in h.days : w = WindowOn(h, d)  BY DEF WindowsAt
<1>2. w \in Window  BY <1>1, WindowOnIsWindow
<1>3. w.start <= t /\ t < w.end  BY DEF WindowsAt
<1>4. d \in Nat /\ h.start \in Nat /\ h.end \in Nat /\ Day \in Nat /\ MaxDuty \in Nat
  BY DutyAssumption DEF Hours
<1>5. d * Day \in Nat  BY <1>4, SMT
<1>6. w.start = d * Day + h.start /\ w.end = d * Day + h.end  BY <1>1 DEF WindowOn
<1>7. h.end - h.start <= MaxDuty  BY DEF Valid
<1>8. w.end <= w.start + MaxDuty  BY <1>4, <1>5, <1>6, <1>7, SMT
<1> QED  BY <1>2, <1>3, <1>4, <1>8, SMT DEF Window

-----------------------------------------------------------------------------
(* Type correctness. *)

LEMMA InitType == DutyInit => DutyTypeOK
BY DutyAssumption
   DEF DutyInit, DutyTypeOK, Never, IdleTick, Tick, NoWindow, Window, Hours, Valid, Bounds

LEMMA RowType ==
  ASSUME NEW a \in Admins, NEW w \in Window, NEW resumed \in Nat,
         NEW status \in {"scheduled", "on_duty", "ended", "missed"}
  PROVE  SessionOf(a, w, resumed, status) \in Session
BY DEF SessionOf, Session, Window

LEMMA StageType ==
  ASSUME DutyTypeOK, NEW r \in Requests, req[r] # Idle, NEW step \in Steps,
         Stage(r, step) \/ Done(r)
  PROVE  req' \in [Requests -> Request \cup {Idle}]
<1>1. req[r] \in Request  BY DEF DutyTypeOK
<1>2. [req[r] EXCEPT !.step = step] \in Request  BY <1>1 DEF Request
<1> QED  BY <1>2 DEF DutyTypeOK, Stage, Done

(* The steps that only read: what a request has seen keeps its type. *)
LEMMA GateType ==
  ASSUME DutyTypeOK, NEW r \in Requests,
         ReadRole(r) \/ ReadHours(r) \/ LookForSession(r) \/ AcceptGate(r)
         \/ SeeUnassigned(r) \/ RuleGate(r) \/ SeeAssigned(r)
  PROVE  DutyTypeOK'
<1> DEFINE Reads == req' \in [Requests -> Request \cup {Idle}]
<1>r. req[r] # Idle => req[r] \in Request  BY DEF DutyTypeOK
<1>1. CASE ReadRole(r)
  <2>1. CASE req[r].who \in Supers
    <3>1. PICK step \in {"allowed", "ready"} : Stage(r, step)
      BY <1>1, <2>1 DEF ReadRole
    <3>2. Reads  BY <1>1, <3>1, StageType DEF ReadRole, Steps
    <3> QED  BY <1>1, <3>2 DEF ReadRole, DutyTypeOK
  <2>2. CASE req[r].who \notin Supers
    <3>1. req' = [req EXCEPT ![r].step = "clock", ![r].at = now]  BY <1>1, <2>2 DEF ReadRole
    <3>2. [req[r] EXCEPT !.step = "clock", !.at = now] \in Request
      BY <1>1, <1>r DEF ReadRole, Request, Steps, DutyTypeOK
    <3>3. Reads  BY <3>1, <3>2 DEF DutyTypeOK
    <3> QED  BY <1>1, <3>3 DEF ReadRole, DutyTypeOK
  <2> QED  BY <2>1, <2>2
<1>2. CASE ReadHours(r)
  <2>1. CASE Done(r)  BY <1>2, <2>1 DEF ReadHours, Done, DutyTypeOK
  <2>2. CASE ~Done(r)
    <3>1. hours[req[r].who] # NoHours  BY <1>2, <2>2 DEF ReadHours
    <3>2. PICK w \in WindowsAt(hours[req[r].who], req[r].at) :
            req' = [req EXCEPT ![r].step = "hours", ![r].win = w]
      BY <1>2, <2>2, <3>1 DEF ReadHours
    <3>3. hours[req[r].who] \in Hours
      BY <1>2, <3>1, <1>r DEF ReadHours, Request, DutyTypeOK
    <3>4. w \in Window
      BY <3>2, <3>3, WindowOnIsWindow DEF WindowsAt
    <3>5. Reads
      BY <1>2, <3>2, <3>4, <1>r DEF ReadHours, Request, Steps, DutyTypeOK
    <3> QED  BY <1>2, <3>5 DEF ReadHours, DutyTypeOK
  <2> QED  BY <2>1, <2>2
<1>3. CASE LookForSession(r)
  <2>1. CASE Stage(r, "new") \/ Done(r)
    BY <1>3, <2>1, StageType DEF LookForSession, At, Steps, DutyTypeOK
  <2>2. CASE ~(Stage(r, "new") \/ Done(r))
    <3>1. PICK i \in DOMAIN sessions : req' = [req EXCEPT ![r].step = "found", ![r].row = i]
      BY <1>3, <2>2 DEF LookForSession
    <3>2. i \in Nat  BY <3>1 DEF DutyTypeOK
    <3>3. Reads
      BY <1>3, <3>1, <3>2, <1>r DEF LookForSession, At, Request, Steps, DutyTypeOK
    <3> QED  BY <1>3, <3>3 DEF LookForSession, DutyTypeOK
  <2> QED  BY <2>1, <2>2
<1>4. CASE AcceptGate(r)
  BY <1>4, StageType DEF AcceptGate, At, Steps, DutyTypeOK
<1>5. CASE SeeUnassigned(r)
  BY <1>5, StageType DEF SeeUnassigned, At, Steps, DutyTypeOK
<1>6. CASE RuleGate(r)
  BY <1>6, StageType DEF RuleGate, At, Steps, DutyTypeOK
<1>7. CASE SeeAssigned(r)
  BY <1>7, StageType DEF SeeAssigned, At, Steps, DutyTypeOK
<1> QED  BY <1>1, <1>2, <1>3, <1>4, <1>5, <1>6, <1>7

(* A log whose rows are replaced one by one is a log. *)
LEMMA Remake ==
  ASSUME NEW log \in Seq(Session), NEW new, new = [i \in DOMAIN log |-> new[i]],
         \A i \in DOMAIN log : new[i] \in Session
  PROVE  new \in Seq(Session)
OBVIOUS

(* The steps that write to the database or move the escrow. *)
LEMMA WriteType ==
  ASSUME DutyTypeOK, NEW r \in Requests,
         InsertOnDuty(r) \/ UpdateOnDuty(r) \/ Assign(r) \/ BeginReview(r)
         \/ Settle(r) \/ RecordVerdict(r)
  PROVE  DutyTypeOK'
<1>r. req[r] # Idle => req[r] \in Request  BY DEF DutyTypeOK
<1>s. sessions \in Seq(Session)  BY DEF DutyTypeOK
<1>1. CASE InsertOnDuty(r)
  <2>1. SessionOf(req[r].who, req[r].win, req[r].at, "on_duty") \in Session
    BY <1>1, <1>r, RowType DEF InsertOnDuty, At, Request
  <2>2. sessions' \in Seq(Session)  BY <1>1, <1>s, <2>1 DEF InsertOnDuty
  <2> QED  BY <1>1, <2>2, StageType DEF InsertOnDuty, At, Steps, DutyTypeOK
<1>2. CASE UpdateOnDuty(r)
  <2>a. req[r].at \in Nat  BY <1>2, <1>r DEF UpdateOnDuty, At, Request
  <2>1. ASSUME NEW i \in DOMAIN sessions
        PROVE  [sessions[i] EXCEPT !.status = "on_duty", !.resumed = req[r].at] \in Session
    <3>1. sessions[i] \in Session  BY <1>s
    <3> QED  BY <3>1, <2>a DEF Session
  <2>2. sessions' = [i \in DOMAIN sessions |-> IF i = req[r].row
            THEN [sessions[i] EXCEPT !.status = "on_duty", !.resumed = req[r].at]
            ELSE sessions[i]]
    BY <1>2, <1>s DEF UpdateOnDuty
  <2>3. sessions' = [i \in DOMAIN sessions |-> sessions'[i]]  BY <2>2
  <2>4. ASSUME NEW i \in DOMAIN sessions  PROVE sessions'[i] \in Session
    <3>1. CASE i = req[r].row
      <4>1. sessions'[i] = [sessions[i] EXCEPT !.status = "on_duty", !.resumed = req[r].at]
        BY <2>2, <3>1
      <4> QED  BY <2>1, <4>1, Zenon
    <3>2. CASE i # req[r].row
      <4>1. sessions'[i] = sessions[i]  BY <2>2, <3>2
      <4> QED  BY <4>1, <1>s
    <3> QED  BY <3>1, <3>2
  <2>5. sessions' \in Seq(Session)  BY <1>s, <2>3, <2>4, Remake
  <2> QED  BY <1>2, <2>5, StageType DEF UpdateOnDuty, At, Steps, DutyTypeOK
<1>3. CASE Assign(r)
  <2>1. [admin |-> req[r].who, at |-> req[r].stamp] \in Judge /\ req[r].on \in Disputes
    BY <1>3, <1>r DEF Assign, At, Request, Judge
  <2>2. judges' \in [Disputes -> Seq(Judge)]  BY <1>3, <2>1 DEF Assign, DutyTypeOK
  <2> QED  BY <1>3, <2>2, StageType DEF Assign, At, Steps, DutyTypeOK
<1>4. CASE BeginReview(r)
  <2>1. ASSUME NEW i \in DOMAIN sessions
        PROVE  [sessions[i] EXCEPT !.accepted = @ + 1] \in Session
    <3>1. sessions[i] \in Session  BY <1>s
    <3> QED  BY <3>1 DEF Session
  <2>2. sessions' \in Seq(Session)  BY <1>4, <1>s, <2>1 DEF BeginReview
  <2> QED  BY <1>4, <2>2, StageType DEF BeginReview, At, Steps, DutyTypeOK
<1>5. CASE Settle(r)
  <2>1. req[r].who \in Admins /\ req[r] # Idle  BY <1>5, <1>r DEF Settle, At, Request
  <2>2. rulings' \subseteq Rulings
    <3>1. [who |-> req[r].who, on |-> req[r].on, offer |-> req[r].offer] \in Rulings
      BY <1>r, <2>1 DEF Request, Rulings
    <3> QED  BY <1>5, <3>1 DEF Settle, DutyTypeOK
  <2>3. Stage(r, "settled") \/ Done(r)  BY <1>5 DEF Settle
  <2> QED  BY <1>5, <2>1, <2>2, <2>3, StageType DEF Settle, Steps, DutyTypeOK
<1>6. CASE RecordVerdict(r)
  BY <1>6, StageType DEF RecordVerdict, At, Steps, DutyTypeOK
<1> QED  BY <1>1, <1>2, <1>3, <1>4, <1>5, <1>6

(* A tick that reminds someone knows whom. *)
Reminding == \A j \in Ticks : tick[j].step \in {"mail", "insert"} => tick[j].who \in Admins

(* What a tick holds, step by step. *)
LEMMA TickType ==
  ASSUME DutyTypeOK, Reminding, NEW j \in Ticks, TickStep(j)
  PROVE  DutyTypeOK' /\ Reminding'
<1> DEFINE Goes == tick' \in [Ticks -> Tick]
<1> USE DEF Ticking
<1>i. IdleTick \in Tick
  BY DEF IdleTick, Tick, NoWindow, Window, Never
<1>t. tick[j] \in Tick /\ tick \in [Ticks -> Tick]  BY DEF DutyTypeOK
<1>s. sessions \in Seq(Session)  BY DEF DutyTypeOK
<1>1. CASE StartTick(j)
  <2>1. {[who |-> a, notified |-> notified[a]] : a \in {b \in Subs : hours[b] # NoHours}}
          \subseteq Reminder
    BY DEF DutyTypeOK, Reminder, Subs
  <2>2. Goes  BY <1>1, <1>i, <1>t, <2>1 DEF StartTick, Tick, DutyTypeOK
  <2> QED  BY <1>1, <1>t, <2>2 DEF StartTick, DutyTypeOK, Reminding, IdleTick
<1>2. CASE LookAtHours(j)
  <2>1. PICK n \in tick[j].todo :
          \/ \E w \in DueFor(n, tick[j].at) :
               tick' = [tick EXCEPT ![j].todo = @ \ {n}, ![j].step = "mail",
                                    ![j].who = n.who, ![j].win = w]
          \/ tick' = [tick EXCEPT ![j].todo = @ \ {n}]
    BY <1>2 DEF LookAtHours
  <2>2. n.who \in Admins  BY <1>t, <2>1 DEF Tick, Reminder
  <2>3. ASSUME NEW w \in DueFor(n, tick[j].at)  PROVE w \in Window
    <3>1. hours[n.who] # NoHours  BY <2>3 DEF DueFor
    <3>2. hours[n.who] \in Hours  BY <2>2, <3>1 DEF DutyTypeOK
    <3> QED  BY <2>3, <3>1, <3>2, WindowOnIsWindow DEF DueFor, Upcoming
  <2>4. [tick[j] EXCEPT !.todo = @ \ {n}] \in Tick  BY <1>t DEF Tick
  <2>5. ASSUME NEW w \in Window
        PROVE  [tick[j] EXCEPT !.todo = @ \ {n}, !.step = "mail", !.who = n.who, !.win = w]
                 \in Tick
    BY <1>t, <2>2 DEF Tick
  <2>6. CASE tick' = [tick EXCEPT ![j].todo = @ \ {n}]
    <3>1. Goes  BY <1>t, <2>4, <2>6
    <3>2. tick'[j].step = "remind" /\ \A k \in Ticks : k # j => tick'[k] = tick[k]
      BY <1>2, <1>t, <2>6 DEF LookAtHours, Tick
    <3>3. Reminding'  BY <3>2 DEF Reminding
    <3> QED  BY <1>2, <3>1, <3>3 DEF LookAtHours, DutyTypeOK
  <2>7. CASE \E w \in DueFor(n, tick[j].at) :
               tick' = [tick EXCEPT ![j].todo = @ \ {n}, ![j].step = "mail",
                                    ![j].who = n.who, ![j].win = w]
    <3>1. PICK w \in Window :
            tick' = [tick EXCEPT ![j].todo = @ \ {n}, ![j].step = "mail",
                                 ![j].who = n.who, ![j].win = w]
      BY <2>3, <2>7
    <3>2. Goes  BY <1>t, <2>5, <3>1
    <3>3. Reminding'  BY <1>t, <2>2, <3>1 DEF Reminding
    <3> QED  BY <1>2, <3>2, <3>3 DEF LookAtHours, DutyTypeOK
  <2> QED  BY <2>1, <2>6, <2>7
<1>3. CASE Remind(j)
  <2>1. tick[j].who \in Admins  BY <1>3 DEF Remind, Reminding
  <2>2. notified' \in [Admins -> Nat]
    BY <1>3, <1>t, <2>1 DEF Remind, Tick, DutyTypeOK
  <2>3. PICK step \in {"insert", "remind"} : tick' = [tick EXCEPT ![j].step = step]
    BY <1>3 DEF Remind
  <2>4. Goes  BY <1>t, <2>3 DEF Tick
  <2>5. Reminding'  BY <1>t, <2>1, <2>3 DEF Reminding
  <2> QED  BY <1>3, <2>2, <2>4, <2>5 DEF Remind, DutyTypeOK
<1>4. CASE InsertScheduled(j)
  <2>1. tick[j].who \in Admins  BY <1>4 DEF InsertScheduled, Reminding
  <2>2. SessionOf(tick[j].who, tick[j].win, Never, "scheduled") \in Session
    BY <1>t, <2>1, RowType DEF Tick, Never
  <2>3. sessions' \in Seq(Session)  BY <1>4, <1>s, <2>2 DEF InsertScheduled
  <2>4. Goes  BY <1>4, <1>t DEF InsertScheduled, Tick
  <2>5. Reminding'  BY <1>4, <1>t DEF InsertScheduled, Reminding
  <2> QED  BY <1>4, <2>3, <2>4, <2>5 DEF InsertScheduled, DutyTypeOK
<1>5. CASE ListElapsed(j)
  <2> DEFINE list == {[row |-> i, final |-> IF sessions[i].status = "on_duty"
                                               \/ sessions[i].resumed # Never
                                            THEN "ended" ELSE "missed"] : i \in Elapsed(tick[j].at)}
             next == IF list = {} THEN IdleTick
                     ELSE [IdleTick EXCEPT !.step = "close", !.at = tick[j].at, !.list = list]
  <2>1. list \subseteq Closing  BY <1>s DEF Elapsed, Closing
  <2>2. next \in Tick  BY <1>i, <1>t, <2>1 DEF Tick
  <2>3. next.step \notin {"mail", "insert"}  BY DEF IdleTick
  <2>4. tick' = [tick EXCEPT ![j] = next]  BY <1>5 DEF ListElapsed
  <2> HIDE DEF next
  <2>5. Goes /\ Reminding'  BY <1>t, <2>2, <2>3, <2>4 DEF Reminding
  <2> QED  BY <1>5, <2>5 DEF ListElapsed, DutyTypeOK
<1>6. CASE CloseSession(j)
  <2>1. PICK c \in tick[j].list :
          /\ sessions' = [sessions EXCEPT ![c.row].status = c.final]
          /\ IF tick[j].list = {c} THEN tick' = [tick EXCEPT ![j] = IdleTick]
                                   ELSE tick' = [tick EXCEPT ![j].list = @ \ {c}]
    BY <1>6 DEF CloseSession
  <2>2. c.final \in {"ended", "missed"}  BY <1>t, <2>1 DEF Tick, Closing
  <2>3. sessions' = [i \in DOMAIN sessions |-> IF i = c.row
            THEN [sessions[i] EXCEPT !.status = c.final] ELSE sessions[i]]
    BY <1>s, <2>1
  <2>4. ASSUME NEW i \in DOMAIN sessions
        PROVE  [sessions[i] EXCEPT !.status = c.final] \in Session
    <3>1. sessions[i] \in Session  BY <1>s
    <3> QED  BY <3>1, <2>2 DEF Session
  <2>5. ASSUME NEW i \in DOMAIN sessions  PROVE sessions'[i] \in Session
    <3>1. CASE i = c.row
      <4>1. sessions'[i] = [sessions[i] EXCEPT !.status = c.final]  BY <2>3, <3>1
      <4> QED  BY <2>4, <4>1, Zenon
    <3>2. CASE i # c.row
      <4>1. sessions'[i] = sessions[i]  BY <2>3, <3>2
      <4> QED  BY <4>1, <1>s
    <3> QED  BY <3>1, <3>2
  <2>6. sessions' = [i \in DOMAIN sessions |-> sessions'[i]]  BY <2>3
  <2>7. sessions' \in Seq(Session)  BY <1>s, <2>5, <2>6, Remake
  <2>8. [tick[j] EXCEPT !.list = @ \ {c}] \in Tick  BY <1>t DEF Tick
  <2>9. Goes
    <3>1. CASE tick[j].list = {c}  BY <1>i, <1>t, <2>1, <3>1
    <3>2. CASE tick[j].list # {c}
      <4>1. tick' = [tick EXCEPT ![j].list = @ \ {c}]  BY <2>1, <3>2
      <4> QED  BY <1>t, <2>8, <4>1
    <3> QED  BY <3>1, <3>2
  <2>10. Reminding'
    <3>1. tick'[j].step \in {"idle", "close"} /\ \A k \in Ticks : k # j => tick'[k] = tick[k]
      BY <1>6, <1>t, <2>1 DEF CloseSession, IdleTick, Tick
    <3> QED  BY <3>1 DEF Reminding
  <2> QED  BY <1>6, <2>7, <2>9, <2>10 DEF CloseSession, DutyTypeOK
<1> QED  BY <1>1, <1>2, <1>3, <1>4, <1>5, <1>6 DEF TickStep

(* The clock, the general admin, a click, and a request or a tick lost. *)
LEMMA OtherType ==
  ASSUME DutyTypeOK, Reminding,
         \/ Clock \/ \E a \in Admins : EditHours(a)
         \/ \E r \in Requests : RequestLost(r)
         \/ \E r \in Requests, op \in {"resume", "accept", "resolve"}, a \in Admins,
              d, o \in Disputes : Click(r, op, a, d, o)
         \/ \E j \in Ticks : TickLost(j)
  PROVE  DutyTypeOK' /\ Reminding'
<1>b. left \in Bounds  BY DEF DutyTypeOK
<1>1. CASE Clock  BY <1>1 DEF Clock, DutyTypeOK, Never, Reminding
<1>2. ASSUME NEW a \in Admins, EditHours(a)  PROVE DutyTypeOK' /\ Reminding'
  <2>1. hours' \in [Admins -> Hours \cup {NoHours}]
    BY <1>2, DutyAssumption DEF EditHours, DutyTypeOK
  <2>2. left' \in Bounds  BY <1>2, <1>b DEF EditHours, Bounds
  <2> QED  BY <1>2, <2>1, <2>2 DEF EditHours, DutyTypeOK, Reminding
<1>f. ASSUME Fault  PROVE left' \in Bounds  BY <1>f, <1>b DEF Fault, Bounds
<1>3. ASSUME NEW r \in Requests, RequestLost(r)  PROVE DutyTypeOK' /\ Reminding'
  BY <1>3, <1>f DEF RequestLost, Done, DutyTypeOK, Reminding
<1>4. ASSUME NEW r \in Requests, NEW op \in {"resume", "accept", "resolve"},
             NEW a \in Admins, NEW d \in Disputes, NEW o \in Disputes,
             Click(r, op, a, d, o)
      PROVE  DutyTypeOK' /\ Reminding'
  <2>1. left' \in Bounds
    <3>1. CASE op = "resume"  BY <1>4, <1>b, <3>1 DEF Click, Bounds
    <3>2. CASE op = "accept"  BY <1>4, <1>b, <3>2 DEF Click, Bounds
    <3>3. CASE op = "resolve"  BY <1>4, <1>b, <3>3 DEF Click, Bounds
    <3> QED  BY <3>1, <3>2, <3>3
  <2>2. [op |-> op, step |-> IF op = "resume" THEN "clock" ELSE "began", who |-> a,
         on |-> d, offer |-> o, stamp |-> IF op = "accept" THEN now ELSE Never,
         at |-> IF op = "resume" THEN now ELSE Never, win |-> NoWindow, row |-> 0] \in Request
    BY DEF Request, Steps, Window, NoWindow, Never, DutyTypeOK
  <2>3. req' \in [Requests -> Request \cup {Idle}]  BY <1>4, <2>2 DEF Click, DutyTypeOK
  <2> QED  BY <1>4, <2>1, <2>3 DEF Click, DutyTypeOK, Reminding
<1>5. ASSUME NEW j \in Ticks, TickLost(j)  PROVE DutyTypeOK' /\ Reminding'
  <2>1. tick' \in [Ticks -> Tick] /\ Reminding'
    <3>1. CASE tick' = [tick EXCEPT ![j] = IdleTick]
      BY <1>5, <3>1 DEF TickLost, DutyTypeOK, Reminding, IdleTick, Tick, NoWindow, Window, Never
    <3>2. CASE tick' = [tick EXCEPT ![j].step = "remind"]
      <4>1. tick[j] \in Tick  BY DEF DutyTypeOK
      <4>2. [tick[j] EXCEPT !.step = "remind"] \in Tick  BY <4>1 DEF Tick
      <4>3. tick' \in [Ticks -> Tick]  BY <3>2, <4>2 DEF DutyTypeOK
      <4>4. ASSUME NEW k \in Ticks, tick'[k].step \in {"mail", "insert"}
            PROVE  tick'[k].who \in Admins
        BY <3>2, <4>1, <4>4 DEF Tick, DutyTypeOK, Reminding
      <4> QED  BY <4>3, <4>4 DEF Reminding
    <3> QED  BY <1>5, <3>1, <3>2 DEF TickLost
  <2> QED  BY <1>5, <1>f, <2>1 DEF TickLost, DutyTypeOK
<1> QED  BY <1>1, <1>2, <1>3, <1>4, <1>5

LEMMA StepType == DutyTypeOK /\ Reminding /\ [DutyNext]_vars => DutyTypeOK' /\ Reminding'
<1> SUFFICES ASSUME DutyTypeOK, Reminding, [DutyNext]_vars  PROVE DutyTypeOK' /\ Reminding'
  OBVIOUS
<1>1. CASE UNCHANGED vars  BY <1>1 DEF vars, DutyTypeOK, Reminding
<1>2. ASSUME NEW r \in Requests, RequestStep(r)  PROVE DutyTypeOK' /\ Reminding'
  <2>1. tick' = tick
    BY <1>2 DEF RequestStep, ReadRole, ReadHours, LookForSession, InsertOnDuty, UpdateOnDuty,
       AcceptGate, SeeUnassigned, Assign, BeginReview, RuleGate, SeeAssigned, Settle,
       RecordVerdict
  <2>2. Reminding'  BY <2>1 DEF Reminding
  <2> QED  BY <1>2, <2>2, GateType, WriteType DEF RequestStep
<1> QED  BY <1>1, <1>2, TickType, OtherType DEF DutyNext

(* What the database, a request and a tick hold keeps its type (DutyTypeOK). *)
THEOREM DutyTypeCorrect == DutySpec => []DutyTypeOK
<1>1. DutyInit => Reminding  BY DEF DutyInit, Reminding, IdleTick
<1> QED  BY <1>1, InitType, StepType, PTL DEF DutySpec

-----------------------------------------------------------------------------
(* The gate.  Worked, what the gate of accept establishes, must outlive    *)
(* every later change of the log, and a session that reads on_duty must    *)
(* have been resumed; the rest says what a request that passed a check     *)
(* still knows of it.                                                      *)

HoursAreValid == \A a \in Admins : hours[a] # NoHours => Valid(hours[a])

ResumedFirst ==
  \A i \in DOMAIN sessions : sessions[i].status = "on_duty" => sessions[i].resumed # Never

Timely ==
  \A r \in Requests : req[r] # Idle =>
    /\ req[r].step = "began" => req[r].op # "resume" /\ req[r].stamp <= now
    /\ req[r].step \in {"clock", "hours"} => req[r].stamp <= req[r].at
    /\ req[r].step = "hours" => req[r].at < req[r].win.start + MaxDuty
    /\ req[r].op = "resume" => req[r].at # Never

Gated ==
  \A r \in Requests : req[r] # Idle /\ req[r].who \in Subs =>
    /\ req[r].op = "accept" /\ req[r].step \in {"allowed", "unassigned"} =>
         Worked(req[r].who, req[r].stamp)
    /\ req[r].op = "resolve" /\ req[r].step = "ready" =>
         IsAssignee(req[r].who, req[r].on)

RuledBefore ==
  \A r \in Requests : req[r] # Idle /\ req[r].step = "settled" =>
    \E v \in rulings : v.on = req[r].on

DutyInv ==
  /\ DutyTypeOK /\ Reminding
  /\ HoursAreValid /\ ResumedFirst /\ Timely /\ Gated
  /\ RuledBefore /\ AcceptedOnDuty /\ OneJudgeRules

(* No row of the log leaves it, changes hands or is no longer resumed.     *)
LogGrows ==
  \A i \in DOMAIN sessions :
    /\ i \in DOMAIN sessions'
    /\ sessions'[i].admin = sessions[i].admin
    /\ sessions'[i].start = sessions[i].start
    /\ sessions[i].resumed # Never => sessions'[i].resumed # Never

(* Worked and IsAssignee after a step, of an admin and a time before it.   *)
WorkedThen(a, t) ==
  \E i \in DOMAIN sessions' :
    /\ sessions'[i].admin = a
    /\ sessions'[i].resumed # Never
    /\ t < sessions'[i].start + MaxDuty

IsAssigneeThen(a, d) == judges'[d] # << >> /\ Head(judges'[d]).admin = a

LEMMA WorkedStays ==
  ASSUME LogGrows, NEW a, NEW t, Worked(a, t)
  PROVE  WorkedThen(a, t)
BY DEF LogGrows, Worked, WorkedThen

LEMMA AppendGrows ==
  ASSUME DutyTypeOK, ResumedFirst, NEW row \in Session,
         row.status = "on_duty" => row.resumed # Never,
         sessions' = Append(sessions, row)
  PROVE  LogGrows /\ ResumedFirst'
<1>1. sessions \in Seq(Session)  BY DEF DutyTypeOK
<1>2. DOMAIN sessions' = DOMAIN sessions \cup {Len(sessions) + 1}  BY <1>1
<1>3. \A i \in DOMAIN sessions : sessions'[i] = sessions[i]  BY <1>1
<1>4. sessions'[Len(sessions) + 1] = row  BY <1>1
<1> QED  BY <1>2, <1>3, <1>4 DEF LogGrows, ResumedFirst

LEMMA LogStep ==
  ASSUME DutyTypeOK, Reminding, Timely, ResumedFirst, [DutyNext]_vars
  PROVE  LogGrows /\ ResumedFirst'
<1>s. sessions \in Seq(Session)  BY DEF DutyTypeOK
<1>u. ASSUME UNCHANGED sessions  PROVE LogGrows /\ ResumedFirst'
  BY <1>u DEF LogGrows, ResumedFirst
<1>1. ASSUME NEW r \in Requests, InsertOnDuty(r)  PROVE LogGrows /\ ResumedFirst'
  <2>1. req[r] \in Request /\ req[r].at # Never
    BY <1>1 DEF InsertOnDuty, At, Timely, DutyTypeOK
  <2> DEFINE row == SessionOf(req[r].who, req[r].win, req[r].at, "on_duty")
  <2>2. row \in Session /\ row.resumed # Never
    BY <2>1, RowType DEF Request, SessionOf
  <2>3. sessions' = Append(sessions, row)  BY <1>1 DEF InsertOnDuty
  <2> HIDE DEF row
  <2> QED  BY <2>2, <2>3, AppendGrows
<1>2. ASSUME NEW r \in Requests, UpdateOnDuty(r)  PROVE LogGrows /\ ResumedFirst'
  <2>1. req[r].at # Never  BY <1>2 DEF UpdateOnDuty, At, Timely
  <2>2. sessions' = [i \in DOMAIN sessions |-> IF i = req[r].row
            THEN [sessions[i] EXCEPT !.status = "on_duty", !.resumed = req[r].at]
            ELSE sessions[i]]
    BY <1>2, <1>s DEF UpdateOnDuty
  <2>3. ASSUME NEW i \in DOMAIN sessions
        PROVE  /\ sessions'[i].admin = sessions[i].admin
               /\ sessions'[i].start = sessions[i].start
               /\ sessions[i].resumed # Never => sessions'[i].resumed # Never
               /\ sessions'[i].status = "on_duty" => sessions'[i].resumed # Never
    <3>1. sessions[i] \in Session  BY <1>s
    <3> QED  BY <2>1, <2>2, <3>1 DEF Session, ResumedFirst
  <2> QED  BY <2>2, <2>3 DEF LogGrows, ResumedFirst
<1>3. ASSUME NEW r \in Requests, BeginReview(r)  PROVE LogGrows /\ ResumedFirst'
  <2>1. ASSUME NEW i \in DOMAIN sessions
        PROVE  /\ sessions'[i].admin = sessions[i].admin
               /\ sessions'[i].start = sessions[i].start
               /\ sessions'[i].resumed = sessions[i].resumed
               /\ sessions'[i].status = sessions[i].status
    <3>1. sessions[i] \in Session  BY <1>s
    <3> QED  BY <1>3, <3>1 DEF Session, BeginReview
  <2>2. DOMAIN sessions' = DOMAIN sessions  BY <1>3 DEF BeginReview
  <2> QED  BY <2>1, <2>2 DEF LogGrows, ResumedFirst
<1>4. ASSUME NEW j \in Ticks, InsertScheduled(j)  PROVE LogGrows /\ ResumedFirst'
  <2> DEFINE row == SessionOf(tick[j].who, tick[j].win, Never, "scheduled")
  <2>1. tick[j] \in Tick /\ tick[j].who \in Admins
    BY <1>4 DEF InsertScheduled, Ticking, Reminding, DutyTypeOK
  <2>2. row \in Session /\ row.status # "on_duty"
    BY <2>1, RowType DEF Tick, SessionOf, Never
  <2>3. sessions' = Append(sessions, row)  BY <1>4 DEF InsertScheduled
  <2> HIDE DEF row
  <2> QED  BY <2>2, <2>3, AppendGrows
<1>5. ASSUME NEW j \in Ticks, CloseSession(j)  PROVE LogGrows /\ ResumedFirst'
  <2>1. PICK c \in tick[j].list : sessions' = [sessions EXCEPT ![c.row].status = c.final]
    BY <1>5 DEF CloseSession
  <2>2. c.final # "on_duty"
    <3>1. tick[j].list \subseteq Closing  BY DEF DutyTypeOK, Tick
    <3> QED  BY <2>1, <3>1 DEF Closing
  <2>3. ASSUME NEW i \in DOMAIN sessions
        PROVE  /\ sessions'[i].admin = sessions[i].admin
               /\ sessions'[i].start = sessions[i].start
               /\ sessions'[i].resumed = sessions[i].resumed
               /\ sessions'[i].status \in {sessions[i].status, c.final}
    <3>1. sessions[i] \in Session  BY <1>s
    <3> QED  BY <2>1, <3>1 DEF Session
  <2>4. DOMAIN sessions' = DOMAIN sessions  BY <2>1
  <2> QED  BY <2>2, <2>3, <2>4 DEF LogGrows, ResumedFirst
<1>6. ASSUME NEW r \in Requests, RequestStep(r)  PROVE LogGrows /\ ResumedFirst'
  <2>1. \/ InsertOnDuty(r) \/ UpdateOnDuty(r) \/ BeginReview(r) \/ UNCHANGED sessions
    BY <1>6 DEF RequestStep, ReadRole, ReadHours, LookForSession, AcceptGate, SeeUnassigned,
       Assign, RuleGate, SeeAssigned, Settle, RecordVerdict
  <2> QED  BY <1>1, <1>2, <1>3, <1>u, <2>1
<1>7. ASSUME NEW j \in Ticks, TickStep(j)  PROVE LogGrows /\ ResumedFirst'
  <2>1. \/ InsertScheduled(j) \/ CloseSession(j) \/ UNCHANGED sessions
    BY <1>7 DEF TickStep, StartTick, LookAtHours, Remind, ListElapsed
  <2> QED  BY <1>4, <1>5, <1>u, <2>1
<1>8. CASE ~(\E r \in Requests : RequestStep(r)) /\ ~(\E j \in Ticks : TickStep(j))
  <2>1. UNCHANGED sessions
    BY <1>8 DEF DutyNext, vars, Clock, EditHours, Click, RequestLost, TickLost
  <2> QED  BY <1>u, <2>1
<1> QED  BY <1>6, <1>7, <1>8

(* What a request has seen of the clock and the hours holds of its fields. *)
LEMMA TimelyStep ==
  ASSUME DutyTypeOK, HoursAreValid, Timely, [DutyNext]_vars
  PROVE  Timely'
<1> DEFINE Fine(q, t) ==
      /\ q.step = "began" => q.op # "resume" /\ q.stamp <= t
      /\ q.step \in {"clock", "hours"} => q.stamp <= q.at
      /\ q.step = "hours" => q.at < q.win.start + MaxDuty
      /\ q.op = "resume" => q.at # Never
<1>n. now \in Nat \ {0}  BY DEF DutyTypeOK, Never
<1>f. \A r \in Requests : req[r] # Idle => req[r] \in Request /\ Fine(req[r], now)
  BY DEF Timely, DutyTypeOK
<1>e. ASSUME NEW r \in Requests, NEW q, q # Idle => Fine(q, now), UNCHANGED now,
             req' = [req EXCEPT ![r] = q]
      PROVE  Timely'
  <2>1. \A k \in Requests : req'[k] # Idle => Fine(req'[k], now)
    BY <1>e, <1>f DEF DutyTypeOK
  <2> QED  BY <1>e, <2>1 DEF Timely
<1>d. ASSUME NEW r \in Requests, Done(r), UNCHANGED now  PROVE Timely'
  BY <1>d, <1>e DEF Done
<1>u. ASSUME UNCHANGED <<now, req>>  PROVE Timely'
  BY <1>u DEF Timely
<1>s. ASSUME NEW r \in Requests, NEW step, Stage(r, step), UNCHANGED now, req[r] # Idle,
             step \notin {"began", "clock", "hours"}
      PROVE  Timely'
  <2>1. req' = [req EXCEPT ![r] = [req[r] EXCEPT !.step = step]]
    BY <1>s DEF Stage, DutyTypeOK
  <2>2. Fine([req[r] EXCEPT !.step = step], now)
    BY <1>s, <1>f DEF Request
  <2> QED  BY <1>s, <1>e, <2>1, <2>2
<1>1. ASSUME NEW r \in Requests, ReadRole(r)  PROVE Timely'
  <2>1. CASE req[r].who \in Supers
    BY <1>1, <1>s, <2>1 DEF ReadRole
  <2>2. CASE req[r].who \notin Supers
    <3>1. req' = [req EXCEPT ![r] = [req[r] EXCEPT !.step = "clock", !.at = now]]
      BY <1>1, <2>2 DEF ReadRole, DutyTypeOK
    <3>2. Fine([req[r] EXCEPT !.step = "clock", !.at = now], now)
      BY <1>1, <1>f, <1>n DEF ReadRole, Request
    <3> QED  BY <1>1, <1>e, <3>1, <3>2 DEF ReadRole
  <2> QED  BY <2>1, <2>2
<1>2. ASSUME NEW r \in Requests, ReadHours(r)  PROVE Timely'
  <2>1. CASE Done(r)  BY <1>2, <1>d, <2>1 DEF ReadHours
  <2>2. CASE ~Done(r)
    <3>1. hours[req[r].who] # NoHours  BY <1>2, <2>2 DEF ReadHours
    <3>2. PICK w \in WindowsAt(hours[req[r].who], req[r].at) :
            req' = [req EXCEPT ![r].step = "hours", ![r].win = w]
      BY <1>2, <2>2, <3>1 DEF ReadHours
    <3>3. req[r].who \in Admins /\ req[r].at \in Nat  BY <1>2, <1>f DEF ReadHours, Request
    <3>4. hours[req[r].who] \in Hours /\ Valid(hours[req[r].who])
      BY <3>1, <3>3 DEF DutyTypeOK, HoursAreValid
    <3>5. req[r].at < w.start + MaxDuty  BY <3>2, <3>3, <3>4, WindowIsShort
    <3>6. req' = [req EXCEPT ![r] = [req[r] EXCEPT !.step = "hours", !.win = w]]
      BY <1>2, <3>2 DEF ReadHours, DutyTypeOK
    <3>7. Fine([req[r] EXCEPT !.step = "hours", !.win = w], now)
      BY <1>2, <1>f, <3>5 DEF ReadHours, Request
    <3> QED  BY <1>2, <1>e, <3>6, <3>7 DEF ReadHours
  <2> QED  BY <2>1, <2>2
<1>3. ASSUME NEW r \in Requests, LookForSession(r)  PROVE Timely'
  <2>1. CASE Stage(r, "new")  BY <1>3, <1>s, <2>1 DEF LookForSession, At
  <2>2. CASE Done(r)  BY <1>3, <1>d, <2>2 DEF LookForSession
  <2>3. CASE ~Stage(r, "new") /\ ~Done(r)
    <3>1. PICK i \in DOMAIN sessions : req' = [req EXCEPT ![r].step = "found", ![r].row = i]
      BY <1>3, <2>3 DEF LookForSession
    <3>2. req' = [req EXCEPT ![r] = [req[r] EXCEPT !.step = "found", !.row = i]]
      BY <1>3, <3>1 DEF LookForSession, At, DutyTypeOK
    <3>3. Fine([req[r] EXCEPT !.step = "found", !.row = i], now)
      BY <1>3, <1>f DEF LookForSession, At, Request
    <3> QED  BY <1>3, <1>e, <3>2, <3>3 DEF LookForSession
  <2> QED  BY <2>1, <2>2, <2>3
<1>4. ASSUME NEW r \in Requests, RequestStep(r)  PROVE Timely'
  <2>1. CASE ReadRole(r) \/ ReadHours(r) \/ LookForSession(r)
    BY <1>1, <1>2, <1>3, <2>1
  <2>2. CASE ~(ReadRole(r) \/ ReadHours(r) \/ LookForSession(r))
    <3>1. UNCHANGED now /\ req[r] # Idle
      BY <1>4, <2>2 DEF RequestStep, InsertOnDuty, UpdateOnDuty, AcceptGate, SeeUnassigned,
         Assign, BeginReview, RuleGate, SeeAssigned, Settle, RecordVerdict, At
    <3>2. Done(r) \/ \E step \in {"allowed", "unassigned", "assigned", "ready", "settled"} :
                       Stage(r, step)
      BY <1>4, <2>2 DEF RequestStep, InsertOnDuty, UpdateOnDuty, AcceptGate, SeeUnassigned,
         Assign, BeginReview, RuleGate, SeeAssigned, Settle, RecordVerdict
    <3> QED  BY <1>d, <1>s, <3>1, <3>2
  <2> QED  BY <2>1, <2>2
<1>5. ASSUME NEW r \in Requests, NEW op \in {"resume", "accept", "resolve"},
             NEW a \in Admins, NEW d \in Disputes, NEW o \in Disputes,
             Click(r, op, a, d, o)
      PROVE  Timely'
  <2> DEFINE q == [op |-> op, step |-> IF op = "resume" THEN "clock" ELSE "began", who |-> a,
         on |-> d, offer |-> o, stamp |-> IF op = "accept" THEN now ELSE Never,
         at |-> IF op = "resume" THEN now ELSE Never, win |-> NoWindow, row |-> 0]
  <2>1. Fine(q, now)  BY <1>n DEF Never
  <2>2. req' = [req EXCEPT ![r] = q] /\ UNCHANGED now  BY <1>5 DEF Click
  <2> QED  BY <1>e, <2>1, <2>2
<1>6. CASE Clock
  BY <1>6, <1>f, <1>n DEF Clock, Timely, Request
<1>7. CASE UNCHANGED vars  BY <1>7, <1>u DEF vars
<1>8. ASSUME NEW a \in Admins, EditHours(a)  PROVE Timely'
  BY <1>8, <1>u DEF EditHours
<1>9. ASSUME NEW r \in Requests, RequestLost(r)  PROVE Timely'
  BY <1>9, <1>d DEF RequestLost
<1>10. ASSUME NEW j \in Ticks, TickStep(j) \/ TickLost(j)  PROVE Timely'
  BY <1>10, <1>u DEF TickStep, StartTick, LookAtHours, Remind, InsertScheduled, ListElapsed,
     CloseSession, TickLost
<1> QED  BY <1>4, <1>5, <1>6, <1>7, <1>8, <1>9, <1>10 DEF DutyNext

(* The assignments only grow at their end, so the first one stays.         *)
LEMMA AssigneeStays ==
  ASSUME DutyTypeOK, NEW a, NEW d \in Disputes, IsAssignee(a, d),
         \/ UNCHANGED judges
         \/ \E e \in Disputes, judge \in Judge :
              judges' = [judges EXCEPT ![e] = Append(@, judge)]
  PROVE  IsAssigneeThen(a, d)
<1>1. CASE UNCHANGED judges  BY <1>1 DEF IsAssignee, IsAssigneeThen
<1>2. CASE \E e \in Disputes, judge \in Judge :
              judges' = [judges EXCEPT ![e] = Append(@, judge)]
  <2>1. PICK e \in Disputes, judge \in Judge :
          judges' = [judges EXCEPT ![e] = Append(@, judge)]
    BY <1>2
  <2>2. judges[d] \in Seq(Judge) /\ judges[d] # << >>  BY DEF DutyTypeOK, IsAssignee
  <2>3. judges'[d] \in {judges[d], Append(judges[d], judge)}  BY <2>1 DEF DutyTypeOK
  <2>4. judges'[d] # << >> /\ Head(judges'[d]) = Head(judges[d])
    <3>1. CASE judges'[d] = judges[d]  BY <2>2, <3>1
    <3>2. CASE judges'[d] = Append(judges[d], judge)
      <4>1. Append(judges[d], judge)[1] = judges[d][1] /\ Append(judges[d], judge) # << >>
        BY <2>2
      <4> QED  BY <2>2, <3>2, <4>1
    <3> QED  BY <2>3, <3>1, <3>2
  <2> QED  BY <2>4 DEF IsAssignee, IsAssigneeThen
<1> QED  BY <1>1, <1>2

LEMMA JudgesStep ==
  ASSUME DutyTypeOK, [DutyNext]_vars
  PROVE  \/ UNCHANGED judges
         \/ \E r \in Requests : Assign(r)
<1>1. ASSUME NEW r \in Requests, RequestStep(r)  PROVE Assign(r) \/ UNCHANGED judges
  BY <1>1 DEF RequestStep, ReadRole, ReadHours, LookForSession, InsertOnDuty, UpdateOnDuty,
     AcceptGate, SeeUnassigned, BeginReview, RuleGate, SeeAssigned, Settle, RecordVerdict
<1>2. ASSUME NEW j \in Ticks, TickStep(j)  PROVE UNCHANGED judges
  BY <1>2 DEF TickStep, StartTick, LookAtHours, Remind, InsertScheduled, ListElapsed,
     CloseSession
<1> QED  BY <1>1, <1>2 DEF DutyNext, vars, Clock, EditHours, Click, RequestLost, TickLost

LEMMA AssignAppends ==
  ASSUME DutyTypeOK, NEW r \in Requests, Assign(r)
  PROVE  \E e \in Disputes, judge \in Judge :
           judges' = [judges EXCEPT ![e] = Append(@, judge)]
<1>1. req[r] \in Request  BY DEF Assign, At, DutyTypeOK
<1>2. [admin |-> req[r].who, at |-> req[r].stamp] \in Judge /\ req[r].on \in Disputes
  BY <1>1 DEF Request, Judge
<1> QED  BY <1>2 DEF Assign

(* What a check of the gate established is still true when it is used.     *)
LEMMA GatedStep ==
  ASSUME DutyInv, LogGrows, [DutyNext]_vars
  PROVE  Gated'
<1> USE DEF DutyInv
<1> DEFINE Known(q) ==
      /\ q.op = "accept" /\ q.step \in {"allowed", "unassigned"} => Worked(q.who, q.stamp)
      /\ q.op = "resolve" /\ q.step = "ready" => IsAssignee(q.who, q.on)
<1> DEFINE KnownThen(q) ==
      /\ q.op = "accept" /\ q.step \in {"allowed", "unassigned"} => WorkedThen(q.who, q.stamp)
      /\ q.op = "resolve" /\ q.step = "ready" => IsAssigneeThen(q.who, q.on)
<1>a. \A a : \A d \in Disputes : IsAssignee(a, d) => IsAssigneeThen(a, d)
  BY JudgesStep, AssignAppends, AssigneeStays
<1>w. \A a, t : Worked(a, t) => WorkedThen(a, t)
  BY WorkedStays
<1>k. ASSUME NEW q \in Request, Known(q)  PROVE KnownThen(q)
  BY <1>k, <1>a, <1>w DEF Request
<1>r. ASSUME NEW r \in Requests, req[r] # Idle
      PROVE  req[r] \in Request /\ (req[r].who \in Subs => Known(req[r]))
  BY <1>r DEF DutyTypeOK, Gated
<1>e. ASSUME NEW r \in Requests, NEW q, req' = [req EXCEPT ![r] = q],
             q # Idle => (q.who \in Subs => KnownThen(q))
      PROVE  Gated'
  <2>1. ASSUME NEW k \in Requests, req'[k] # Idle, req'[k].who \in Subs
        PROVE  KnownThen(req'[k])
    <3>1. CASE k = r  BY <1>e, <2>1, <3>1 DEF DutyTypeOK
    <3>2. CASE k # r
      <4>1. req'[k] = req[k]  BY <1>e, <3>2 DEF DutyTypeOK
      <4> QED  BY <1>r, <1>k, <2>1, <4>1
    <3> QED  BY <3>1, <3>2
  <2> QED  BY <2>1 DEF Gated, Worked, WorkedThen, IsAssignee, IsAssigneeThen
<1>u. ASSUME UNCHANGED req  PROVE Gated'
  <2>1. \A k \in Requests : req'[k] # Idle /\ req'[k].who \in Subs => KnownThen(req'[k])
    BY <1>u, <1>r, <1>k
  <2> QED  BY <2>1 DEF Gated, Worked, WorkedThen, IsAssignee, IsAssigneeThen
<1>d. ASSUME NEW r \in Requests, Done(r)  PROVE Gated'
  BY <1>d, <1>e DEF Done
<1>s. ASSUME NEW r \in Requests, NEW step, Stage(r, step), req[r] # Idle,
             req[r].who \in Subs => KnownThen([req[r] EXCEPT !.step = step])
      PROVE  Gated'
  <2>1. req' = [req EXCEPT ![r] = [req[r] EXCEPT !.step = step]]
    BY <1>s DEF Stage, DutyTypeOK
  <2>2. [req[r] EXCEPT !.step = step].who = req[r].who
    BY <1>s, <1>r DEF Request
  <2> QED  BY <1>s, <1>e, <2>1, <2>2
<1>1. ASSUME NEW r \in Requests, ReadRole(r)  PROVE Gated'
  <2>1. req[r] \in Request /\ req[r] # Idle  BY <1>1, <1>r DEF ReadRole
  <2>2. CASE req[r].who \in Supers
    BY <1>1, <1>s, <2>1, <2>2 DEF ReadRole, Subs
  <2>3. CASE req[r].who \notin Supers
    <3>1. req' = [req EXCEPT ![r] = [req[r] EXCEPT !.step = "clock", !.at = now]]
      BY <1>1, <2>3 DEF ReadRole, DutyTypeOK
    <3>2. KnownThen([req[r] EXCEPT !.step = "clock", !.at = now])  BY <2>1 DEF Request
    <3> QED  BY <1>e, <3>1, <3>2
  <2> QED  BY <2>2, <2>3
<1>2. ASSUME NEW r \in Requests, ReadHours(r)  PROVE Gated'
  <2>1. req[r] \in Request  BY <1>2, <1>r DEF ReadHours
  <2>2. CASE Done(r)  BY <1>d, <2>2
  <2>3. CASE ~Done(r)
    <3>1. PICK w : req' = [req EXCEPT ![r].step = "hours", ![r].win = w]
      BY <1>2, <2>3 DEF ReadHours
    <3>2. req' = [req EXCEPT ![r] = [req[r] EXCEPT !.step = "hours", !.win = w]]
      BY <3>1 DEF DutyTypeOK
    <3>3. KnownThen([req[r] EXCEPT !.step = "hours", !.win = w])  BY <2>1 DEF Request
    <3> QED  BY <1>e, <3>2, <3>3
  <2> QED  BY <2>2, <2>3
<1>3. ASSUME NEW r \in Requests, LookForSession(r)  PROVE Gated'
  <2>1. req[r] \in Request /\ req[r] # Idle /\ req[r].op = "resume"
    BY <1>3, <1>r DEF LookForSession, At
  <2>2. CASE Done(r)  BY <1>d, <2>2
  <2>3. CASE Stage(r, "new")
    <3>1. KnownThen([req[r] EXCEPT !.step = "new"])  BY <2>1 DEF Request
    <3> QED  BY <1>s, <2>1, <2>3, <3>1
  <2>4. CASE ~Done(r) /\ ~Stage(r, "new")
    <3>1. PICK i : req' = [req EXCEPT ![r].step = "found", ![r].row = i]
      BY <1>3, <2>4 DEF LookForSession
    <3>2. req' = [req EXCEPT ![r] = [req[r] EXCEPT !.step = "found", !.row = i]]
      BY <3>1 DEF DutyTypeOK
    <3>3. KnownThen([req[r] EXCEPT !.step = "found", !.row = i])  BY <2>1 DEF Request
    <3> QED  BY <1>e, <3>2, <3>3
  <2> QED  BY <2>2, <2>3, <2>4
<1>4. ASSUME NEW r \in Requests, AcceptGate(r)  PROVE Gated'
  <2>1. req[r] \in Request /\ At(r, "accept", "hours") /\ req[r] # Idle
    BY <1>4, <1>r DEF AcceptGate, At
  <2>2. CASE ~OnDuty(r)  BY <1>4, <1>d, <2>2 DEF AcceptGate
  <2>3. CASE OnDuty(r)
    <3>1. PICK i \in RowsOf(req[r].who, req[r].win.start) : sessions[i].status = "on_duty"
      BY <2>3 DEF OnDuty
    <3>2. req[r].stamp <= req[r].at /\ req[r].at < req[r].win.start + MaxDuty
      BY <2>1 DEF At, Timely
    <3>3. req[r].stamp < req[r].win.start + MaxDuty
      BY <2>1, <3>2, DutyAssumption DEF Request, Window
    <3>4. Worked(req[r].who, req[r].stamp)
      BY <3>1, <3>3 DEF RowsOf, Worked, ResumedFirst
    <3>5. KnownThen([req[r] EXCEPT !.step = "allowed"])
      BY <2>1, <3>4, <1>w DEF At, Request
    <3> QED  BY <1>4, <1>s, <2>1, <2>3, <3>5 DEF AcceptGate
  <2> QED  BY <2>2, <2>3
<1>5. ASSUME NEW r \in Requests, SeeUnassigned(r)  PROVE Gated'
  <2>1. req[r] \in Request /\ At(r, "accept", "allowed") /\ req[r] # Idle
    BY <1>5, <1>r DEF SeeUnassigned, At
  <2>2. req[r].who \in Subs => KnownThen([req[r] EXCEPT !.step = "unassigned"])
    BY <1>r, <1>w, <2>1 DEF At, Request
  <2> QED  BY <1>5, <1>d, <1>s, <2>1, <2>2 DEF SeeUnassigned
<1>6. ASSUME NEW r \in Requests, SeeAssigned(r)  PROVE Gated'
  <2>1. req[r] \in Request /\ At(r, "resolve", "allowed") /\ req[r] # Idle
    BY <1>6, <1>r DEF SeeAssigned, At
  <2>2. CASE IsAssignee(req[r].who, req[r].on)
    <3>1. KnownThen([req[r] EXCEPT !.step = "ready"])
      BY <1>a, <2>1, <2>2 DEF At, Request
    <3> QED  BY <1>6, <1>s, <2>1, <2>2, <3>1 DEF SeeAssigned
  <2>3. CASE ~IsAssignee(req[r].who, req[r].on)
    BY <1>6, <1>d, <2>3 DEF SeeAssigned
  <2> QED  BY <2>2, <2>3
<1>7. ASSUME NEW r \in Requests, Assign(r) \/ RuleGate(r) \/ Settle(r)  PROVE Gated'
  <2>1. req[r] \in Request /\ req[r] # Idle
    BY <1>7, <1>r DEF Assign, RuleGate, Settle, At
  <2>2. Done(r) \/ Stage(r, "assigned") \/ Stage(r, "settled")
        \/ (req[r].op = "resolve" /\ Stage(r, "allowed"))
    BY <1>7 DEF Assign, RuleGate, Settle, At
  <2>3. /\ KnownThen([req[r] EXCEPT !.step = "assigned"])
        /\ KnownThen([req[r] EXCEPT !.step = "settled"])
        /\ req[r].op = "resolve" => KnownThen([req[r] EXCEPT !.step = "allowed"])
    BY <2>1 DEF Request
  <2> QED  BY <1>d, <1>s, <2>1, <2>2, <2>3
<1>8. ASSUME NEW r \in Requests, RequestStep(r)  PROVE Gated'
  <2>1. InsertOnDuty(r) \/ UpdateOnDuty(r) \/ BeginReview(r) \/ RecordVerdict(r) => Done(r)
    BY DEF InsertOnDuty, UpdateOnDuty, BeginReview, RecordVerdict
  <2> QED  BY <1>1, <1>2, <1>3, <1>4, <1>5, <1>6, <1>7, <1>8, <1>d, <2>1 DEF RequestStep
<1>9. ASSUME NEW r \in Requests, NEW op \in {"resume", "accept", "resolve"},
             NEW a \in Admins, NEW d \in Disputes, NEW o \in Disputes,
             Click(r, op, a, d, o)
      PROVE  Gated'
  <2> DEFINE q == [op |-> op, step |-> IF op = "resume" THEN "clock" ELSE "began", who |-> a,
         on |-> d, offer |-> o, stamp |-> IF op = "accept" THEN now ELSE Never,
         at |-> IF op = "resume" THEN now ELSE Never, win |-> NoWindow, row |-> 0]
  <2>1. KnownThen(q)  OBVIOUS
  <2>2. req' = [req EXCEPT ![r] = q]  BY <1>9 DEF Click
  <2> QED  BY <1>e, <2>1, <2>2
<1>10. ASSUME NEW r \in Requests, RequestLost(r)  PROVE Gated'
  BY <1>10, <1>d DEF RequestLost
<1>11. ASSUME NEW j \in Ticks, TickStep(j) \/ TickLost(j)  PROVE Gated'
  BY <1>11, <1>u DEF TickStep, StartTick, LookAtHours, Remind, InsertScheduled, ListElapsed,
     CloseSession, TickLost
<1>12. ASSUME Clock \/ (\E a \in Admins : EditHours(a)) \/ UNCHANGED vars  PROVE Gated'
  BY <1>12, <1>u DEF Clock, EditHours, vars
<1> QED  BY <1>8, <1>9, <1>10, <1>11, <1>12 DEF DutyNext

LEMMA HoursStep ==
  ASSUME DutyTypeOK, HoursAreValid, [DutyNext]_vars
  PROVE  HoursAreValid'
<1>1. ASSUME NEW a \in Admins, EditHours(a)  PROVE HoursAreValid'
  BY <1>1 DEF EditHours, HoursAreValid, DutyTypeOK
<1>2. ASSUME NEW r \in Requests, RequestStep(r)  PROVE UNCHANGED hours
  BY <1>2 DEF RequestStep, ReadRole, ReadHours, LookForSession, InsertOnDuty, UpdateOnDuty,
     AcceptGate, SeeUnassigned, Assign, BeginReview, RuleGate, SeeAssigned, Settle,
     RecordVerdict
<1>3. ASSUME NEW j \in Ticks, TickStep(j)  PROVE UNCHANGED hours
  BY <1>3 DEF TickStep, StartTick, LookAtHours, Remind, InsertScheduled, ListElapsed,
     CloseSession
<1>4. (\E a \in Admins : EditHours(a)) \/ UNCHANGED hours
  BY <1>2, <1>3 DEF DutyNext, vars, Clock, Click, RequestLost, TickLost
<1> QED  BY <1>1, <1>4 DEF HoursAreValid

LEMMA AcceptedStep ==
  ASSUME DutyInv, LogGrows, [DutyNext]_vars
  PROVE  AcceptedOnDuty'
<1> USE DEF DutyInv
<1>w. \A a, t : Worked(a, t) => WorkedThen(a, t)  BY WorkedStays
<1>1. CASE UNCHANGED judges
  <2>1. ASSUME NEW d \in Disputes, NEW k \in DOMAIN judges[d], judges[d][k].admin \in Subs
        PROVE  WorkedThen(judges[d][k].admin, judges[d][k].at)
    <3>1. Worked(judges[d][k].admin, judges[d][k].at)  BY <2>1 DEF AcceptedOnDuty
    <3> QED  BY <3>1, <1>w
  <2>2. ASSUME NEW d \in Disputes, NEW k \in DOMAIN judges'[d], judges'[d][k].admin \in Subs
        PROVE  WorkedThen(judges'[d][k].admin, judges'[d][k].at)
    BY <1>1, <2>1, <2>2
  <2> HIDE DEF DutyInv
  <2> QED  BY <2>2 DEF AcceptedOnDuty, Worked, WorkedThen
<1>2. ASSUME NEW r \in Requests, Assign(r)  PROVE AcceptedOnDuty'
  <2> DEFINE judge == [admin |-> req[r].who, at |-> req[r].stamp]
  <2>1. req[r].who \in Subs => Worked(req[r].who, req[r].stamp)
    BY <1>2 DEF Assign, At, Gated
  <2>2. judge.admin \in Subs => WorkedThen(judge.admin, judge.at)  BY <2>1, <1>w
  <2>3. req[r] \in Request  BY <1>2 DEF Assign, At, DutyTypeOK
  <2>4. judges' = [judges EXCEPT ![req[r].on] = Append(@, judge)]  BY <1>2 DEF Assign
  <2> HIDE DEF judge
  <2>5. ASSUME NEW d \in Disputes, NEW k \in DOMAIN judges'[d]
        PROVE  \/ k \in DOMAIN judges[d] /\ judges'[d][k] = judges[d][k]
               \/ judges'[d][k] = judge
    <3>1. judges[d] \in Seq(Judge)  BY DEF DutyTypeOK
    <3>2. CASE d = req[r].on
      <4>1. judges'[d] = Append(judges[d], judge)  BY <2>3, <2>4, <3>2 DEF DutyTypeOK
      <4> QED  BY <2>5, <3>1, <4>1
    <3>3. CASE d # req[r].on
      <4>1. judges'[d] = judges[d]  BY <2>4, <3>3 DEF DutyTypeOK
      <4> QED  BY <2>5, <4>1
    <3> QED  BY <3>2, <3>3
  <2>6. ASSUME NEW d \in Disputes, NEW k \in DOMAIN judges'[d], judges'[d][k].admin \in Subs
        PROVE  WorkedThen(judges'[d][k].admin, judges'[d][k].at)
    <3>1. CASE judges'[d][k] = judge  BY <2>2, <2>6, <3>1
    <3>2. CASE k \in DOMAIN judges[d] /\ judges'[d][k] = judges[d][k]
      BY <2>6, <3>2, <1>w DEF AcceptedOnDuty
    <3> QED  BY <2>5, <3>1, <3>2
  <2> QED  BY <2>6 DEF AcceptedOnDuty, Worked, WorkedThen
<1> QED  BY <1>1, <1>2, JudgesStep

(* A request goes on to its verdict only once its settlement is sent.      *)
LEMMA RuledStep ==
  ASSUME DutyInv, [DutyNext]_vars
  PROVE  RuledBefore'
<1> USE DEF DutyInv
<1>m. rulings \subseteq rulings'
  <2>1. ASSUME NEW r \in Requests, RequestStep(r)  PROVE rulings \subseteq rulings'
    BY <2>1 DEF RequestStep, ReadRole, ReadHours, LookForSession, InsertOnDuty, UpdateOnDuty,
       AcceptGate, SeeUnassigned, Assign, BeginReview, RuleGate, SeeAssigned, Settle,
       RecordVerdict
  <2>2. ASSUME NEW j \in Ticks, TickStep(j)  PROVE UNCHANGED rulings
    BY <2>2 DEF TickStep, StartTick, LookAtHours, Remind, InsertScheduled, ListElapsed,
       CloseSession
  <2> QED
    BY <2>1, <2>2 DEF DutyNext, vars, Clock, EditHours, Click, RequestLost, TickLost
<1>1. CASE \A r \in Requests :
             req'[r] # Idle /\ req'[r].step = "settled" => req'[r] = req[r]
  BY <1>1, <1>m DEF RuledBefore
<1>2. ASSUME NEW r \in Requests, Settle(r)  PROVE RuledBefore'
  <2>1. req[r] # Idle /\ req[r] \in Request  BY <1>2 DEF Settle, At, DutyTypeOK
  <2>2. CASE Done(r)
    <3>1. \A k \in Requests : req'[k] = Idle \/ req'[k] = req[k]
      BY <2>2 DEF Done, DutyTypeOK
    <3> QED  BY <1>1, <3>1
  <2>3. CASE ~Done(r)
    <3> DEFINE ruling == [who |-> req[r].who, on |-> req[r].on, offer |-> req[r].offer]
    <3>0. rulings' = rulings \cup {ruling}  BY <1>2, <2>3 DEF Settle
    <3>1. \E v \in rulings' : v.on = req[r].on
      <4>1. ruling \in rulings' /\ ruling.on = req[r].on  BY <3>0
      <4> HIDE DEF ruling
      <4> QED  BY <4>1
    <3>2. req' = [req EXCEPT ![r] = [req[r] EXCEPT !.step = "settled"]]
      BY <1>2, <2>3 DEF Settle, Stage, DutyTypeOK
    <3>3. [req[r] EXCEPT !.step = "settled"].on = req[r].on  BY <2>1 DEF Request
    <3>4. ASSUME NEW k \in Requests, req'[k] # Idle, req'[k].step = "settled"
          PROVE  \E v \in rulings' : v.on = req'[k].on
      <4>1. CASE k = r  BY <3>1, <3>2, <3>3, <4>1 DEF DutyTypeOK
      <4>2. CASE k # r
        <5>1. req'[k] = req[k]  BY <3>2, <4>2 DEF DutyTypeOK
        <5> QED  BY <3>4, <5>1, <1>m DEF RuledBefore
      <4> QED  BY <4>1, <4>2
    <3> QED  BY <3>4 DEF RuledBefore
  <2> QED  BY <2>2, <2>3
<1>3. ASSUME NEW r \in Requests, NEW q, req' = [req EXCEPT ![r] = q],
             q = Idle \/ q.step # "settled"
      PROVE  RuledBefore'
  <2>1. \A k \in Requests : k # r => req'[k] = req[k]  BY <1>3 DEF DutyTypeOK
  <2>2. req'[r] = q  BY <1>3 DEF DutyTypeOK
  <2> QED  BY <1>1, <1>3, <2>1, <2>2
<1>s. ASSUME NEW r \in Requests, NEW step \in Steps \ {"settled"}, Stage(r, step), req[r] # Idle
      PROVE  RuledBefore'
  <2>1. req[r] \in Request  BY <1>s DEF DutyTypeOK
  <2>2. req' = [req EXCEPT ![r] = [req[r] EXCEPT !.step = step]]
    BY <1>s DEF Stage, DutyTypeOK
  <2>3. [req[r] EXCEPT !.step = step].step # "settled"  BY <2>1 DEF Request
  <2> QED  BY <1>3, <2>2, <2>3
<1>d. ASSUME NEW r \in Requests, Done(r)  PROVE RuledBefore'
  BY <1>d, <1>3 DEF Done
<1>4. ASSUME NEW r \in Requests, ReadRole(r)  PROVE RuledBefore'
  <2>1. req[r] \in Request /\ req[r] # Idle  BY <1>4 DEF ReadRole, DutyTypeOK
  <2>2. CASE req[r].who \in Supers  BY <1>4, <1>s, <2>1, <2>2 DEF ReadRole, Steps
  <2>3. CASE req[r].who \notin Supers
    <3>1. req' = [req EXCEPT ![r] = [req[r] EXCEPT !.step = "clock", !.at = now]]
      BY <1>4, <2>3 DEF ReadRole, DutyTypeOK
    <3>2. [req[r] EXCEPT !.step = "clock", !.at = now].step # "settled"  BY <2>1 DEF Request
    <3> QED  BY <1>3, <3>1, <3>2
  <2> QED  BY <2>2, <2>3
<1>5. ASSUME NEW r \in Requests, ReadHours(r)  PROVE RuledBefore'
  <2>1. req[r] \in Request  BY <1>5 DEF ReadHours, DutyTypeOK
  <2>2. CASE Done(r)  BY <1>d, <2>2
  <2>3. CASE ~Done(r)
    <3>1. PICK w : req' = [req EXCEPT ![r].step = "hours", ![r].win = w]
      BY <1>5, <2>3 DEF ReadHours
    <3>2. req' = [req EXCEPT ![r] = [req[r] EXCEPT !.step = "hours", !.win = w]]
      BY <3>1 DEF DutyTypeOK
    <3>3. [req[r] EXCEPT !.step = "hours", !.win = w].step # "settled"  BY <2>1 DEF Request
    <3> QED  BY <1>3, <3>2, <3>3
  <2> QED  BY <2>2, <2>3
<1>6. ASSUME NEW r \in Requests, LookForSession(r)  PROVE RuledBefore'
  <2>1. req[r] \in Request /\ req[r] # Idle  BY <1>6 DEF LookForSession, At, DutyTypeOK
  <2>2. CASE Done(r)  BY <1>d, <2>2
  <2>3. CASE Stage(r, "new")  BY <1>s, <2>1, <2>3 DEF Steps
  <2>4. CASE ~Done(r) /\ ~Stage(r, "new")
    <3>1. PICK i : req' = [req EXCEPT ![r].step = "found", ![r].row = i]
      BY <1>6, <2>4 DEF LookForSession
    <3>2. req' = [req EXCEPT ![r] = [req[r] EXCEPT !.step = "found", !.row = i]]
      BY <3>1 DEF DutyTypeOK
    <3>3. [req[r] EXCEPT !.step = "found", !.row = i].step # "settled"  BY <2>1 DEF Request
    <3> QED  BY <1>3, <3>2, <3>3
  <2> QED  BY <2>2, <2>3, <2>4
<1>7. ASSUME NEW r \in Requests,
             AcceptGate(r) \/ SeeUnassigned(r) \/ Assign(r) \/ RuleGate(r) \/ SeeAssigned(r)
      PROVE  RuledBefore'
  BY <1>7, <1>s, <1>d
     DEF AcceptGate, SeeUnassigned, Assign, RuleGate, SeeAssigned, At, Steps
<1>8. ASSUME NEW r \in Requests, RequestStep(r)  PROVE RuledBefore'
  <2>1. InsertOnDuty(r) \/ UpdateOnDuty(r) \/ BeginReview(r) \/ RecordVerdict(r) => Done(r)
    BY DEF InsertOnDuty, UpdateOnDuty, BeginReview, RecordVerdict
  <2> QED  BY <1>2, <1>4, <1>5, <1>6, <1>7, <1>8, <1>d, <2>1 DEF RequestStep
<1>9. ASSUME NEW r \in Requests, NEW op \in {"resume", "accept", "resolve"},
             NEW a \in Admins, NEW d \in Disputes, NEW o \in Disputes, Click(r, op, a, d, o)
      PROVE  RuledBefore'
  BY <1>9, <1>3 DEF Click
<1>10. ASSUME NEW r \in Requests, RequestLost(r)  PROVE RuledBefore'
  BY <1>10, <1>d DEF RequestLost
<1>11. ASSUME UNCHANGED req  PROVE RuledBefore'
  BY <1>11, <1>1
<1>12. ASSUME NEW j \in Ticks, TickStep(j)  PROVE UNCHANGED req
  BY <1>12 DEF TickStep, StartTick, LookAtHours, Remind, InsertScheduled, ListElapsed,
     CloseSession
<1> QED
  BY <1>8, <1>9, <1>10, <1>11, <1>12 DEF DutyNext, vars, Clock, EditHours, TickLost

LEMMA RulesStep ==
  ASSUME DutyInv, [DutyNext]_vars
  PROVE  OneJudgeRules'
<1> USE DEF DutyInv
<1>a. \A a : \A d \in Disputes : IsAssignee(a, d) => IsAssigneeThen(a, d)
  BY JudgesStep, AssignAppends, AssigneeStays
<1>o. \A v \in rulings : v.who \in Subs => IsAssigneeThen(v.who, v.on)
  <2>1. ASSUME NEW v \in rulings, v.who \in Subs  PROVE IsAssigneeThen(v.who, v.on)
    <3>1. IsAssignee(v.who, v.on)  BY <2>1 DEF OneJudgeRules, IsAssignee
    <3>2. v.on \in Disputes  BY <2>1 DEF DutyTypeOK, Rulings
    <3> QED  BY <1>a, <3>1, <3>2
  <2> QED  BY <2>1
<1>n. ASSUME \A v \in rulings' : v.who \in Subs => IsAssigneeThen(v.who, v.on),
             \A d \in Disputes : disputes'[d] = "resolved" => \E v \in rulings' : v.on = d
      PROVE  OneJudgeRules'
  BY <1>n DEF OneJudgeRules, IsAssigneeThen
<1>1. CASE UNCHANGED <<rulings, disputes>>
  BY <1>1, <1>o, <1>n DEF OneJudgeRules
<1>2. ASSUME NEW r \in Requests, Settle(r)  PROVE OneJudgeRules'
  <2>1. req[r] \in Request  BY <1>2 DEF Settle, At, DutyTypeOK
  <2>2. req[r].who \in Subs => IsAssigneeThen(req[r].who, req[r].on)
    BY <1>2, <2>1, <1>a DEF Settle, At, Gated, Request
  <2> DEFINE ruling == [who |-> req[r].who, on |-> req[r].on, offer |-> req[r].offer]
  <2>3. rulings' \in {rulings, rulings \cup {ruling}} /\ disputes' = disputes
    BY <1>2 DEF Settle
  <2>4. \A v \in rulings' : v.who \in Subs => IsAssigneeThen(v.who, v.on)
    BY <2>2, <2>3, <1>o
  <2>5. \A d \in Disputes : disputes'[d] = "resolved" => \E v \in rulings' : v.on = d
    BY <2>3 DEF OneJudgeRules
  <2> QED  BY <2>4, <2>5, <1>n
<1>3. ASSUME NEW r \in Requests, BeginReview(r)  PROVE OneJudgeRules'
  <2>1. rulings' = rulings /\ disputes' = [disputes EXCEPT ![req[r].on] = "in_review"]
    BY <1>3 DEF BeginReview
  <2>2. \A d \in Disputes : disputes'[d] = "resolved" => disputes[d] = "resolved"
    BY <2>1 DEF DutyTypeOK
  <2> QED  BY <2>1, <2>2, <1>o, <1>n DEF OneJudgeRules
<1>4. ASSUME NEW r \in Requests, RecordVerdict(r)  PROVE OneJudgeRules'
  <2>1. rulings' = rulings /\ disputes' = [disputes EXCEPT ![req[r].on] = "resolved"]
    BY <1>4 DEF RecordVerdict
  <2>2. \E v \in rulings : v.on = req[r].on
    BY <1>4 DEF RecordVerdict, At, RuledBefore
  <2>3. \A d \in Disputes : disputes'[d] = "resolved" => d = req[r].on \/ disputes[d] = "resolved"
    BY <2>1 DEF DutyTypeOK
  <2>4. \A d \in Disputes : disputes'[d] = "resolved" => \E v \in rulings' : v.on = d
    BY <2>1, <2>2, <2>3 DEF OneJudgeRules
  <2>5. \A v \in rulings' : v.who \in Subs => IsAssigneeThen(v.who, v.on)
    BY <2>1, <1>o
  <2> QED  BY <2>4, <2>5, <1>n
<1>5. ASSUME NEW r \in Requests, RequestStep(r)
      PROVE  Settle(r) \/ BeginReview(r) \/ RecordVerdict(r) \/ UNCHANGED <<rulings, disputes>>
  BY <1>5 DEF RequestStep, ReadRole, ReadHours, LookForSession, InsertOnDuty, UpdateOnDuty,
     AcceptGate, SeeUnassigned, Assign, RuleGate, SeeAssigned
<1>6. ASSUME NEW j \in Ticks, TickStep(j)  PROVE UNCHANGED <<rulings, disputes>>
  BY <1>6 DEF TickStep, StartTick, LookAtHours, Remind, InsertScheduled, ListElapsed,
     CloseSession
<1> QED
  BY <1>1, <1>2, <1>3, <1>4, <1>5, <1>6 DEF DutyNext, vars, Clock, EditHours, Click,
     RequestLost, TickLost

LEMMA DutyInvInit == DutyInit => DutyInv
BY InitType, DutyAssumption
   DEF DutyInit, DutyInv, Reminding, IdleTick, HoursAreValid, ResumedFirst, Timely, Gated,
       RuledBefore, AcceptedOnDuty, OneJudgeRules, Subs

LEMMA DutyInvStep == DutyInv /\ [DutyNext]_vars => DutyInv'
<1> SUFFICES ASSUME DutyInv, [DutyNext]_vars  PROVE DutyInv'
  OBVIOUS
<1>1. LogGrows /\ ResumedFirst'  BY LogStep DEF DutyInv
<1>2. DutyTypeOK' /\ Reminding'  BY StepType DEF DutyInv
<1>3. Timely'  BY TimelyStep DEF DutyInv
<1>4. HoursAreValid'  BY HoursStep DEF DutyInv
<1> QED  BY <1>1, <1>2, <1>3, <1>4, GatedStep, AcceptedStep, RuledStep, RulesStep DEF DutyInv

(* Whatever the hours, the clock and the sessions did while a request was  *)
(* under way, a sub-admin's acceptance is dated within MaxDuty of the      *)
(* start of a session they resumed (AcceptedOnDuty).                       *)
THEOREM AcceptancesAreOnDuty == DutySpec => []AcceptedOnDuty
<1>1. DutyInv => AcceptedOnDuty  BY DEF DutyInv
<1> QED  BY <1>1, DutyInvInit, DutyInvStep, PTL DEF DutySpec

(* Of the sub-admins who became judges of a dispute, only the first one on *)
(* the list ever sends a settlement in it, and no dispute is resolved but  *)
(* after one of theirs or of a general admin's (OneJudgeRules).            *)
THEOREM FirstJudgeRules == DutySpec => []OneJudgeRules
<1>1. DutyInv => OneJudgeRules  BY DEF DutyInv
<1> QED  BY <1>1, DutyInvInit, DutyInvStep, PTL DEF DutySpec
=============================================================================
