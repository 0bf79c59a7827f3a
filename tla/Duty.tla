-------------------------------- MODULE Duty --------------------------------
(***************************************************************************)
(* Working hours of sub-admins and the gate they keep.  A sub-admin may    *)
(* accept a dispute, and rule on one they accepted, only inside hours the  *)
(* general admin set and after a click on "resume duty".  A scheduler on   *)
(* every server reminds, opens and closes the sessions of the log.         *)
(*                                                                         *)
(* A request reads the clock, then the hours, then the session, then the   *)
(* assignment, and writes last, each in a statement of its own: `req` and  *)
(* `tick` hold what a request or a tick of the scheduler has read so far.  *)
(* The rows of a table stand in the order of their insertion, which is the *)
(* order SQLite returns them in and LIMIT 1 takes the first of.            *)
(*                                                                         *)
(* A day has `Day` units of time, and a set of day numbers stands for the  *)
(* weekdays and dates of a schedule.                                       *)
(***************************************************************************)
EXTENDS Integers, Sequences, FiniteSets

CONSTANTS
  Admins, Supers,   \* admins, and the general admins among them
  Disputes,
  Requests, Ticks,  \* requests, and ticks of the schedulers, under way at once
  Proposals,        \* hours a general admin may ask for
  Day, MaxDuty,     \* a day, and MAX_DUTY_MINUTES
  Lead, Recent,     \* the reminder's distance, and how long one counts as sent
  LookAhead,        \* days nextWindowStart searches
  NoHours, NoAdmin, Idle,
  Scopes            \* bounds: who acts, on what, how often, until when

Subs == Admins \ Supers
Hours == [start: Nat, end: Nat, days: SUBSET Nat]
Bounds == [who: SUBSET Admins, about: SUBSET Disputes, ticks: SUBSET Ticks,
           resume: Nat, accept: Nat, resolve: Nat, edits: Nat, faults: Nat, until: Nat]
Rulings == [who: Admins, on: Disputes, offer: Disputes]

ASSUME DutyAssumption ==
  /\ Day \in Nat \ {0} /\ MaxDuty \in Nat /\ Lead \in Nat /\ Recent \in Nat
  /\ LookAhead \in Nat
  /\ Supers \subseteq Admins
  /\ Proposals \subseteq Hours
  /\ NoHours \notin Hours /\ NoAdmin \notin Admins
  /\ Scopes \subseteq Bounds

VARIABLES
  now,         \* the clock
  hours,       \* admins.duty_start_min, duty_end_min, duty_days, duty_dates
  notified,    \* admins.duty_notified_at
  sessions,    \* admin_duty_sessions
  judges,      \* dispute_assignments
  disputes,    \* disputes.status
  rulings,     \* the settlements sent: by whom, in which dispute, of whose escrow
  req, tick,
  left         \* what is left of the bounds

vars == <<now, hours, notified, sessions, judges, disputes, rulings, req, tick, left>>

Never == 0   \* a null time: the clock never shows it
Window == [start: Nat, end: Nat]
NoWindow == [start |-> 0, end |-> 0]
Session == [admin: Admins, start: Nat, end: Nat, resumed: Nat, accepted: Nat,
            status: {"scheduled", "on_duty", "ended", "missed"}]
Judge == [admin: Admins, at: Nat]
Steps == {"began", "clock", "hours", "new", "found", "allowed", "unassigned",
          "assigned", "ready", "settled"}
Request == [op: {"resume", "accept", "resolve"}, step: Steps,
            who: Admins, on: Disputes, offer: Disputes, stamp: Nat, at: Nat, win: Window, row: Nat]
Reminder == [who: Admins, notified: Nat]
Closing == [row: Nat \ {0}, final: {"ended", "missed"}]
Tick == [step: {"idle", "remind", "mail", "insert", "close"}, at: Nat,
         todo: SUBSET Reminder, who: Admins \cup {NoAdmin}, win: Window,
         list: SUBSET Closing]
IdleTick == [step |-> "idle", at |-> Never, todo |-> {}, who |-> NoAdmin,
             win |-> NoWindow, list |-> {}]

DutyTypeOK ==
  /\ now \in Nat \ {Never}
  /\ hours \in [Admins -> Hours \cup {NoHours}]
  /\ notified \in [Admins -> Nat]
  /\ sessions \in Seq(Session)
  /\ judges \in [Disputes -> Seq(Judge)]
  /\ disputes \in [Disputes -> {"open", "in_review", "resolved"}]
  /\ rulings \subseteq Rulings
  /\ req \in [Requests -> Request \cup {Idle}]
  /\ tick \in [Ticks -> Tick]
  /\ left \in Bounds

-----------------------------------------------------------------------------
(* Hours and windows. *)

ValidAnyLength(h) == h.end < Day /\ h.start < h.end /\ h.days # {}

(* validateWindow *)
Valid(h) ==
  /\ h.end < Day
  /\ h.start < h.end
  /\ h.end - h.start <= MaxDuty
  /\ h.days # {}

WindowOn(h, d) == [start |-> d * Day + h.start, end |-> d * Day + h.end]

(* windowAt: the window of the day of t, when t is in it. *)
WindowsAt(h, t) ==
  {w \in {WindowOn(h, d) : d \in h.days \cap {t \div Day}} : w.start <= t /\ t < w.end}

(* nextWindowStart: the first start after t in the days searched. *)
Upcoming(h, t) ==
  {w \in {WindowOn(h, d) : d \in h.days \cap (t \div Day .. t \div Day + LookAhead - 1)} :
     t < w.start}
IsNext(w, h, t) == w \in Upcoming(h, t) /\ \A v \in Upcoming(h, t) : w.start <= v.start

RowsOf(a, start) ==
  {i \in DOMAIN sessions : sessions[i].admin = a /\ sessions[i].start = start}
IsFirstRow(i, a, start) ==
  i \in RowsOf(a, start) /\ \A j \in RowsOf(a, start) : i <= j

SessionOf(a, w, resumed, status) ==
  [admin |-> a, start |-> w.start, end |-> w.end, resumed |-> resumed,
   accepted |-> 0, status |-> status]

-----------------------------------------------------------------------------
DutyInit ==
  /\ now = Day
  /\ left \in Scopes
  /\ hours \in [Admins -> {h \in Proposals : Valid(h)} \cup {NoHours}]
  /\ \A a \in Admins : hours[a] # NoHours => a \in Subs \cap left.who
  /\ notified = [a \in Admins |-> Never]
  /\ sessions = << >>
  /\ judges = [d \in Disputes |-> << >>]
  /\ disputes = [d \in Disputes |-> "open"]
  /\ rulings = {}
  /\ req = [r \in Requests |-> Idle]
  /\ tick = [j \in Ticks |-> IdleTick]

Clock ==
  /\ now < left.until
  /\ now' = now + 1
  /\ UNCHANGED <<hours, notified, sessions, judges, disputes, rulings, req, tick, left>>

(* PATCH /admins/:id/duty: hours are set, changed or cleared at any time.  *)
EditHours(a) ==
  /\ left.edits > 0
  /\ a \in Subs \cap left.who
  /\ \E h \in {p \in Proposals : Valid(p)} \cup {NoHours} :
       h # hours[a] /\ hours' = [hours EXCEPT ![a] = h]
  /\ left' = [left EXCEPT !.edits = @ - 1]
  /\ UNCHANGED <<now, notified, sessions, judges, disputes, rulings, req, tick>>

-----------------------------------------------------------------------------
(* A request of an admin, and the gate its steps have in common.           *)

Stage(r, step) == req' = [req EXCEPT ![r].step = step]
Done(r) == req' = [req EXCEPT ![r] = Idle]
At(r, op, step) == req[r] # Idle /\ req[r].op = op /\ req[r].step = step

(* The resolve route takes the escrow to settle from the body of the       *)
(* request and the dispute from its URL, and compares the two nowhere:     *)
(* `offer` is the dispute the escrow belongs to.                           *)
Click(r, op, a, d, o) ==
  /\ req[r] = Idle
  /\ a \in left.who /\ {d, o} \subseteq left.about /\ left[op] > 0
  /\ op # "resolve" => o = d
  /\ op = "resume" => a \in Subs
  /\ req' = [req EXCEPT ![r] =
       [op |-> op, step |-> IF op = "resume" THEN "clock" ELSE "began", who |-> a,
        on |-> d, offer |-> o, stamp |-> IF op = "accept" THEN now ELSE Never,
        at |-> IF op = "resume" THEN now ELSE Never, win |-> NoWindow, row |-> 0]]
  /\ left' = [left EXCEPT ![op] = @ - 1]
  /\ UNCHANGED <<now, hours, notified, sessions, judges, disputes, rulings, tick>>

(* The role is read first: a general admin passes, a sub-admin meets       *)
(* isOnDuty, which reads the clock again.                                  *)
ReadRole(r) ==
  /\ req[r] # Idle /\ req[r].step = "began"
  /\ IF req[r].who \in Supers
     THEN Stage(r, IF req[r].op = "accept" THEN "allowed" ELSE "ready")
     ELSE req' = [req EXCEPT ![r].step = "clock", ![r].at = now]
  /\ UNCHANGED <<now, hours, notified, sessions, judges, disputes, rulings, tick, left>>

(* getAdminWindow and windowAt, of isOnDuty and of resumeDuty. *)
ReadHours(r) ==
  /\ req[r] # Idle /\ req[r].step = "clock"
  /\ \/ \E w \in IF hours[req[r].who] = NoHours THEN {}
                 ELSE WindowsAt(hours[req[r].who], req[r].at) :
          req' = [req EXCEPT ![r].step = "hours", ![r].win = w]
     \/ /\ hours[req[r].who] # NoHours => WindowsAt(hours[req[r].who], req[r].at) = {}
        /\ Done(r)
  /\ UNCHANGED <<now, hours, notified, sessions, judges, disputes, rulings, tick, left>>

OnDutyAnyWindow(r) ==
  \E i \in DOMAIN sessions :
    sessions[i].admin = req[r].who /\ sessions[i].status = "on_duty"

OnDuty(r) ==
  \E i \in RowsOf(req[r].who, req[r].win.start) : sessions[i].status = "on_duty"

-----------------------------------------------------------------------------
(* POST /duty/resume *)

LookForSession(r) ==
  /\ At(r, "resume", "hours")
  /\ \/ /\ RowsOf(req[r].who, req[r].win.start) = {}
        /\ Stage(r, "new")
     \/ \E i \in DOMAIN sessions :
          /\ IsFirstRow(i, req[r].who, req[r].win.start)
          /\ IF sessions[i].status \in {"on_duty", "ended"}
             THEN Done(r)
             ELSE req' = [req EXCEPT ![r].step = "found", ![r].row = i]
  /\ UNCHANGED <<now, hours, notified, sessions, judges, disputes, rulings, tick, left>>

InsertMisspelt(r) ==
  /\ At(r, "resume", "new")
  /\ sessions' = Append(sessions,
                   SessionOf(req[r].who, req[r].win, req[r].at, "active"))
  /\ Done(r)
  /\ UNCHANGED <<now, hours, notified, judges, disputes, rulings, tick, left>>

InsertOnDuty(r) ==
  /\ At(r, "resume", "new")
  /\ sessions' = Append(sessions,
                   SessionOf(req[r].who, req[r].win, req[r].at, "on_duty"))
  /\ Done(r)
  /\ UNCHANGED <<now, hours, notified, judges, disputes, rulings, tick, left>>

UpdateOnDuty(r) ==
  /\ At(r, "resume", "found")
  /\ sessions' = [sessions EXCEPT ![req[r].row].status = "on_duty",
                                  ![req[r].row].resumed = req[r].at]
  /\ Done(r)
  /\ UNCHANGED <<now, hours, notified, judges, disputes, rulings, tick, left>>

-----------------------------------------------------------------------------
(* POST /disputes/:id/accept *)

AcceptGate(r) ==
  /\ At(r, "accept", "hours")
  /\ IF OnDuty(r) THEN Stage(r, "allowed") ELSE Done(r)
  /\ UNCHANGED <<now, hours, notified, sessions, judges, disputes, rulings, tick, left>>

SeeUnassigned(r) ==
  /\ At(r, "accept", "allowed")
  /\ IF judges[req[r].on] = << >> THEN Stage(r, "unassigned") ELSE Done(r)
  /\ UNCHANGED <<now, hours, notified, sessions, judges, disputes, rulings, tick, left>>

Assign(r) ==
  /\ At(r, "accept", "unassigned")
  /\ judges' = [judges EXCEPT ![req[r].on] =
                  Append(@, [admin |-> req[r].who, at |-> req[r].stamp])]
  /\ Stage(r, "assigned")
  /\ UNCHANGED <<now, hours, notified, sessions, disputes, rulings, tick, left>>

(* The acceptance is counted for every session of theirs that is open. *)
BeginReview(r) ==
  /\ At(r, "accept", "assigned")
  /\ sessions' = [i \in DOMAIN sessions |->
       IF sessions[i].admin = req[r].who /\ sessions[i].status = "on_duty"
       THEN [sessions[i] EXCEPT !.accepted = @ + 1] ELSE sessions[i]]
  /\ disputes' = [disputes EXCEPT ![req[r].on] = "in_review"]
  /\ Done(r)
  /\ UNCHANGED <<now, hours, notified, judges, rulings, tick, left>>

-----------------------------------------------------------------------------
(* POST /admin/manage/disputes/:id/resolve *)

RuleGate(r) ==
  /\ At(r, "resolve", "hours")
  /\ IF OnDuty(r) THEN Stage(r, "allowed") ELSE Done(r)
  /\ UNCHANGED <<now, hours, notified, sessions, judges, disputes, rulings, tick, left>>

IsAssigneeOnList(a, d) == \E k \in DOMAIN judges[d] : judges[d][k].admin = a

(* The assignment the route reads is the first one. *)
IsAssignee(a, d) == judges[d] # << >> /\ Head(judges[d]).admin = a

SeeAssigned(r) ==
  /\ At(r, "resolve", "allowed")
  /\ IF IsAssignee(req[r].who, req[r].on) THEN Stage(r, "ready") ELSE Done(r)
  /\ UNCHANGED <<now, hours, notified, sessions, judges, disputes, rulings, tick, left>>

(* releasePlatform or cancelPlatform, which return once the transaction is *)
(* sent.  The contract settles an escrow once: a second request may end in *)
(* an error, or be sent before the first is mined and go on.               *)
Settle(r) ==
  /\ At(r, "resolve", "ready")
  /\ \/ /\ rulings' = rulings \cup {[who |-> req[r].who, on |-> req[r].on, offer |-> req[r].offer]}
        /\ Stage(r, "settled")
     \/ /\ \E v \in rulings : v.offer = req[r].offer
        /\ Done(r) /\ UNCHANGED rulings
  /\ UNCHANGED <<now, hours, notified, sessions, judges, disputes, tick, left>>

RecordVerdict(r) ==
  /\ At(r, "resolve", "settled")
  /\ disputes' = [disputes EXCEPT ![req[r].on] = "resolved"]
  /\ Done(r)
  /\ UNCHANGED <<now, hours, notified, sessions, judges, rulings, tick, left>>

-----------------------------------------------------------------------------
(* The scheduler.  A tick takes the list of admins with hours, reminds     *)
(* each whose next window is `Lead` away, and then closes the sessions     *)
(* whose window is over.  The ticks of two servers, or a slow one and the  *)
(* next, overlap.                                                          *)

Ticking(j, step) == tick[j].step = step

StartTick(j) ==
  /\ Ticking(j, "idle") /\ j \in left.ticks
  /\ tick' = [tick EXCEPT ![j] = [IdleTick EXCEPT !.step = "remind", !.at = now,
       !.todo = {[who |-> a, notified |-> notified[a]] : a \in {b \in Subs : hours[b] # NoHours}}]]
  /\ UNCHANGED <<now, hours, notified, sessions, judges, disputes, rulings, req, left>>

(* The windows to remind of: one, or none. *)
DueFor(n, at) ==
  IF hours[n.who] = NoHours THEN {}
  ELSE {w \in Upcoming(hours[n.who], at) :
          /\ IsNext(w, hours[n.who], at)
          /\ w.start - at = Lead
          /\ n.notified < w.start - Recent}

LookAtHours(j) ==
  /\ Ticking(j, "remind")
  /\ \E n \in tick[j].todo :
       \/ \E w \in DueFor(n, tick[j].at) :
            tick' = [tick EXCEPT ![j].todo = @ \ {n}, ![j].step = "mail",
                                 ![j].who = n.who, ![j].win = w]
       \/ /\ DueFor(n, tick[j].at) = {}
          /\ tick' = [tick EXCEPT ![j].todo = @ \ {n}]
  /\ UNCHANGED <<now, hours, notified, sessions, judges, disputes, rulings, req, left>>

(* The mail is sent, the admin marked as notified, the session looked for. *)
Remind(j) ==
  /\ Ticking(j, "mail")
  /\ notified' = [notified EXCEPT ![tick[j].who] = tick[j].at]
  /\ tick' = [tick EXCEPT ![j].step =
       IF RowsOf(tick[j].who, tick[j].win.start) = {} THEN "insert" ELSE "remind"]
  /\ UNCHANGED <<now, hours, sessions, judges, disputes, rulings, req, left>>

InsertScheduled(j) ==
  /\ Ticking(j, "insert")
  /\ sessions' = Append(sessions, SessionOf(tick[j].who, tick[j].win, Never, "scheduled"))
  /\ tick' = [tick EXCEPT ![j].step = "remind"]
  /\ UNCHANGED <<now, hours, notified, judges, disputes, rulings, req, left>>

ElapsedScheduled(at) ==
  {i \in DOMAIN sessions : sessions[i].status = "scheduled" /\ sessions[i].end <= at}

(* What closeElapsedSessions selects. *)
Elapsed(at) ==
  {i \in DOMAIN sessions : /\ sessions[i].status \in {"scheduled", "on_duty"}
                           /\ sessions[i].end <= at}

ListElapsed(j) ==
  /\ Ticking(j, "remind") /\ tick[j].todo = {}
  /\ LET list == {[row |-> i, final |-> IF sessions[i].status = "on_duty"
                                           \/ sessions[i].resumed # Never
                                        THEN "ended" ELSE "missed"] : i \in Elapsed(tick[j].at)}
     IN tick' = [tick EXCEPT ![j] = IF list = {} THEN IdleTick
                  ELSE [IdleTick EXCEPT !.step = "close", !.at = tick[j].at, !.list = list]]
  /\ UNCHANGED <<now, hours, notified, sessions, judges, disputes, rulings, req, left>>

(* The session is closed as it was read, whatever became of it since.      *)
CloseSession(j) ==
  /\ Ticking(j, "close")
  /\ \E c \in tick[j].list :
       /\ sessions' = [sessions EXCEPT ![c.row].status = c.final]
       /\ IF tick[j].list = {c} THEN tick' = [tick EXCEPT ![j] = IdleTick]
                                ELSE tick' = [tick EXCEPT ![j].list = @ \ {c}]
  /\ UNCHANGED <<now, hours, notified, judges, disputes, rulings, req, left>>

-----------------------------------------------------------------------------
(* A database error or a restart ends a request or a tick where it is; a   *)
(* reminder that fails is caught, and the tick goes on.                    *)

Fault ==
  /\ left.faults > 0
  /\ left' = [left EXCEPT !.faults = @ - 1]
RequestLost(r) ==
  /\ Fault /\ req[r] # Idle /\ Done(r)
  /\ UNCHANGED <<now, hours, notified, sessions, judges, disputes, rulings, tick>>
TickLost(j) ==
  /\ Fault /\ tick[j] # IdleTick
  /\ \/ tick' = [tick EXCEPT ![j] = IdleTick]
     \/ /\ tick[j].step \in {"mail", "insert"}
        /\ tick' = [tick EXCEPT ![j].step = "remind"]
  /\ UNCHANGED <<now, hours, notified, sessions, judges, disputes, rulings, req>>

RequestStep(r) ==
  \/ ReadRole(r) \/ ReadHours(r)
  \/ LookForSession(r) \/ InsertOnDuty(r) \/ UpdateOnDuty(r)
  \/ AcceptGate(r) \/ SeeUnassigned(r) \/ Assign(r) \/ BeginReview(r)
  \/ RuleGate(r) \/ SeeAssigned(r) \/ Settle(r) \/ RecordVerdict(r)

TickStep(j) ==
  \/ StartTick(j) \/ LookAtHours(j) \/ Remind(j) \/ InsertScheduled(j)
  \/ ListElapsed(j) \/ CloseSession(j)

DutyNext ==
  \/ Clock
  \/ \E a \in Admins : EditHours(a)
  \/ \E r \in Requests :
       \/ \E op \in {"resume", "accept", "resolve"}, a \in Admins, d, o \in Disputes :
            Click(r, op, a, d, o)
       \/ RequestStep(r) \/ RequestLost(r)
  \/ \E j \in Ticks : TickStep(j) \/ TickLost(j)

DutySpec == DutyInit /\ [][DutyNext]_vars

(* The servers run: a request under way goes on and the cron fires again.  *)
DutyFairSpec ==
  /\ DutySpec
  /\ \A r \in Requests : WF_vars(RequestStep(r))
  /\ \A j \in Ticks : WF_vars(TickStep(j))

-----------------------------------------------------------------------------
(* Properties. *)

Worked(a, t) ==
  \E i \in DOMAIN sessions :
    /\ sessions[i].admin = a
    /\ sessions[i].resumed # Never
    /\ t < sessions[i].start + MaxDuty

(* duty.ts:4-9, "a sub-admin's working hours ... max 6 hours" and "must    *)
(* click resume duty": whatever became of the hours, the session and the   *)
(* clock while a request was under way, an acceptance by a sub-admin is    *)
(* dated less than MaxDuty after the start of a session they resumed.      *)
AcceptedOnDuty ==
  \A d \in Disputes : \A k \in DOMAIN judges[d] :
    judges[d][k].admin \in Subs => Worked(judges[d][k].admin, judges[d][k].at)

(* Two sub-admins who accept a dispute at once both become its judge.  Of  *)
(* them only the one the resolve route reads first ever sends a settlement *)
(* in it, and no dispute is resolved but by that one or a general admin.   *)
OneJudgeRules ==
  /\ \A v \in rulings :
       v.who \in Subs => judges[v.on] # << >> /\ Head(judges[v.on]).admin = v.who
  /\ \A d \in Disputes : disputes[d] = "resolved" => \E v \in rulings : v.on = d

(* dutyScheduler.ts:7-9: a session whose window is over is closed, again   *)
(* and again if a resume that was under way opens it once more.            *)
MaxSessions == 4
ElapsedIsClosed ==
  \A i \in 1..MaxSessions :
    (i \in DOMAIN sessions /\ sessions[i].end <= now) ~>
      (i \in DOMAIN sessions /\ sessions[i].status \in {"ended", "missed"})
=============================================================================
