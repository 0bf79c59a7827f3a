--------------------------- MODULE FiatRampProofs ---------------------------
(***************************************************************************)
(* Proofs about the fiat ramp, for any number of requests, banks and       *)
(* deposits and any faults: type correctness, that the rails at Bridge and *)
(* the rows agree (RailsAgree), and that a deposit is announced once       *)
(* (MailedOnce).                                                           *)
(***************************************************************************)
EXTENDS FiatRamp, TLAPS

-----------------------------------------------------------------------------
(* What a request may count on at each of its awaits: which rail it makes, *)
(* that the bank account it pays out to has its row, that what it inserts  *)
(* exists at Bridge, and the one event a webhook brought.                  *)

EventSteps == {"receive", "record", "mirror", "lookClaim", "claim", "mail"}

RequestOK(q) ==
  /\ q.step \in {"look", "call", "insert"} => q.rail \in Rails
  /\ q.step = "needBank" => q.rail = "liq"
  /\ q.step \in {"gate", "call"} /\ q.rail = "liq" => q.num = 1 /\ stored["ext"] = 1
  /\ q.step = "insert" => q.num = 1 /\ made[q.rail] # <<>>
  /\ q.step \in EventSteps => \E e \in Events : q.events = {e}

RequestsOK == \A t \in Tasks : RequestOK(req[t])

RailsOK ==
  /\ \A r \in Rails : Len(made[r]) <= 1 /\ stored[r] <= Len(made[r])
  /\ made["liq"] # <<>> => stored["ext"] = 1 /\ made["liq"][1] = made["ext"][1]

FiatInv == FiatTypeOK /\ RequestsOK /\ RailsOK

(* Of the deposits no two webhooks raced for. *)
ClaimsOK ==
  \A n \in Notices \ raced :
    /\ \A t \in Tasks : At(t, "claim") /\ n \in NoticeOf(t) =>
         n \notin claims /\ \A u \in Tasks \ {t} : ~ (At(u, "claim") /\ n \in NoticeOf(u))
    /\ \A t \in Tasks : At(t, "mail") /\ n \in NoticeOf(t) =>
         /\ n \in claims /\ mails[n] = 0
         /\ \A u \in Tasks \ {t} : ~ (At(u, "mail") /\ n \in NoticeOf(u))
    /\ mails[n] # 0 => n \in claims /\ mails[n] = 1

-----------------------------------------------------------------------------
(* One request moves and the others stay; nothing a request counts on is   *)
(* ever undone.                                                            *)

Kept ==
  /\ stored["ext"] = 1 => stored'["ext"] = 1
  /\ \A r \in Rails : made[r] # <<>> => made'[r] # <<>>

LEMMA KeptOK ==
  ASSUME Kept, NEW q \in RequestAt, RequestOK(q)
  PROVE  RequestOK(q)'
<1>1. q.step = "insert" => q.rail \in Rails  BY DEF RequestOK
<1> QED  BY <1>1 DEF Kept, RequestOK

LEMMA OneMoves ==
  ASSUME FiatTypeOK, RequestsOK, Kept, NEW t \in Tasks,
         NEW q \in RequestAt, RequestOK(q)', req' = [req EXCEPT ![t] = q]
  PROVE  req' \in [Tasks -> RequestAt] /\ RequestsOK'
<1>1. req' \in [Tasks -> RequestAt]  BY DEF FiatTypeOK
<1>2. ASSUME NEW u \in Tasks PROVE RequestOK(req[u])'
  <2>1. CASE u = t
    <3>1. req'[u] = q  BY <2>1 DEF FiatTypeOK
    <3> QED  BY <3>1 DEF RequestOK
  <2>2. CASE u # t
    <3>1. req'[u] = req[u]  BY <2>2 DEF FiatTypeOK
    <3>2. req[u] \in RequestAt /\ RequestOK(req[u])  BY DEF FiatTypeOK, RequestsOK
    <3>3. PICK x : x = req[u]  OBVIOUS
    <3>4. RequestOK(x)'  BY <3>2, <3>3, KeptOK
    <3> QED  BY <3>1, <3>3, <3>4 DEF RequestOK
  <2> QED  BY <2>1, <2>2
<1> QED  BY <1>1, <1>2 DEF RequestsOK

Plain == {"idle", "link", "insertCustomer", "ask", "update", "reread", "answer",
          "history", "compare", "reconcile"}

LEMMA PlainOK ==
  ASSUME NEW q, q.step \in Plain
  PROVE  RequestOK(q)'
BY DEF RequestOK, Plain, EventSteps

LEMMA NoRequestType == NoRequest \in RequestAt /\ NoRequest.step \in Plain
BY DEF NoRequest, RequestAt, Steps, Plain, NoStatus, Statuses, Kyc, Tos

LEMMA Finishes ==
  ASSUME FiatTypeOK, RequestsOK, Kept, NEW t \in Tasks, Finish(t)
  PROVE  req' \in [Tasks -> RequestAt] /\ RequestsOK'
BY NoRequestType, PlainOK, OneMoves DEF Finish

LEMMA StepChanged ==
  ASSUME FiatTypeOK, NEW t \in Tasks, NEW step \in Steps
  PROVE  LET q == [req[t] EXCEPT !.step = step] IN
         /\ q \in RequestAt /\ q.step = step
         /\ q.rail = req[t].rail /\ q.num = req[t].num /\ q.events = req[t].events
<1>1. req[t] \in RequestAt  BY DEF FiatTypeOK
<1> QED  BY <1>1 DEF RequestAt

LEMMA PlainStep ==
  ASSUME FiatTypeOK, RequestsOK, Kept, NEW t \in Tasks, NEW step \in Plain, GoTo(t, step)
  PROVE  req' \in [Tasks -> RequestAt] /\ RequestsOK'
<1> DEFINE q == [req[t] EXCEPT !.step = step]
<1>a. step \in Steps  BY DEF Plain, Steps
<1>1. q \in RequestAt /\ q.step \in Plain  BY <1>a, StepChanged
<1>2. req' = [req EXCEPT ![t] = q]  BY DEF GoTo
<1> HIDE DEF q
<1> QED  BY <1>1, <1>2, PlainOK, OneMoves

-----------------------------------------------------------------------------
(* The steps of the verification, of the page and of Bridge: the rails and *)
(* their rows stay.                                                        *)

LEMMA RailsStay ==
  ASSUME RailsOK, UNCHANGED <<made, stored>>
  PROVE  Kept /\ RailsOK'
BY DEF RailsOK, Kept

LEMMA FromPageType ==
  ASSUME FiatTypeOK, NEW step \in Plain
  PROVE  FromPage(step) \in RequestAt /\ FromPage(step).step \in Plain
BY DEF FromPage, NoRequest, FiatTypeOK, RequestAt, Plain, Steps, NoStatus, Statuses

LEMMA GotChanged ==
  ASSUME FiatTypeOK, NEW t \in Tasks, NEW step \in Plain, NEW got \in Statuses
  PROVE  LET q == [req[t] EXCEPT !.step = step, !.got = got] IN
         q \in RequestAt /\ q.step \in Plain
<1>1. req[t] \in RequestAt  BY DEF FiatTypeOK
<1>2. step \in Steps  BY DEF Plain, Steps
<1> QED  BY <1>1, <1>2 DEF RequestAt

LEMMA GotStep ==
  ASSUME FiatTypeOK, RequestsOK, Kept, NEW t \in Tasks, NEW step \in Plain,
         NEW got \in Statuses,
         req' = [req EXCEPT ![t].step = step, ![t].got = got]
  PROVE  req' \in [Tasks -> RequestAt] /\ RequestsOK'
<1> DEFINE q == [req[t] EXCEPT !.step = step, !.got = got]
<1>1. q \in RequestAt /\ q.step \in Plain  BY GotChanged
<1>2. req' = [req EXCEPT ![t] = q]  BY DEF FiatTypeOK
<1> HIDE DEF q
<1> QED  BY <1>1, <1>2, PlainOK, OneMoves

LEMMA FaultType == FiatTypeOK /\ Fault => faults' \in 0 .. MaxFaults
BY FiatAssumption DEF FiatTypeOK, Fault

LEMMA ScopeType ==
  ASSUME FiatTypeOK, Clicked
  PROVE  scope' \in [stage : Stages, clicks : Nat, events : Nat]
<1>1. scope \in [stage : Stages, clicks : Nat, events : Nat]  BY DEF FiatTypeOK
<1>2. scope.clicks - 1 \in Nat  BY <1>1 DEF Clicked
<1> QED  BY <1>1, <1>2 DEF Clicked

LEMMA VerificationStep ==
  ASSUME FiatInv, NEW t \in Tasks,
         LoadPage(t) \/ StartVerification(t) \/ CreateLink(t) \/ InsertCustomer(t)
         \/ Poll(t) \/ AskBridge(t) \/ UpdateStatus(t) \/ Reread(t) \/ Answer(t)
  PROVE  FiatInv'
<1> USE DEF FiatInv, bridgeVars, railVars, depositVars
<1>k. Kept /\ RailsOK'
  BY RailsStay DEF LoadPage, StartVerification, CreateLink, InsertCustomer, Poll,
                   AskBridge, UpdateStatus, Reread, Answer
<1>r. req[t] \in RequestAt /\ req[t].got \in Statuses  BY DEF FiatTypeOK, RequestAt
<1>1. CASE LoadPage(t)
  <2>1. FromPage("answer") \in RequestAt /\ FromPage("answer").step \in Plain
    BY FromPageType DEF Plain
  <2>2. ASSUME NEW u \in Tasks
        PROVE  req'[u] \in RequestAt /\ RequestOK(req[u])'
    <3>1. CASE u = t  BY <1>1, <2>1, <3>1, PlainOK DEF LoadPage
    <3>2. CASE u # t
      <4>1. req'[u] = [req[u] EXCEPT !.heard = FALSE]  BY <1>1, <3>2 DEF LoadPage
      <4>2. req[u] \in RequestAt /\ RequestOK(req[u])  BY DEF FiatTypeOK, RequestsOK
      <4>3. /\ req'[u] \in RequestAt
            /\ req'[u].step = req[u].step /\ req'[u].rail = req[u].rail
            /\ req'[u].num = req[u].num /\ req'[u].events = req[u].events
        BY <4>1, <4>2 DEF RequestAt
      <4>4. RequestOK(req'[u])  BY <4>2, <4>3 DEF RequestOK
      <4> QED  BY <1>1, <4>3, <4>4 DEF LoadPage, RequestOK
    <3> QED  BY <3>1, <3>2
  <2>3. req' \in [Tasks -> RequestAt]  BY <1>1, <2>2 DEF LoadPage
  <2>4. RequestsOK'  BY <2>2 DEF RequestsOK
  <2> QED  BY <1>1, <1>k, <2>3, <2>4, ScopeType DEF LoadPage, FiatTypeOK
<1>2. CASE StartVerification(t)
  <2>1. PICK step \in {"answer", "link"} : Begin(t, FromPage(step))
    BY <1>2 DEF StartVerification
  <2>2. FromPage(step) \in RequestAt /\ FromPage(step).step \in Plain
    BY FromPageType DEF Plain
  <2>3. req' \in [Tasks -> RequestAt] /\ RequestsOK'
    BY <1>k, <2>1, <2>2, PlainOK, OneMoves DEF Begin
  <2> QED  BY <1>2, <1>k, <2>3, ScopeType DEF StartVerification, FiatTypeOK
<1>3. CASE CreateLink(t)
  <2>1. link' \in Statuses
    BY <1>3 DEF CreateLink, FiatTypeOK, Statuses, Kyc, Tos
  <2>2. req' \in [Tasks -> RequestAt] /\ RequestsOK'
    BY <1>3, <1>k, <2>1, GotStep, Finishes DEF CreateLink, Plain
  <2> QED  BY <1>3, <1>k, <2>1, <2>2, FaultType DEF CreateLink, FiatTypeOK
<1>4. CASE InsertCustomer(t)
  <2>1. req' \in [Tasks -> RequestAt] /\ RequestsOK'
    BY <1>4, <1>k, PlainStep, Finishes DEF InsertCustomer, Plain
  <2> QED  BY <1>4, <1>k, <1>r, <2>1 DEF InsertCustomer, FiatTypeOK
<1>5. CASE Poll(t)
  <2>1. FromPage("ask") \in RequestAt /\ FromPage("ask").step \in Plain
    BY FromPageType DEF Plain
  <2>2. req' \in [Tasks -> RequestAt] /\ RequestsOK'
    BY <1>5, <1>k, <2>1, PlainOK, OneMoves DEF Poll, Begin
  <2> QED  BY <1>5, <1>k, <2>2 DEF Poll, FiatTypeOK
<1>6. CASE AskBridge(t)
  <2>1. link \in Statuses  BY DEF FiatTypeOK
  <2>2. req' \in [Tasks -> RequestAt] /\ RequestsOK'
    BY <1>6, <1>k, <2>1, GotStep, Finishes DEF AskBridge, Plain
  <2> QED  BY <1>6, <1>k, <2>2, FaultType DEF AskBridge, FiatTypeOK
<1>7. CASE UpdateStatus(t)
  <2>1. req' \in [Tasks -> RequestAt] /\ RequestsOK'
    BY <1>7, <1>k, PlainStep DEF UpdateStatus, Plain
  <2> QED  BY <1>7, <1>k, <1>r, <2>1 DEF UpdateStatus, FiatTypeOK
<1>8. CASE Reread(t)
  <2>1. customer \in Statuses  BY DEF FiatTypeOK
  <2>2. req' \in [Tasks -> RequestAt] /\ RequestsOK'
    BY <1>8, <1>k, <2>1, GotStep DEF Reread, Plain
  <2> QED  BY <1>8, <1>k, <2>2 DEF Reread, FiatTypeOK
<1>9. CASE Answer(t)
  <2>1. req' \in [Tasks -> RequestAt] /\ RequestsOK'
    BY <1>9, <1>k, Finishes DEF Answer
  <2>2. page' \in {"closed", "new", "unverified", "rejected", "verified"}
    BY <1>9 DEF Answer, Shows, FiatTypeOK
  <2> QED  BY <1>9, <1>k, <2>1, <2>2, FaultType DEF Answer, FiatTypeOK
<1> QED  BY <1>1, <1>2, <1>3, <1>4, <1>5, <1>6, <1>7, <1>8, <1>9

LEMMA OutsideStep ==
  ASSUME FiatInv,
         SyncWallet \/ LinkMoves \/ ApiStops \/ \E e \in Events : DepositMoves(e)
  PROVE  FiatInv'
<1> USE DEF FiatInv, bridgeVars, railVars, depositVars
<1>k. Kept /\ RailsOK'
  BY RailsStay DEF SyncWallet, LinkMoves, ApiStops, DepositMoves
<1>u. CASE UNCHANGED req
  <2>1. RequestsOK'
    <3>1. ASSUME NEW u \in Tasks PROVE RequestOK(req[u])'
      <4>1. PICK x : x = req[u]  OBVIOUS
      <4>2. x \in RequestAt /\ RequestOK(x)  BY <4>1 DEF FiatTypeOK, RequestsOK
      <4>3. RequestOK(x)'  BY <1>k, <4>2, KeptOK
      <4> QED  BY <1>u, <4>1, <4>3 DEF RequestOK
    <3> QED  BY <1>u, <3>1 DEF RequestsOK
  <2>2. CASE SyncWallet  BY <1>k, <2>1, <2>2 DEF SyncWallet, FiatTypeOK
  <2>3. CASE LinkMoves
    <3>1. link' \in Statuses  BY <2>3 DEF LinkMoves, FiatTypeOK, Statuses, Kyc, Tos
    <3> QED  BY <1>k, <2>1, <2>3, <3>1 DEF LinkMoves, FiatTypeOK
  <2>4. CASE \E e \in Events : DepositMoves(e)
    <3>1. PICK e \in Events : DepositMoves(e)  BY <2>4
    <3>2. scope \in [stage : Stages, clicks : Nat, events : Nat]  BY DEF FiatTypeOK
    <3>3. scope.events - 1 \in Nat  BY <3>1, <3>2 DEF DepositMoves
    <3>4. scope' \in [stage : Stages, clicks : Nat, events : Nat]
      BY <3>1, <3>2, <3>3 DEF DepositMoves
    <3> QED  BY <1>k, <2>1, <3>1, <3>4 DEF DepositMoves, FiatTypeOK
  <2>5. CASE ApiStops  BY <1>u, <2>5 DEF ApiStops
  <2> QED  BY <2>2, <2>3, <2>4, <2>5
<1>a. CASE ApiStops
  <2>1. req' \in [Tasks -> RequestAt]  BY <1>a, NoRequestType DEF ApiStops
  <2>2. RequestsOK'  BY <1>a, NoRequestType, PlainOK DEF ApiStops, RequestsOK
  <2> QED  BY <1>a, <1>k, <2>1, <2>2, FaultType DEF ApiStops, FiatTypeOK
<1> QED  BY <1>u, <1>a DEF SyncWallet, LinkMoves, DepositMoves

-----------------------------------------------------------------------------
(* The rails. *)

LEMMA AskRailStep ==
  ASSUME FiatInv, NEW t \in Tasks, NEW r \in Rails, NEW b \in Banks \cup {"none"},
         AskRail(t, r, b)
  PROVE  FiatInv'
<1> USE DEF FiatInv, bridgeVars, railVars, depositVars
<1>1. PICK q \in RequestAt :
        /\ q = [NoRequest EXCEPT !.step = "look", !.rail = r, !.bank = b, !.address = address]
        /\ q.step = "look" /\ q.rail = r
  <2> DEFINE x == [NoRequest EXCEPT !.step = "look", !.rail = r, !.bank = b, !.address = address]
  <2>1. address \in BOOLEAN  BY DEF FiatTypeOK
  <2>2. x \in RequestAt  BY <2>1, NoRequestType DEF RequestAt, Steps
  <2>3. x.step = "look" /\ x.rail = r  BY DEF NoRequest
  <2> QED  BY <2>2, <2>3
<1>2. req' = [req EXCEPT ![t] = q]  BY <1>1 DEF AskRail, Begin
<1>k. Kept /\ RailsOK'  BY RailsStay DEF AskRail
<1>3. RequestOK(q)'  BY <1>1 DEF RequestOK, EventSteps
<1>4. req' \in [Tasks -> RequestAt] /\ RequestsOK'  BY <1>k, <1>1, <1>2, <1>3, OneMoves
<1> QED  BY <1>k, <1>4, ScopeType DEF AskRail, FiatTypeOK

LEMMA StepMoves ==
  ASSUME FiatTypeOK, RequestsOK, Kept, NEW t \in Tasks, NEW step \in Steps, GoTo(t, step),
         step \in {"look", "call"} => req[t].rail \in Rails,
         step = "needBank" => req[t].rail = "liq",
         step \in {"gate", "call"} /\ req[t].rail = "liq" => req[t].num = 1 /\ stored'["ext"] = 1,
         step # "insert",
         step \in EventSteps => \E e \in Events : req[t].events = {e}
  PROVE  req' \in [Tasks -> RequestAt] /\ RequestsOK'
<1>1. PICK q \in RequestAt :
        /\ q = [req[t] EXCEPT !.step = step] /\ q.step = step
        /\ q.rail = req[t].rail /\ q.num = req[t].num /\ q.events = req[t].events
  BY StepChanged
<1>2. req' = [req EXCEPT ![t] = q]  BY <1>1 DEF GoTo
<1>3. RequestOK(q)'  BY <1>1 DEF RequestOK
<1> QED  BY <1>1, <1>2, <1>3, OneMoves

LEMMA LookStep ==
  ASSUME FiatInv, NEW t \in Tasks, Look(t) \/ NeedBank(t) \/ Gate(t)
  PROVE  FiatInv'
<1> USE DEF FiatInv, bridgeVars, railVars, depositVars
<1>k. Kept /\ RailsOK'  BY RailsStay DEF Look, NeedBank, Gate
<1>r. req[t] \in RequestAt /\ RequestOK(req[t])  BY DEF FiatTypeOK, RequestsOK
<1>1. CASE Look(t)
  <2>1. req[t].rail \in Rails  BY <1>1, <1>r DEF Look, At, RequestOK
  <2>2. CASE Finish(t)  BY <1>1, <1>k, <2>2, Finishes DEF Look, FiatTypeOK
  <2>3. CASE req[t].rail = "liq" /\ GoTo(t, "needBank")
    <3>1. req' \in [Tasks -> RequestAt] /\ RequestsOK'
      BY <1>k, <2>3, StepMoves DEF Steps, EventSteps
    <3> QED  BY <1>1, <1>k, <3>1 DEF Look, FiatTypeOK
  <2>4. CASE req[t].rail # "liq" /\ GoTo(t, "gate")
    <3>1. req' \in [Tasks -> RequestAt] /\ RequestsOK'
      BY <1>k, <2>4, StepMoves DEF Steps, EventSteps
    <3> QED  BY <1>1, <1>k, <3>1 DEF Look, FiatTypeOK
  <2> QED  BY <1>1, <2>2, <2>3, <2>4 DEF Look
<1>2. CASE NeedBank(t)
  <2>1. CASE Finish(t)  BY <1>2, <1>k, <2>1, Finishes DEF NeedBank, FiatTypeOK
  <2>2. CASE stored["ext"] # 0
    <3>1. stored["ext"] = 1  BY <2>2 DEF RailsOK, Rails, FiatTypeOK
    <3>2. PICK q \in RequestAt :
            /\ q = [req[t] EXCEPT !.step = "gate", !.num = stored["ext"]]
            /\ q.step = "gate" /\ q.num = 1
      <4> DEFINE x == [req[t] EXCEPT !.step = "gate", !.num = stored["ext"]]
      <4>a. stored["ext"] \in Nat /\ "gate" \in Steps  BY <3>1 DEF Steps
      <4>1. x \in RequestAt  BY <1>r, <4>a DEF RequestAt
      <4>2. x.step = "gate" /\ x.num = 1  BY <1>r, <3>1 DEF RequestAt
      <4> QED  BY <4>1, <4>2
    <3>3. req' = [req EXCEPT ![t] = q]  BY <1>2, <2>2, <3>2 DEF NeedBank, FiatTypeOK
    <3>4. RequestOK(q)'  BY <1>k, <3>1, <3>2 DEF RequestOK, EventSteps, Kept
    <3>5. req' \in [Tasks -> RequestAt] /\ RequestsOK'
      BY <1>k, <3>2, <3>3, <3>4, OneMoves
    <3> QED  BY <1>2, <1>k, <3>5 DEF NeedBank, FiatTypeOK
  <2> QED  BY <1>2, <2>1, <2>2 DEF NeedBank
<1>3. CASE Gate(t)
  <2>1. CASE Finish(t)  BY <1>3, <1>k, <2>1, Finishes DEF Gate, FiatTypeOK
  <2>2. CASE GoTo(t, "history")
    <3>1. req' \in [Tasks -> RequestAt] /\ RequestsOK'
      BY <1>k, <2>2, PlainStep DEF Plain
    <3> QED  BY <1>3, <1>k, <3>1 DEF Gate, FiatTypeOK
  <2>3. CASE req[t].rail # "none" /\ GoTo(t, "call")
    <3>1. req[t].rail \in Rails  BY <1>r, <2>3 DEF RequestAt
    <3>2. req[t].rail = "liq" => req[t].num = 1 /\ stored'["ext"] = 1
      BY <1>3, <1>k, <1>r DEF Gate, At, RequestOK, Kept
    <3>3. req' \in [Tasks -> RequestAt] /\ RequestsOK'
      BY <1>k, <2>3, <3>1, <3>2, StepMoves DEF Steps, EventSteps
    <3> QED  BY <1>3, <1>k, <3>3 DEF Gate, FiatTypeOK
  <2> QED  BY <1>3, <2>1, <2>2, <2>3 DEF Gate
<1> QED  BY <1>1, <1>2, <1>3

LEMMA OneObject ==
  ASSUME FiatInv, NEW r \in Rails
  PROVE  /\ made[r] \in Seq(Banks \cup {"none"}) /\ stored[r] \in Nat
         /\ made[r] # <<>> => Len(made[r]) = 1
<1>1. made[r] \in Seq(Banks \cup {"none"}) /\ stored[r] \in Nat
  BY DEF FiatInv, FiatTypeOK
<1>2. Len(made[r]) <= 1  BY DEF FiatInv, RailsOK
<1>3. Len(made[r]) \in Nat /\ (made[r] # <<>> => Len(made[r]) # 0)  BY <1>1
<1>4. Len(made[r]) # 0 => Len(made[r]) = 1
  <2>1. \A n \in Nat : n <= 1 /\ n # 0 => n = 1  OBVIOUS
  <2> QED  BY <1>2, <1>3, <2>1, Zenon
<1> QED  BY <1>1, <1>3, <1>4, Zenon

(* What a call leaves at Bridge: one object, and for a liquidation address *)
(* the one that pays out to the bank account.                              *)
LEMMA CreatedFact ==
  ASSUME FiatInv, NEW t \in Tasks, At(t, "call")
  PROVE  /\ req[t].rail \in Rails
         /\ Created(t) \in Seq(Banks \cup {"none"}) /\ Len(Created(t)) = 1
         /\ req[t].rail = "liq" => stored["ext"] = 1 /\ Created(t)[1] = made["ext"][1]
<1> USE DEF FiatInv
<1>r. req[t] \in RequestAt /\ RequestOK(req[t])  BY DEF FiatTypeOK, RequestsOK
<1>1. req[t].rail \in Rails  BY <1>r DEF At, RequestOK
<1>2. req[t].rail = "liq" => stored["ext"] = 1 /\ Content(t) = made["ext"][1]
  BY <1>r DEF At, RequestOK, Content
<1>3. \A r \in Rails : /\ made[r] \in Seq(Banks \cup {"none"})
                       /\ made[r] # <<>> => Len(made[r]) = 1
  BY OneObject
<1>4. stored["ext"] = 1 => made["ext"][1] \in Banks \cup {"none"}
  BY <1>3 DEF RailsOK, Rails
<1>5. Content(t) \in Banks \cup {"none"}
  BY <1>r, <1>2, <1>4 DEF Content, RequestAt
<1>6. CASE made[req[t].rail] = <<>>
  <2>1. Created(t) = <<Content(t)>>  BY <1>6 DEF Created
  <2> QED  BY <1>1, <1>2, <1>5, <2>1
<1>7. CASE made[req[t].rail] # <<>>
  <2>1. Created(t) = made[req[t].rail]  BY <1>7 DEF Created
  <2> QED  BY <1>1, <1>2, <1>3, <1>7, <2>1 DEF RailsOK
<1> QED  BY <1>6, <1>7

LEMMA MadeKept ==
  ASSUME FiatInv, NEW t \in Tasks, At(t, "call"), UNCHANGED stored,
         made' = [made EXCEPT ![req[t].rail] = Created(t)]
  PROVE  Kept /\ RailsOK' /\ made' \in [Rails -> Seq(Banks \cup {"none"})]
<1> USE DEF FiatInv
<1> DEFINE r == req[t].rail
<1>0. /\ r \in Rails /\ Created(t) \in Seq(Banks \cup {"none"}) /\ Len(Created(t)) = 1
      /\ r = "liq" => stored["ext"] = 1 /\ Created(t)[1] = made["ext"][1]
  BY CreatedFact
<1>m. made \in [Rails -> Seq(Banks \cup {"none"})]  BY DEF FiatTypeOK
<1>1. \A x \in Rails : made'[x] = IF x = r THEN Created(t) ELSE made[x]
  BY <1>m
<1>2. made' \in [Rails -> Seq(Banks \cup {"none"})]  BY <1>0 DEF FiatTypeOK
<1>3. Created(t) # <<>>  BY <1>0
<1>4. Kept  BY <1>1, <1>3 DEF Kept
<1>5. \A x \in Rails : Len(made'[x]) <= 1 /\ stored'[x] <= Len(made'[x])
  <2>1. SUFFICES ASSUME NEW x \in Rails
                 PROVE  Len(made'[x]) <= 1 /\ stored'[x] <= Len(made'[x])
    OBVIOUS
  <2>2. Len(made[x]) <= 1 /\ stored[x] <= Len(made[x])  BY DEF RailsOK
  <2>3. stored'[x] = stored[x]  OBVIOUS
  <2>4. CASE x = r
    <3>1. made'[x] = Created(t)  BY <1>1, <2>4
    <3>2. Len(made[x]) \in Nat /\ stored[x] \in Nat  BY OneObject
    <3>3. stored[x] <= 1
      <4>1. \A n, k \in Nat : n <= k /\ k <= 1 => n <= 1  OBVIOUS
      <4> QED  BY <2>2, <3>2, <4>1, Zenon
    <3>4. Len(made'[x]) = 1 /\ 1 <= 1  BY <1>0, <3>1
    <3> QED  BY <2>3, <3>3, <3>4, Zenon
  <2>5. CASE x # r
    <3>1. made'[x] = made[x]  BY <1>1, <2>5
    <3> QED  BY <2>2, <2>3, <3>1, Zenon
  <2> QED  BY <2>4, <2>5
<1>6. ASSUME made'["liq"] # <<>>
      PROVE  stored'["ext"] = 1 /\ made'["liq"][1] = made'["ext"][1]
  <2>1. CASE r = "liq"
    <3>1. made'["liq"] = Created(t) /\ made'["ext"] = made["ext"]  BY <1>1, <2>1 DEF Rails
    <3> QED  BY <1>0, <2>1, <3>1
  <2>2. CASE r # "liq"
    <3>1. made'["liq"] = made["liq"]  BY <1>1, <2>2 DEF Rails
    <3>2. stored["ext"] = 1 /\ made["liq"][1] = made["ext"][1]  BY <1>6, <3>1 DEF RailsOK
    <3>3. made["ext"] # <<>>  BY <3>2 DEF RailsOK, Rails, FiatTypeOK
    <3>4. made'["ext"] = made["ext"]  BY <1>1, <3>3 DEF Created, Rails
    <3> QED  BY <3>1, <3>2, <3>4
  <2> QED  BY <2>1, <2>2
<1> QED  BY <1>2, <1>4, <1>5, <1>6 DEF RailsOK

LEMMA CallStep ==
  ASSUME FiatInv, NEW t \in Tasks, CallBridge(t) \/ CallFails(t) \/ Insert(t)
  PROVE  FiatInv'
<1> USE DEF FiatInv, bridgeVars, railVars, depositVars
<1>r. req[t] \in RequestAt /\ RequestOK(req[t])  BY DEF FiatTypeOK, RequestsOK
<1>1. CASE CallBridge(t)
  <2>k. Kept /\ RailsOK' /\ made' \in [Rails -> Seq(Banks \cup {"none"})]
    BY <1>1, MadeKept DEF CallBridge
  <2>1. req[t].rail \in Rails /\ Len(Created(t)) = 1  BY <1>1, CreatedFact DEF CallBridge
  <2>2. made'[req[t].rail] = Created(t)  BY <1>1, <2>1 DEF CallBridge, FiatTypeOK
  <2>3. PICK q \in RequestAt :
          /\ q = [req[t] EXCEPT !.step = "insert", !.num = Len(Created(t))]
          /\ q.step = "insert" /\ q.num = 1 /\ q.rail = req[t].rail
    <3> DEFINE x == [req[t] EXCEPT !.step = "insert", !.num = Len(Created(t))]
    <3>a. Len(Created(t)) \in Nat /\ "insert" \in Steps  BY <2>1 DEF Steps
    <3>1. x \in RequestAt  BY <1>r, <3>a DEF RequestAt
    <3>2. x.step = "insert" /\ x.num = 1 /\ x.rail = req[t].rail
      BY <1>r, <2>1 DEF RequestAt
    <3> QED  BY <3>1, <3>2
  <2>4. req' = [req EXCEPT ![t] = q]  BY <1>1, <2>3 DEF CallBridge, FiatTypeOK
  <2>a. Created(t) # <<>>
    <3>1. Len(<<>>) = 0  OBVIOUS
    <3>2. Created(t) = <<>> => Len(Created(t)) = Len(<<>>)  BY Zenon
    <3> QED  BY <2>1, <3>1, <3>2
  <2>5. made'[q.rail] # <<>>  BY <2>2, <2>3, <2>a
  <2>6. RequestOK(q)'  BY <2>1, <2>3, <2>5 DEF RequestOK, EventSteps
  <2>7. req' \in [Tasks -> RequestAt] /\ RequestsOK'  BY <2>k, <2>3, <2>4, <2>6, OneMoves
  <2> QED  BY <1>1, <2>k, <2>7 DEF CallBridge, FiatTypeOK
<1>2. CASE CallFails(t)
  <2>k. Kept /\ RailsOK' /\ made' \in [Rails -> Seq(Banks \cup {"none"})]
    <3>1. CASE made' = made  BY <1>2, <3>1, RailsStay DEF CallFails, FiatTypeOK
    <3>2. CASE made' # made  BY <1>2, <3>2, MadeKept DEF CallFails
    <3> QED  BY <3>1, <3>2
  <2>1. req' \in [Tasks -> RequestAt] /\ RequestsOK'
    BY <1>2, <2>k, Finishes DEF CallFails
  <2> QED  BY <1>2, <2>k, <2>1, FaultType DEF CallFails, FiatTypeOK
<1>3. CASE Insert(t)
  <2>1. req[t].rail \in Rails /\ req[t].num = 1 /\ made[req[t].rail] # <<>>
    BY <1>3, <1>r DEF Insert, At, RequestOK
  <2>2. stored \in [Rails -> Nat]  BY DEF FiatTypeOK
  <2>3. Len(made[req[t].rail]) = 1  BY <2>1, OneObject
  <2>4. stored' \in [Rails -> Nat]  BY <1>3, <2>1, <2>2 DEF Insert
  <2>5. \A r \in Rails : stored'[r] = stored[r] \/ (r = req[t].rail /\ stored[r] = 0 /\ stored'[r] = 1)
    BY <1>3, <2>1, <2>2 DEF Insert
  <2>6. Kept  BY <1>3, <2>5 DEF Insert, Kept, Rails
  <2>7. RailsOK'  BY <1>3, <2>3, <2>5 DEF Insert, RailsOK, Rails
  <2>8. req' \in [Tasks -> RequestAt] /\ RequestsOK'  BY <1>3, <2>6, Finishes DEF Insert
  <2> QED  BY <1>3, <2>4, <2>7, <2>8 DEF Insert, FiatTypeOK
<1> QED  BY <1>1, <1>2, <1>3

-----------------------------------------------------------------------------
(* The webhooks and the tracker. *)

LEMMA BeginStep ==
  ASSUME FiatInv, NEW t \in Tasks,
         Track(t) \/ \E e \in Events : Deliver(t, e)
  PROVE  FiatInv'
<1> USE DEF FiatInv, bridgeVars, railVars, depositVars
<1>k. Kept /\ RailsOK'  BY RailsStay DEF Track, Deliver
<1>n. NoRequest \in RequestAt /\ NoRequest.rail = "none"  BY NoRequestType DEF NoRequest
<1>1. CASE Track(t)
  <2>1. PICK q \in RequestAt :
          q = [NoRequest EXCEPT !.step = "gate"] /\ q.step = "gate" /\ q.rail = "none"
    <3>1. [NoRequest EXCEPT !.step = "gate"] \in RequestAt  BY <1>n DEF RequestAt, Steps
    <3>2. /\ [NoRequest EXCEPT !.step = "gate"].step = "gate"
          /\ [NoRequest EXCEPT !.step = "gate"].rail = "none"
      BY DEF NoRequest
    <3> QED  BY <3>1, <3>2
  <2>2. RequestOK(q)'  BY <2>1 DEF RequestOK, EventSteps
  <2>3. req' \in [Tasks -> RequestAt] /\ RequestsOK'
    BY <1>1, <1>k, <2>1, <2>2, OneMoves DEF Track, Begin
  <2> QED  BY <1>1, <1>k, <2>3 DEF Track, FiatTypeOK
<1>2. ASSUME NEW e \in Events, Deliver(t, e) PROVE FiatInv'
  <2> DEFINE x == [NoRequest EXCEPT !.step = "receive", !.events = {e}]
  <2>1. PICK q \in RequestAt : q = x /\ q.step = "receive" /\ q.events = {e}
    <3>1. x \in RequestAt  BY <1>n DEF RequestAt, Steps
    <3>2. x.step = "receive" /\ x.events = {e}  BY DEF NoRequest
    <3> QED  BY <3>1, <3>2
  <2>2. RequestOK(q)'  BY <2>1 DEF RequestOK, EventSteps
  <2>3. req' \in [Tasks -> RequestAt] /\ RequestsOK'
    BY <1>2, <1>k, <2>1, <2>2, OneMoves DEF Deliver, Begin
  <2> QED  BY <1>2, <1>k, <2>3 DEF Deliver, FiatTypeOK
<1> QED  BY <1>1, <1>2

LEMMA EventFact ==
  ASSUME FiatInv, NEW t \in Tasks, req[t].step \in EventSteps
  PROVE  /\ \E e \in Events : req[t].events = {e} /\ NoticeOf(t) = Notice(e)
         /\ NoticeOf(t) \subseteq Notices
<1>1. PICK e \in Events : req[t].events = {e}  BY DEF FiatInv, RequestsOK, RequestOK
<1>2. NoticeOf(t) = Notice(e)  BY <1>1 DEF NoticeOf
<1>3. Notice(e) \subseteq Notices  BY DEF Notice, Notices, Events
<1> QED  BY <1>1, <1>2, <1>3

LEMMA WebhookStep ==
  ASSUME FiatInv, NEW t \in Tasks,
         Receive(t) \/ RecordEvent(t) \/ MirrorEvent(t) \/ LookClaim(t) \/ Claim(t) \/ Mail(t)
  PROVE  FiatInv'
<1> USE DEF FiatInv, bridgeVars, railVars, depositVars
<1>k. Kept /\ RailsOK'
  BY RailsStay DEF Receive, RecordEvent, MirrorEvent, LookClaim, Claim, Mail
<1>e. \E e \in Events : req[t].events = {e}
  BY EventFact DEF EventSteps, At, Receive, RecordEvent, MirrorEvent, LookClaim, Claim, Mail
<1>n. NoticeOf(t) \subseteq Notices
  BY EventFact DEF EventSteps, At, Receive, RecordEvent, MirrorEvent, LookClaim, Claim, Mail
<1>s. ASSUME NEW step \in EventSteps, GoTo(t, step)
      PROVE  req' \in [Tasks -> RequestAt] /\ RequestsOK'
  <2>1. step \in Steps /\ step \notin {"look", "call", "needBank", "gate", "insert"}
    BY DEF EventSteps, Steps
  <2> QED  BY <1>k, <1>e, <1>s, <2>1, StepMoves
<1>q. req' \in [Tasks -> RequestAt] /\ RequestsOK'
  BY <1>k, <1>s, Finishes
     DEF EventSteps, Receive, RecordEvent, MirrorEvent, LookClaim, Claim, Mail
<1>1. CASE Receive(t)  BY <1>k, <1>q, <1>1 DEF Receive, FiatTypeOK
<1>2. CASE RecordEvent(t)  BY <1>k, <1>e, <1>q, <1>2 DEF RecordEvent, FiatTypeOK
<1>3. CASE MirrorEvent(t)  BY <1>k, <1>e, <1>q, <1>3 DEF MirrorEvent, FiatTypeOK
<1>4. CASE LookClaim(t)
  <2>1. raced' \subseteq Notices  BY <1>n, <1>4 DEF LookClaim, FiatTypeOK
  <2> QED  BY <1>k, <1>q, <1>4, <2>1 DEF LookClaim, FiatTypeOK
<1>5. CASE Claim(t)  BY <1>k, <1>n, <1>q, <1>5 DEF Claim, FiatTypeOK
<1>6. CASE Mail(t)
  <2>1. mails' \in [Notices -> Nat]  BY <1>6 DEF Mail, FiatTypeOK
  <2> QED  BY <1>k, <1>q, <1>6, <2>1 DEF Mail, FiatTypeOK
<1> QED  BY <1>1, <1>2, <1>3, <1>4, <1>5, <1>6

LEMMA TrackerStep ==
  ASSUME FiatInv, NEW t \in Tasks,
         ReadHistory(t) \/ CompareMirror(t) \/ Reconcile(t)
  PROVE  FiatInv'
<1> USE DEF FiatInv, bridgeVars, railVars, depositVars
<1>k. Kept /\ RailsOK'  BY RailsStay DEF ReadHistory, CompareMirror, Reconcile
<1>r. req[t] \in RequestAt /\ req[t].events \subseteq Events  BY DEF FiatTypeOK, RequestAt
<1>s. ASSUME NEW step \in Plain, NEW E \in SUBSET Events,
             req' = [req EXCEPT ![t] = [req[t] EXCEPT !.step = step, !.events = E]]
      PROVE  req' \in [Tasks -> RequestAt] /\ RequestsOK'
  <2> DEFINE x == [req[t] EXCEPT !.step = step, !.events = E]
  <2>0. step \in Steps  BY DEF Plain, Steps
  <2>1. x \in RequestAt /\ x.step \in Plain  BY <1>r, <2>0 DEF RequestAt
  <2>2. req' = [req EXCEPT ![t] = x]  BY <1>s
  <2> HIDE DEF x
  <2> QED  BY <1>k, <2>1, <2>2, PlainOK, OneMoves
<1>1. CASE ReadHistory(t)
  <2>1. history \in SUBSET Events  BY DEF FiatTypeOK
  <2>2. req' \in [Tasks -> RequestAt] /\ RequestsOK'
    <3>1. CASE Finish(t)  BY <1>k, <3>1, Finishes
    <3>2. CASE req' = [req EXCEPT ![t].step = "compare", ![t].events = history]
      <4>1. req' = [req EXCEPT ![t] = [req[t] EXCEPT !.step = "compare", !.events = history]]
        BY <3>2 DEF FiatTypeOK
      <4> QED  BY <1>s, <2>1, <4>1 DEF Plain
    <3> QED  BY <1>1, <3>1, <3>2 DEF ReadHistory
  <2> QED  BY <1>1, <1>k, <2>2, FaultType DEF ReadHistory, FiatTypeOK
<1>2. CASE CompareMirror(t)
  <2> DEFINE E == req[t].events \ mirror
  <2>1. E \in SUBSET Events  BY <1>r
  <2>2. req' = [req EXCEPT ![t] = [req[t] EXCEPT !.step = "reconcile", !.events = E]]
    BY <1>2 DEF CompareMirror, FiatTypeOK
  <2> HIDE DEF E
  <2>3. req' \in [Tasks -> RequestAt] /\ RequestsOK'  BY <1>s, <2>1, <2>2 DEF Plain
  <2> QED  BY <1>2, <1>k, <2>3 DEF CompareMirror, FiatTypeOK
<1>3. CASE Reconcile(t)
  <2>1. req' \in [Tasks -> RequestAt] /\ RequestsOK'
    BY <1>3, <1>k, Finishes DEF Reconcile
  <2>2. mirror' \subseteq Events  BY <1>3, <1>r DEF Reconcile, FiatTypeOK
  <2> QED  BY <1>3, <1>k, <2>1, <2>2, FaultType DEF Reconcile, FiatTypeOK
<1> QED  BY <1>1, <1>2, <1>3

-----------------------------------------------------------------------------
(* Every step keeps the invariant. *)

LEMMA InitInv == FiatInit => FiatInv
<1> SUFFICES ASSUME FiatInit PROVE FiatInv
  OBVIOUS
<1>1. scope \in [stage : Stages, clicks : Nat, events : Nat]
  BY FiatAssumption DEF FiatInit
<1>2. link \in Statuses /\ customer \in Statuses
  BY DEF FiatInit, NoStatus, Statuses, Kyc, Tos
<1>3. \A r \in Rails : \/ made[r] = <<>> /\ stored[r] = 0
                       \/ r = "va" /\ made[r] = <<"none">> /\ stored[r] = 1
  BY DEF FiatInit
<1>4. made \in [Rails -> Seq(Banks \cup {"none"})] /\ stored \in [Rails -> Nat]
  <2>1. \A r \in Rails : made[r] \in Seq(Banks \cup {"none"}) /\ stored[r] \in Nat
    <3>1. <<>> \in Seq(Banks \cup {"none"}) /\ <<"none">> \in Seq(Banks \cup {"none"})
      OBVIOUS
    <3>2. 0 \in Nat /\ 1 \in Nat  OBVIOUS
    <3> QED  BY <1>3, <3>1, <3>2, Zenon
  <2>2. made = [r \in Rails |-> made[r]] /\ stored = [r \in Rails |-> stored[r]]
    BY DEF FiatInit
  <2> QED  BY <2>1, <2>2
<1>5. RequestsOK
  BY DEF FiatInit, RequestsOK, RequestOK, NoRequest, EventSteps
<1>6. RailsOK
  <2>1. \A r \in Rails : Len(made[r]) <= 1 /\ stored[r] <= Len(made[r])
    <3>1. Len(<<>>) = 0 /\ Len(<<"none">>) = 1  OBVIOUS
    <3>2. 0 <= 0 /\ 0 <= 1 /\ 1 <= 1  OBVIOUS
    <3> QED  BY <1>3, <3>1, <3>2, Zenon
  <2> QED  BY <1>3, <2>1 DEF RailsOK, Rails
<1>7. FiatTypeOK
  BY <1>1, <1>2, <1>4, NoRequestType, FiatAssumption
     DEF FiatInit, FiatTypeOK, Notices, Shows
<1> QED  BY <1>5, <1>6, <1>7 DEF FiatInv

LEMMA StepInv == FiatInv /\ [FiatNext]_fiatVars => FiatInv'
<1> SUFFICES ASSUME FiatInv, [FiatNext]_fiatVars PROVE FiatInv'
  OBVIOUS
<1>1. CASE UNCHANGED fiatVars
  BY <1>1 DEF fiatVars, bridgeVars, railVars, depositVars, FiatInv, FiatTypeOK,
              RequestsOK, RequestOK, RailsOK
<1>2. ASSUME NEW t \in Tasks, Serve(t) PROVE FiatInv'
  BY <1>2, VerificationStep, LookStep, CallStep, WebhookStep, TrackerStep DEF Serve
<1> QED
  BY <1>1, <1>2, VerificationStep, AskRailStep, BeginStep, OutsideStep DEF FiatNext

LEMMA AlwaysInv == FiatSpec => []FiatInv
BY InitInv, StepInv, PTL DEF FiatSpec

(* Every request, row, object and event keeps its type (FiatTypeOK): what  *)
(* a liquidation address is made of is the bank account that has a row.    *)
THEOREM FiatTypeCorrect == FiatSpec => []FiatTypeOK
<1>1. FiatInv => FiatTypeOK  BY DEF FiatInv
<1> QED  BY <1>1, AlwaysInv, PTL

(* Bridge never has two objects of a rail and the rows never name another  *)
(* than the one it has (RailsAgree), for any number of tabs, banks and     *)
(* lost answers: the keys of routes/ramp.ts never change, so what a retry  *)
(* inserts is what the first call made, and what an address pays out to is *)
(* the bank account of the row.                                            *)
THEOREM RailsNeverDiverge == FiatSpec => []RailsAgree
<1>1. FiatInv => RailsAgree
  <2> SUFFICES ASSUME FiatInv PROVE RailsAgree
    OBVIOUS
  <2>1. \A r \in Rails : Len(made[r]) <= 1 /\ stored[r] <= Len(made[r])
    BY DEF FiatInv, RailsOK
  <2>2. ASSUME stored["liq"] # 0
        PROVE  stored["ext"] # 0 /\ made["liq"][stored["liq"]] = made["ext"][stored["ext"]]
    <3>1. "liq" \in Rails  BY DEF Rails
    <3>2. made["liq"] # <<>> /\ stored["liq"] = 1
      BY <2>1, <2>2, <3>1, OneObject
    <3> QED  BY <3>2 DEF FiatInv, RailsOK
  <2> QED  BY <2>1, <2>2 DEF RailsAgree
<1> QED  BY <1>1, AlwaysInv, PTL

-----------------------------------------------------------------------------
(* MailedOnce.  Of a notice no two webhooks raced for: who is about to     *)
(* claim it is alone and finds no claim, who is about to mail holds the    *)
(* claim alone and no mail has gone out.                                   *)

Late == {"claim", "mail"}

(* Nobody comes to claim or to mail. *)
Quiet ==
  \A u \in Tasks : req'[u].step \in Late =>
    req'[u].step = req[u].step /\ req'[u].events = req[u].events

LEMMA QuietKeeps ==
  ASSUME ClaimsOK, Quiet, UNCHANGED <<claims, mails, raced>>
  PROVE  ClaimsOK'
<1>1. \A u \in Tasks : req'[u].step \in Late =>
        req'[u].step = req[u].step /\ NoticeOf(u)' = NoticeOf(u)
  BY DEF Quiet, NoticeOf
<1> QED  BY <1>1 DEF ClaimsOK, At, Late

LEMMA OneQuiet ==
  ASSUME FiatTypeOK, NEW t \in Tasks, NEW q, q.step \notin Late, req' = [req EXCEPT ![t] = q]
  PROVE  Quiet
<1>1. \A u \in Tasks : req'[u] = IF u = t THEN q ELSE req[u]  BY DEF FiatTypeOK
<1> QED  BY <1>1 DEF Quiet

LEMMA FinishQuiet == ASSUME FiatTypeOK, NEW t \in Tasks, Finish(t) PROVE Quiet
BY OneQuiet DEF Finish, NoRequest, Late

LEMMA StepQuiet ==
  ASSUME FiatTypeOK, NEW t \in Tasks, NEW step \in Steps \ Late, GoTo(t, step)
  PROVE  Quiet
<1> DEFINE q == [req[t] EXCEPT !.step = step]
<1>1. q.step = step  BY StepChanged
<1>2. req' = [req EXCEPT ![t] = q]  BY DEF GoTo
<1> HIDE DEF q
<1> QED  BY <1>1, <1>2, OneQuiet

(* The steps that read, the ones that begin, and those of Bridge.          *)
LEMMA VerificationQuiet ==
  ASSUME FiatTypeOK, NEW t \in Tasks,
         LoadPage(t) \/ StartVerification(t) \/ CreateLink(t) \/ InsertCustomer(t)
         \/ Poll(t) \/ AskBridge(t) \/ UpdateStatus(t) \/ Reread(t) \/ Answer(t)
  PROVE  Quiet
<1>r. \A u \in Tasks : req[u] \in RequestAt  BY DEF FiatTypeOK
<1>f. ASSUME NEW step \in Plain PROVE FromPage(step).step \notin Late
  BY FromPageType DEF Plain, Late
<1>g. ASSUME NEW step \in Plain, NEW got \in Statuses,
             req' = [req EXCEPT ![t].step = step, ![t].got = got]
      PROVE  Quiet
  <2> DEFINE q == [req[t] EXCEPT !.step = step, !.got = got]
  <2>1. q.step \notin Late  BY GotChanged DEF Plain, Late
  <2>2. req' = [req EXCEPT ![t] = q]  BY <1>g DEF FiatTypeOK
  <2> HIDE DEF q
  <2> QED  BY <2>1, <2>2, OneQuiet
<1>1. CASE LoadPage(t)
  <2>1. ASSUME NEW u \in Tasks, req'[u].step \in Late
        PROVE  req'[u].step = req[u].step /\ req'[u].events = req[u].events
    <3>1. u # t  BY <1>1, <1>f, <2>1 DEF LoadPage, Plain
    <3>2. req'[u] = [req[u] EXCEPT !.heard = FALSE]  BY <1>1, <3>1 DEF LoadPage
    <3> QED  BY <1>r, <3>2 DEF RequestAt
  <2> QED  BY <2>1 DEF Quiet
<1>2. CASE StartVerification(t)
  BY <1>2, <1>f, OneQuiet DEF StartVerification, Begin, Plain
<1>3. CASE CreateLink(t)
  <2>1. link' \in Statuses
    BY <1>3 DEF CreateLink, FiatTypeOK, Statuses, Kyc, Tos
  <2> QED  BY <1>3, <1>g, <2>1, FinishQuiet DEF CreateLink, Plain
<1>4. CASE InsertCustomer(t)
  BY <1>4, StepQuiet, FinishQuiet DEF InsertCustomer, Steps, Late
<1>5. CASE Poll(t)  BY <1>5, <1>f, OneQuiet DEF Poll, Begin, Plain
<1>6. CASE AskBridge(t)
  BY <1>6, <1>g, FinishQuiet DEF AskBridge, Plain, FiatTypeOK
<1>7. CASE UpdateStatus(t)  BY <1>7, StepQuiet DEF UpdateStatus, Steps, Late
<1>8. CASE Reread(t)  BY <1>8, <1>g DEF Reread, Plain, FiatTypeOK
<1>9. CASE Answer(t)  BY <1>9, FinishQuiet DEF Answer
<1> QED  BY <1>1, <1>2, <1>3, <1>4, <1>5, <1>6, <1>7, <1>8, <1>9

LEMMA OtherQuiet ==
  ASSUME FiatTypeOK, NEW t \in Tasks,
         \/ Look(t) \/ NeedBank(t) \/ Gate(t) \/ CallBridge(t) \/ CallFails(t) \/ Insert(t)
         \/ Receive(t) \/ RecordEvent(t) \/ MirrorEvent(t)
         \/ ReadHistory(t) \/ CompareMirror(t) \/ Reconcile(t) \/ Track(t)
         \/ \E r \in Rails, b \in Banks \cup {"none"} : AskRail(t, r, b)
         \/ \E e \in Events : Deliver(t, e)
  PROVE  Quiet
<1>r. req[t] \in RequestAt /\ req \in [Tasks -> RequestAt]  BY DEF FiatTypeOK
<1>m. ASSUME NEW step \in Steps \ Late, NEW x,
             \/ req' = [req EXCEPT ![t].step = step, ![t].num = x]
             \/ req' = [req EXCEPT ![t].step = step, ![t].events = x]
      PROVE  Quiet
  <2>1. CASE req' = [req EXCEPT ![t].step = step, ![t].num = x]
    <3> DEFINE q == [req[t] EXCEPT !.step = step, !.num = x]
    <3>1. q.step = step  BY <1>r DEF RequestAt
    <3>2. req' = [req EXCEPT ![t] = q]  BY <1>r, <2>1
    <3> HIDE DEF q
    <3> QED  BY <3>1, <3>2, OneQuiet
  <2>2. CASE req' = [req EXCEPT ![t].step = step, ![t].events = x]
    <3> DEFINE q == [req[t] EXCEPT !.step = step, !.events = x]
    <3>1. q.step = step  BY <1>r DEF RequestAt
    <3>2. req' = [req EXCEPT ![t] = q]  BY <1>r, <2>2
    <3> HIDE DEF q
    <3> QED  BY <3>1, <3>2, OneQuiet
  <2> QED  BY <1>m, <2>1, <2>2
<1>s. \A step \in {"needBank", "gate", "call", "history", "insert", "compare", "reconcile",
                   "record", "mirror", "lookClaim"} : step \in Steps \ Late
  BY DEF Steps, Late
<1>1. CASE Look(t) \/ Gate(t) \/ CallFails(t) \/ Insert(t) \/ Receive(t) \/ RecordEvent(t)
           \/ MirrorEvent(t) \/ Reconcile(t)
  BY <1>1, <1>s, StepQuiet, FinishQuiet
     DEF Look, Gate, CallFails, Insert, Receive, RecordEvent, MirrorEvent, Reconcile
<1>2. CASE NeedBank(t) \/ CallBridge(t) \/ ReadHistory(t)
  BY <1>2, <1>s, <1>m, FinishQuiet DEF NeedBank, CallBridge, ReadHistory
<1>3. CASE CompareMirror(t)
  <2>1. req' = [req EXCEPT ![t].step = "reconcile", ![t].events = req[t].events \ mirror]
    BY <1>3, <1>r DEF CompareMirror
  <2> QED  BY <1>s, <1>m, <2>1
<1>4. CASE Track(t) \/ (\E r \in Rails, b \in Banks \cup {"none"} : AskRail(t, r, b))
           \/ (\E e \in Events : Deliver(t, e))
  BY <1>4, OneQuiet DEF Track, AskRail, Deliver, Begin, NoRequest, Late
<1> QED  BY <1>1, <1>2, <1>3, <1>4

LEMMA Goes ==
  ASSUME FiatTypeOK, NEW t \in Tasks, NEW step \in Steps, GoTo(t, step)
  PROVE  \A u \in Tasks :
           /\ NoticeOf(u)' = NoticeOf(u)
           /\ req'[u].step = IF u = t THEN step ELSE req[u].step
<1> DEFINE q == [req[t] EXCEPT !.step = step]
<1>1. q.step = step /\ q.events = req[t].events  BY StepChanged
<1>2. \A u \in Tasks : req'[u] = IF u = t THEN q ELSE req[u]
  BY DEF GoTo, FiatTypeOK
<1> HIDE DEF q
<1> QED  BY <1>1, <1>2 DEF NoticeOf

LEMMA OneNotice ==
  ASSUME FiatInv, NEW t \in Tasks, req[t].step \in EventSteps,
         NEW m \in NoticeOf(t), NEW n \in NoticeOf(t)
  PROVE  m = n
<1>1. PICK e \in Events : NoticeOf(t) = Notice(e)  BY EventFact
<1> QED  BY <1>1 DEF Notice

LEMMA ClaimStep ==
  ASSUME FiatInv, ClaimsOK, NEW t \in Tasks, LookClaim(t) \/ Claim(t) \/ Mail(t)
  PROVE  ClaimsOK'
<1>t. FiatTypeOK  BY DEF FiatInv
<1>e. req[t].step \in EventSteps  BY DEF LookClaim, Claim, Mail, At, EventSteps
<1>n. \A m, n \in NoticeOf(t) : m = n  BY <1>e, OneNotice
<1>1. CASE LookClaim(t) /\ Finish(t)
  <2>1. UNCHANGED <<claims, mails, raced>> \/ ~ClaimedAlready(t)
    BY <1>1 DEF LookClaim
  <2>2. CASE ClaimedAlready(t)  BY <1>1, <1>t, <2>1, <2>2, FinishQuiet, QuietKeeps DEF LookClaim
  <2>3. CASE ~ClaimedAlready(t)
    <3>1. GoTo(t, "claim")  BY <1>1, <2>3 DEF LookClaim
    <3>2. req'[t].step = "claim"  BY <1>t, <3>1, Goes DEF Steps
    <3>3. req'[t].step = "idle"  BY <1>1, <1>t DEF Finish, FiatTypeOK, NoRequest
    <3> QED  BY <3>2, <3>3
  <2> QED  BY <2>2, <2>3
<1>2. CASE LookClaim(t) /\ ~Finish(t)
  <2>1. GoTo(t, "claim") /\ ~ (NoticeOf(t) \subseteq claims)  BY <1>2 DEF LookClaim, ClaimedAlready
  <2>2. \A n \in NoticeOf(t) : n \notin claims  BY <1>n, <2>1
  <2>3. UNCHANGED <<claims, mails>>  BY <1>2 DEF LookClaim
  <2>4. \A u \in Tasks : /\ NoticeOf(u)' = NoticeOf(u)
                         /\ req'[u].step = IF u = t THEN "claim" ELSE req[u].step
    BY <1>t, <2>1, Goes DEF Steps
  <2>5. raced' = raced \cup {n \in NoticeOf(t) :
                   \E u \in Tasks \ {t} : req[u].step = "claim" /\ n \in NoticeOf(u)}
    BY <1>2 DEF LookClaim, At
  <2>6. ASSUME NEW n \in Notices \ raced'
        PROVE  /\ n \notin raced
               /\ n \in NoticeOf(t) =>
                    \A u \in Tasks \ {t} : ~ (req[u].step = "claim" /\ n \in NoticeOf(u))
    BY <2>5
  <2> QED  BY <2>2, <2>3, <2>4, <2>6 DEF ClaimsOK, At
<1>3. CASE Claim(t)
  <2>1. At(t, "claim") /\ claims' = claims \cup NoticeOf(t) /\ UNCHANGED <<mails, raced>>
    BY <1>3 DEF Claim
  <2>2. \A u \in Tasks : /\ NoticeOf(u)' = NoticeOf(u)
                         /\ req'[u].step = IF u = t THEN "mail" ELSE req[u].step
    BY <1>3, <1>t, Goes DEF Claim, Steps
  <2> QED  BY <2>1, <2>2 DEF ClaimsOK, At
<1>4. CASE Mail(t)
  <2>1. At(t, "mail") /\ UNCHANGED <<claims, raced>>  BY <1>4 DEF Mail
  <2>2. \A u \in Tasks : u # t => NoticeOf(u)' = NoticeOf(u) /\ req'[u].step = req[u].step
    BY <1>4, <1>t DEF Mail, Finish, NoticeOf, FiatTypeOK
  <2>3. req'[t].step = "idle"
    BY <1>4, <1>t DEF Mail, Finish, NoRequest, FiatTypeOK
  <2>4. \A n \in Notices : n \notin NoticeOf(t) => mails'[n] = mails[n]
    BY <1>4 DEF Mail
  <2>5. \A n \in Notices : mails[n] = 0 => mails'[n] \in {0, 1}
    BY <1>4 DEF Mail
  <2> QED  BY <2>1, <2>2, <2>3, <2>4, <2>5 DEF ClaimsOK, At
<1> QED  BY <1>1, <1>2, <1>3, <1>4

LEMMA InitClaims == FiatInit => ClaimsOK
BY DEF FiatInit, ClaimsOK, At, NoRequest

LEMMA StepClaims == FiatInv /\ ClaimsOK /\ [FiatNext]_fiatVars => ClaimsOK'
<1> SUFFICES ASSUME FiatInv, ClaimsOK, [FiatNext]_fiatVars PROVE ClaimsOK'
  OBVIOUS
<1>t. FiatTypeOK  BY DEF FiatInv
<1>1. CASE UNCHANGED fiatVars
  BY <1>1, QuietKeeps DEF fiatVars, depositVars, Quiet
<1>2. ASSUME NEW t \in Tasks, LookClaim(t) \/ Claim(t) \/ Mail(t) PROVE ClaimsOK'
  BY <1>2, ClaimStep
<1>3. ASSUME NEW t \in Tasks,
             LoadPage(t) \/ StartVerification(t) \/ CreateLink(t) \/ InsertCustomer(t)
             \/ Poll(t) \/ AskBridge(t) \/ UpdateStatus(t) \/ Reread(t) \/ Answer(t)
      PROVE  ClaimsOK'
  <2>1. Quiet  BY <1>3, <1>t, VerificationQuiet
  <2>2. UNCHANGED <<claims, mails, raced>>
    BY <1>3 DEF LoadPage, StartVerification, CreateLink, InsertCustomer, Poll, AskBridge,
                UpdateStatus, Reread, Answer, depositVars
  <2> QED  BY <2>1, <2>2, QuietKeeps
<1>4. ASSUME NEW t \in Tasks,
             \/ Look(t) \/ NeedBank(t) \/ Gate(t) \/ CallBridge(t) \/ CallFails(t) \/ Insert(t)
             \/ Receive(t) \/ RecordEvent(t) \/ MirrorEvent(t)
             \/ ReadHistory(t) \/ CompareMirror(t) \/ Reconcile(t) \/ Track(t)
             \/ \E r \in Rails, b \in Banks \cup {"none"} : AskRail(t, r, b)
             \/ \E e \in Events : Deliver(t, e)
      PROVE  ClaimsOK'
  <2>1. Quiet  BY <1>4, <1>t, OtherQuiet
  <2>2. UNCHANGED <<claims, mails, raced>>
    BY <1>4 DEF Look, NeedBank, Gate, CallBridge, CallFails, Insert, Receive, RecordEvent,
                MirrorEvent, ReadHistory, CompareMirror, Reconcile, Track, AskRail, Deliver,
                depositVars
  <2> QED  BY <2>1, <2>2, QuietKeeps
<1>5. CASE SyncWallet \/ LinkMoves \/ ApiStops \/ \E e \in Events : DepositMoves(e)
  <2>1. UNCHANGED <<claims, mails, raced>> /\ (UNCHANGED req \/ req' = [t \in Tasks |-> NoRequest])
    BY <1>5 DEF SyncWallet, LinkMoves, ApiStops, DepositMoves, depositVars
  <2>2. Quiet  BY <2>1 DEF Quiet, NoRequest, Late
  <2> QED  BY <2>1, <2>2, QuietKeeps
<1> QED  BY <1>1, <1>2, <1>3, <1>4, <1>5 DEF FiatNext, Serve

(* A deposit is announced once as landed, returned or stuck (MailedOnce)   *)
(* unless two webhooks were inside claimDepositNotification together: for  *)
(* any number of deposits, deliveries and stops of the API.                *)
THEOREM MailsOnce == FiatSpec => []MailedOnce
<1>1. FiatInv /\ ClaimsOK => MailedOnce
  BY DEF ClaimsOK, MailedOnce, FiatInv, FiatTypeOK
<1>2. FiatSpec => []ClaimsOK
  <2>1. FiatInv /\ FiatInv' /\ ClaimsOK /\ [FiatNext]_fiatVars => ClaimsOK'  BY StepClaims
  <2> QED  BY <2>1, InitClaims, AlwaysInv, PTL DEF FiatSpec
<1> QED  BY <1>1, <1>2, AlwaysInv, PTL
=============================================================================
