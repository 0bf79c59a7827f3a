------------------------ MODULE PaymentRecordsProofs ------------------------
(***************************************************************************)
(* Proofs about PaymentRecords, for any transfers, sections, limits and    *)
(* faults: type correctness, that what reads settled was mined, that sends *)
(* and conversions implement HonestHistory, and that the second leg of a   *)
(* corridor waits for its first.                                           *)
(***************************************************************************)
EXTENDS PaymentRecords, TLAPS

-----------------------------------------------------------------------------
(* Type correctness. *)

LEMMA InitType == RecordsInit => RecordsTypeOK
BY RecordsAssumption DEF RecordsInit, RecordsTypeOK, Kinds, Steps, Keys

(* From the click to the chain. *)
LEMMA ClickType ==
  ASSUME RecordsTypeOK, NEW t \in Transfers,
         \/ \E k \in {"send", "convert"} \cup Payers, c \in {"arc", "far", "dark"} : Click(t, k, c)
         \/ \E u \in Transfers : ClickCorridor(t, u)
         \/ Sign(t) \/ Throws(t) \/ Found(t) \/ NoHash(t) \/ CloseTab(t) \/ Mine(t)
  PROVE  RecordsTypeOK'
<1> USE RecordsAssumption
    DEF RecordsTypeOK, Kinds, Legs, Payers, Steps, Keys, Goes, Fault, pages, records, jobVars,
        guardVars
<1>1. ASSUME NEW k \in {"send", "convert"} \cup Payers, NEW c \in {"arc", "far", "dark"},
             Click(t, k, c)
      PROVE  RecordsTypeOK'
  BY <1>1 DEF Click
<1>2. ASSUME NEW u \in Transfers, ClickCorridor(t, u)  PROVE RecordsTypeOK'
  BY <1>2 DEF ClickCorridor
<1>3. CASE Sign(t)  BY <1>3 DEF Sign
<1>4. CASE Throws(t)  BY <1>4 DEF Throws
<1>5. CASE Found(t)  BY <1>5 DEF Found, Listed
<1>6. CASE NoHash(t)  BY <1>6 DEF NoHash
<1>7. CASE CloseTab(t)  BY <1>7 DEF CloseTab
<1>8. CASE Mine(t)  BY <1>8 DEF Mine
<1> QED  BY <1>1, <1>2, <1>3, <1>4, <1>5, <1>6, <1>7, <1>8

(* The page's requests to the API. *)
LEMMA PostType ==
  ASSUME RecordsTypeOK, NEW t \in Transfers,
         \/ Post(t) \/ Receipt(t) \/ ReceiptTimesOut(t) \/ Report(t)
         \/ MarkPaid(t) \/ PostPayment(t) \/ TakeBack(t)
  PROVE  RecordsTypeOK'
<1> USE RecordsAssumption
    DEF RecordsTypeOK, Steps, Keys, Goes, Fault, Served, Refused, pages, records, jobVars,
        guardVars
<1>1. CASE Post(t)  BY <1>1 DEF Post, Inserted, AfterPost
<1>2. CASE Receipt(t)  BY <1>2 DEF Receipt
<1>3. CASE ReceiptTimesOut(t)  BY <1>3 DEF ReceiptTimesOut
<1>4. CASE Report(t)  BY <1>4 DEF Report, Patched, AfterReport
<1>5. CASE MarkPaid(t)  BY <1>5 DEF MarkPaid
<1>6. CASE PostPayment(t)  BY <1>6 DEF PostPayment, PaymentStatus, Rescue
<1>7. CASE TakeBack(t)  BY <1>7 DEF TakeBack
<1> QED  BY <1>1, <1>2, <1>3, <1>4, <1>5, <1>6, <1>7

(* The jobs, the invoice's creator and the admins. *)
LEMMA JobType ==
  ASSUME RecordsTypeOK, NEW j \in Jobs, JobNext(j)
  PROVE  RecordsTypeOK'
<1> USE RecordsAssumption
    DEF RecordsTypeOK, Keys, Jobs, Fault, pages, records, jobVars, guardVars
<1>1. CASE Select(j)  BY <1>1 DEF Select, Due
<1>2. CASE Update(j)  BY <1>2 DEF Update
<1>3. ASSUME NEW k \in Keys, ReadReceipt(j, k)  PROVE RecordsTypeOK'
  BY <1>3 DEF ReadReceipt, Visible
<1>4. ASSUME NEW k \in Keys, Skip(j, k)  PROVE RecordsTypeOK'
  BY <1>4 DEF Skip
<1> QED  BY <1>1, <1>2, <1>3, <1>4 DEF JobNext

LEMMA OtherType ==
  ASSUME RecordsTypeOK,
         \/ \E status \in {"sent", "cancelled"} : CreatorClicks(status)
         \/ CreatorWrites \/ ApiStops
         \/ \E section \in Sections : Switch(section)
         \/ RefreshCache
  PROVE  RecordsTypeOK'
BY RecordsAssumption
   DEF RecordsTypeOK, Fault, Served, Refused, pages, records, jobVars, guardVars,
       CreatorClicks, CreatorWrites, ApiStops, Switch, RefreshCache

LEMMA StepType == RecordsTypeOK /\ [RecordsNext]_recordVars => RecordsTypeOK'
<1> SUFFICES ASSUME RecordsTypeOK, [RecordsNext]_recordVars  PROVE RecordsTypeOK'
  OBVIOUS
<1>1. CASE UNCHANGED recordVars
  BY <1>1 DEF recordVars, RecordsTypeOK, pages, records, jobVars, guardVars
<1> QED  BY <1>1, ClickType, PostType, JobType, OtherType DEF RecordsNext, PageNext

(* What the pages, the tables and the jobs hold keeps its type             *)
(* (RecordsTypeOK).                                                        *)
THEOREM RecordsTypeCorrect == RecordsSpec => []RecordsTypeOK
BY InitType, StepType, PTL DEF RecordsSpec

-----------------------------------------------------------------------------
(* What is settled was mined.  The pages and the jobs must still know it   *)
(* when they write: RecordsInv says what each of them has seen.            *)

(* A transfer is not on its chain before its page has had it signed.       *)
Unsigned ==
  \A t \in Transfers :
    /\ kind[t] = "unused" => page[t] = "idle" /\ payment[t] = "none"
    /\ page[t] \in {"idle", "queued", "signing"} => tx[t] = "none" /\ hash[t] = Blank

(* A hash a page was given is that of a transfer on the chain, to the same *)
(* place; a wallet's page has its own.                                     *)
HashShown ==
  \A t \in Transfers :
    /\ hash[t] # Blank => tx[hash[t]] # "none" /\ (hash[t] = t \/ SamePlace(t, hash[t]))
    /\ kind[t] = "wallet" => page[t] \notin {"polling", "posting", "postingSure"}
    /\ page[t] = "confirming" => hash[t] # Blank /\ (kind[t] = "wallet" => hash[t] = t)

(* What a page is about to report, it has seen: of a leg, a failure too    *)
(* much.                                                                   *)
PagesKnow ==
  \A t \in Transfers :
    /\ page[t] \in {"postingSure", "reportSettled"} =>
         hash[t] # Blank /\ tx[hash[t]] = "mined"
    /\ page[t] = "reportFailed" =>
         hash[t] # Blank /\ (tx[hash[t]] = "reverted" \/ kind[t] \in Legs)
    /\ kind[t] = "wallet" =>
         /\ page[t] \in {"paying", "paymentPost"} => tx[t] = "mined"
         /\ page[t] = "failedPost" => tx[t] = "reverted"

(* A job holds rows that exist, and the receipt of a decided transfer.     *)
JobsKnow ==
  \A j \in Jobs :
    /\ \A k \in batch[j] : row[k] # "none"
    /\ reading[j] # Nothing => row[reading[j]] # "none" /\ Decided(reading[j])

RowsAreTrue ==
  \A t \in Transfers :
    /\ row[t] # "none" => tx[t] # "none"
    /\ Plain(t) /\ row[t] = "failed" => tx[t] = "reverted"

RecordsInv ==
  /\ RecordsTypeOK /\ Unsigned /\ HashShown /\ PagesKnow /\ JobsKnow /\ RowsAreTrue
  /\ SettledIsMined

LEMMA InvInit == RecordsInit => RecordsInv
BY InitType, RecordsAssumption
   DEF RecordsInit, RecordsInv, Unsigned, HashShown, PagesKnow, JobsKnow, RowsAreTrue,
       SettledIsMined, Keys, Jobs

(* A transfer on its chain keeps its kind, and a decided one its fate.     *)
Forward ==
  \A t \in Transfers :
    /\ kind[t] # "unused" => kind'[t] = kind[t] /\ chain'[t] = chain[t]
    /\ tx[t] # "none" => kind[t] # "unused" /\ tx'[t] # "none"
    /\ tx[t] \in {"mined", "reverted"} => tx'[t] = tx[t]

(* The actions that leave the pages and the chain alone. *)
Aside ==
  \/ \E status \in {"sent", "cancelled"} : CreatorClicks(status)
  \/ CreatorWrites
  \/ \E j \in Jobs : JobNext(j)
  \/ ApiStops
  \/ \E section \in Sections : Switch(section)
  \/ RefreshCache
  \/ UNCHANGED recordVars

LEMMA AsideStays == Aside => UNCHANGED <<pages, tx>> /\ UNCHANGED payment
BY DEF Aside, CreatorClicks, CreatorWrites, JobNext, Select, Update, ReadReceipt, Skip,
       ApiStops, Switch, RefreshCache, recordVars, pages, records

LEMMA Cases ==
  ASSUME [RecordsNext]_recordVars
  PROVE  Aside \/ \E t \in Transfers : PageNext(t) \/ Mine(t)
BY DEF RecordsNext, Aside

LEMMA StepForward ==
  ASSUME RecordsInv, [RecordsNext]_recordVars
  PROVE  Forward
<1> USE DEF RecordsInv, RecordsTypeOK, Unsigned, Forward, pages, Goes
<1>1. CASE Aside  BY <1>1, AsideStays
<1>2. ASSUME NEW t \in Transfers, NEW k, NEW c, Click(t, k, c)  PROVE Forward
  BY <1>2 DEF Click
<1>3. ASSUME NEW t \in Transfers, NEW u \in Transfers, ClickCorridor(t, u)  PROVE Forward
  BY <1>3 DEF ClickCorridor
<1>4. ASSUME NEW t \in Transfers, Sign(t)  PROVE Forward
  BY <1>4 DEF Sign
<1>5. ASSUME NEW t \in Transfers, Mine(t)  PROVE Forward
  BY <1>5 DEF Mine
<1>6. ASSUME NEW t \in Transfers, PageNext(t),
             ~\E k \in {"send", "convert"} \cup Payers, c \in {"arc", "far", "dark"} : Click(t, k, c),
             ~\E u \in Transfers : ClickCorridor(t, u), ~Sign(t)
      PROVE  Forward
  <2>1. UNCHANGED <<kind, chain, tx>>
    BY <1>6 DEF PageNext, Throws, Found, NoHash, Post, Receipt, ReceiptTimesOut, Report,
       MarkPaid, PostPayment, TakeBack, CloseTab
  <2> QED  BY <2>1
<1> QED  BY <1>1, <1>2, <1>3, <1>4, <1>5, <1>6, Cases DEF PageNext

LEMMA UnsignedStep ==
  ASSUME RecordsInv, [RecordsNext]_recordVars
  PROVE  Unsigned'
<1> USE DEF RecordsInv, RecordsTypeOK, Unsigned, pages, records, Goes
<1>1. CASE Aside  BY <1>1, AsideStays
<1>2. ASSUME NEW t \in Transfers, NEW k \in {"send", "convert"} \cup Payers, NEW c, Click(t, k, c)
      PROVE  Unsigned'
  BY <1>2 DEF Click, Payers
<1>3. ASSUME NEW t \in Transfers, NEW u \in Transfers, ClickCorridor(t, u)  PROVE Unsigned'
  BY <1>3 DEF ClickCorridor
<1>4. ASSUME NEW t \in Transfers, Sign(t) \/ Throws(t) \/ NoHash(t) \/ CloseTab(t) \/ Mine(t)
      PROVE  Unsigned'
  BY <1>4 DEF Sign, Throws, NoHash, CloseTab, Mine
<1>5. ASSUME NEW t \in Transfers, Found(t)  PROVE Unsigned'
  BY <1>5 DEF Found
<1>6. ASSUME NEW t \in Transfers, Post(t) \/ Report(t)  PROVE Unsigned'
  BY <1>6 DEF Post, Report, AfterPost, AfterReport
<1>7. ASSUME NEW t \in Transfers,
             Receipt(t) \/ ReceiptTimesOut(t) \/ MarkPaid(t) \/ PostPayment(t) \/ TakeBack(t)
      PROVE  Unsigned'
  BY <1>7 DEF Receipt, ReceiptTimesOut, MarkPaid, PostPayment, TakeBack, Rescue
<1> QED  BY <1>1, <1>2, <1>3, <1>4, <1>5, <1>6, <1>7, Cases DEF PageNext

LEMMA HashShownStep ==
  ASSUME RecordsInv, Forward, [RecordsNext]_recordVars
  PROVE  HashShown'
<1> USE RecordsAssumption
    DEF RecordsInv, RecordsTypeOK, Unsigned, HashShown, SamePlace, Forward, pages, Goes, Keys
<1>1. CASE Aside  BY <1>1, AsideStays
<1>2. ASSUME NEW t \in Transfers, NEW k \in {"send", "convert"} \cup Payers, NEW c, Click(t, k, c)
      PROVE  HashShown'
  BY <1>2 DEF Click, Payers
<1>3. ASSUME NEW t \in Transfers, NEW u \in Transfers, ClickCorridor(t, u)  PROVE HashShown'
  BY <1>3 DEF ClickCorridor
<1>4. ASSUME NEW t \in Transfers, Sign(t)  PROVE HashShown'
  BY <1>4 DEF Sign
<1>5. ASSUME NEW t \in Transfers, Throws(t) \/ NoHash(t) \/ CloseTab(t) \/ Mine(t)
      PROVE  HashShown'
  BY <1>5 DEF Throws, NoHash, CloseTab, Mine
<1>6. ASSUME NEW t \in Transfers, Found(t)  PROVE HashShown'
  <2>1. PICK u \in Listed(t) : hash' = [hash EXCEPT ![t] = u]  BY <1>6 DEF Found
  <2>2. u \in Transfers /\ tx[u] # "none" /\ (u = t \/ SamePlace(t, u))
    BY <2>1 DEF Listed
  <2>3. page[t] = "polling" /\ page'[t] \in {"posting", "postingSure", "paying"}
        /\ (\A v \in Transfers : v # t => page'[v] = page[v]) /\ UNCHANGED <<kind, chain, tx>>
    BY <1>6 DEF Found
  <2>4. hash'[t] = u /\ \A v \in Transfers : v # t => hash'[v] = hash[v]  BY <2>1
  <2>5. HashShown!(t)'
    BY <2>2, <2>3, <2>4
  <2>6. ASSUME NEW v \in Transfers, v # t  PROVE HashShown!(v)'
    BY <2>3, <2>4, <2>6
  <2> QED  BY <2>5, <2>6
<1>7. ASSUME NEW t \in Transfers, Post(t) \/ Report(t)  PROVE HashShown'
  <2>1. UNCHANGED <<kind, chain, hash, tx>>  BY <1>7 DEF Post, Report
  <2>2. CASE Post(t)
    <3>1. page[t] \in {"posting", "postingSure"} /\ page' = [page EXCEPT ![t] = AfterPost(t)]
      BY <2>2 DEF Post
    <3>2. AfterPost(t) \notin {"polling", "posting", "postingSure"}
          /\ (AfterPost(t) = "confirming" => hash[t] # Blank)
      BY DEF AfterPost
    <3>3. kind[t] # "wallet"  BY <3>1
    <3> QED  BY <2>1, <3>1, <3>2, <3>3
  <2>3. CASE Report(t)
    <3>1. \A u \in Transfers : page'[u] \in {page[u], "done", "signing"}
      BY <2>3 DEF Report, AfterReport
    <3> QED  BY <2>1, <3>1
  <2> QED  BY <1>7, <2>2, <2>3
<1>8. ASSUME NEW t \in Transfers,
             Receipt(t) \/ ReceiptTimesOut(t) \/ MarkPaid(t) \/ PostPayment(t) \/ TakeBack(t)
      PROVE  HashShown'
  BY <1>8 DEF Receipt, ReceiptTimesOut, MarkPaid, PostPayment, TakeBack, Rescue
<1> QED  BY <1>1, <1>2, <1>3, <1>4, <1>5, <1>6, <1>7, <1>8, Cases DEF PageNext

LEMMA PagesKnowStep ==
  ASSUME RecordsInv, Forward, [RecordsNext]_recordVars
  PROVE  PagesKnow'
<1> USE RecordsAssumption
    DEF RecordsInv, RecordsTypeOK, Unsigned, HashShown, PagesKnow, Forward, pages, Goes, Keys
<1>1. CASE Aside  BY <1>1, AsideStays
<1>2. ASSUME NEW t \in Transfers, NEW k \in {"send", "convert"} \cup Payers, NEW c, Click(t, k, c)
      PROVE  PagesKnow'
  BY <1>2 DEF Click, Payers
<1>3. ASSUME NEW t \in Transfers, NEW u \in Transfers, ClickCorridor(t, u)  PROVE PagesKnow'
  BY <1>3 DEF ClickCorridor
<1>4. ASSUME NEW t \in Transfers, Sign(t) \/ Throws(t) \/ NoHash(t) \/ CloseTab(t) \/ Mine(t)
      PROVE  PagesKnow'
  BY <1>4 DEF Sign, Throws, NoHash, CloseTab, Mine
<1>5. ASSUME NEW t \in Transfers, Found(t)  PROVE PagesKnow'
  BY <1>5 DEF Found, Listed, Payers
<1>6. ASSUME NEW t \in Transfers, Post(t) \/ Report(t)  PROVE PagesKnow'
  BY <1>6 DEF Post, Report, AfterPost, AfterReport
<1>7. ASSUME NEW t \in Transfers, Receipt(t)  PROVE PagesKnow'
  BY <1>7 DEF Receipt, Decided
<1>8. ASSUME NEW t \in Transfers,
             ReceiptTimesOut(t) \/ MarkPaid(t) \/ PostPayment(t) \/ TakeBack(t)
      PROVE  PagesKnow'
  BY <1>8 DEF ReceiptTimesOut, MarkPaid, PostPayment, TakeBack, Rescue
<1> QED  BY <1>1, <1>2, <1>3, <1>4, <1>5, <1>6, <1>7, <1>8, Cases DEF PageNext

(* A row changes only by a report of a page or an update of a job, and     *)
(* then to what that one knows.                                            *)
RowWritten(k, status) ==
  /\ k \in Keys
  /\ row' = [row EXCEPT ![k] = status]
  /\ row[k] = "none" => status \in {"none", "pending"} /\ (k \in Transfers => tx[k] # "none")
  /\ row[k] # "none" => status # "none"
  /\ status = "pending" => row[k] \in {"none", "pending"}
  /\ status = "settled" /\ row[k] # "settled" => k \in Transfers /\ tx[k] = "mined"
  /\ status = "failed" /\ row[k] # "failed" =>
       k \in Transfers /\ (tx[k] = "reverted" \/ kind[k] \in Legs)

LEMMA RowMoves ==
  ASSUME RecordsInv, [RecordsNext]_recordVars
  PROVE  UNCHANGED row \/ \E k \in Keys, status \in {"none", "pending", "settled", "failed"} :
                            UNCHANGED <<kind, tx>> /\ RowWritten(k, status)
<1> DEFINE Writes == \E k \in Keys, status \in {"none", "pending", "settled", "failed"} :
                       UNCHANGED <<kind, tx>> /\ RowWritten(k, status)
<1> USE RecordsAssumption DEF RecordsInv, RecordsTypeOK, Keys
<1>1. ASSUME NEW t \in Transfers, Post(t)  PROVE UNCHANGED row \/ Writes
  <2>1. CASE UNCHANGED row  BY <2>1
  <2>2. CASE Inserted(hash[t])
    <3> DEFINE status == IF row[hash[t]] = "none" THEN "pending" ELSE row[hash[t]]
    <3>1. hash[t] \in Keys /\ row' = [row EXCEPT ![hash[t]] = status]
      BY <2>2 DEF Inserted
    <3>2. hash[t] \in Transfers => tx[hash[t]] # "none"  BY DEF HashShown
    <3>3. RowWritten(hash[t], status)  BY <3>1, <3>2 DEF RowWritten
    <3>4. status \in {"none", "pending", "settled", "failed"}  BY <3>1
    <3> QED  BY <1>1, <3>1, <3>3, <3>4 DEF Post
  <2> QED  BY <1>1, <2>1, <2>2 DEF Post
<1>2. ASSUME NEW t \in Transfers, Report(t)  PROVE UNCHANGED row \/ Writes
  <2>1. CASE UNCHANGED row  BY <2>1
  <2>2. CASE row' # row
    <3> DEFINE word == IF page[t] = "reportSettled" THEN "settled" ELSE "failed"
               status == IF row[hash[t]] = "none" THEN row[hash[t]] ELSE word
    <3>1. hash[t] \in Transfers /\ tx[hash[t]] # "none"
      BY <1>2 DEF Report, PagesKnow, HashShown
    <3>2. row' = [row EXCEPT ![hash[t]] = status]
      BY <1>2, <2>2 DEF Report, Patched
    <3>3. word = "settled" => tx[hash[t]] = "mined"  BY <1>2 DEF Report, PagesKnow
    <3>4. word = "failed" => tx[hash[t]] = "reverted" \/ kind[t] \in Legs
      BY <1>2 DEF Report, PagesKnow
    <3>5. kind[t] \in Legs => kind[hash[t]] \in Legs
      BY <3>1 DEF HashShown, SamePlace
    <3>6. RowWritten(hash[t], status)
      BY <3>1, <3>2, <3>3, <3>4, <3>5 DEF RowWritten
    <3>7. status \in {"none", "pending", "settled", "failed"}  BY <3>1
    <3> QED  BY <1>2, <3>1, <3>6, <3>7 DEF Report
  <2> QED  BY <2>1, <2>2
<1>3. ASSUME NEW j \in Jobs, Update(j)  PROVE UNCHANGED row \/ Writes
  <2>1. CASE UNCHANGED row  BY <2>1
  <2>2. CASE row' # row
    <3> DEFINE status == IF tx[reading[j]] = "mined" THEN "settled" ELSE "failed"
    <3>1. reading[j] \in Transfers  BY <1>3 DEF Update
    <3>2. row' = [row EXCEPT ![reading[j]] = status]  BY <1>3, <2>2 DEF Update
    <3>3. tx[reading[j]] \in {"mined", "reverted"} /\ row[reading[j]] # "none"
      BY <1>3 DEF Update, JobsKnow, Decided
    <3>4. RowWritten(reading[j], status)  BY <3>1, <3>2, <3>3 DEF RowWritten
    <3> QED  BY <1>3, <3>1, <3>4 DEF Update, pages
  <2> QED  BY <2>1, <2>2
<1>4. ASSUME NEW t \in Transfers, PageNext(t) \/ Mine(t), ~Post(t), ~Report(t)
      PROVE  UNCHANGED row
  BY <1>4 DEF PageNext, Mine, records, Click, ClickCorridor, Sign, Throws, Found, NoHash,
     Receipt, ReceiptTimesOut, MarkPaid, PostPayment, TakeBack, CloseTab
<1>5. ASSUME Aside, \A j \in Jobs : ~Update(j)  PROVE UNCHANGED row
  BY <1>5 DEF Aside, CreatorClicks, CreatorWrites, JobNext, Select, ReadReceipt, Skip,
     ApiStops, Switch, RefreshCache, recordVars, records
<1> QED  BY <1>1, <1>2, <1>3, <1>4, <1>5, Cases

LEMMA RowsStay ==
  ASSUME RecordsInv, [RecordsNext]_recordVars
  PROVE  \A k \in Keys : row[k] # "none" => row'[k] # "none"
BY RowMoves DEF RowWritten, RecordsInv, RecordsTypeOK

LEMMA JobsKnowStep ==
  ASSUME RecordsInv, Forward, [RecordsNext]_recordVars
  PROVE  JobsKnow'
<1> USE RecordsAssumption
    DEF RecordsInv, RecordsTypeOK, JobsKnow, Forward, Decided, Keys
<1>1. \A k \in Keys : row[k] # "none" => row'[k] # "none"  BY RowsStay
<1>2. ASSUME UNCHANGED <<batch, reading>>  PROVE JobsKnow'  BY <1>1, <1>2
<1>3. ASSUME NEW j \in Jobs, Select(j)  PROVE JobsKnow'
  BY <1>1, <1>3 DEF Select, Due
<1>4. ASSUME NEW j \in Jobs, NEW k \in Keys, ReadReceipt(j, k)  PROVE JobsKnow'
  <2>1. k \in Transfers /\ tx[k] \in {"mined", "reverted"} /\ row[k] # "none" /\ UNCHANGED <<tx, row>>
    BY <1>4 DEF ReadReceipt, Visible, records
  <2>2. /\ reading' = [reading EXCEPT ![j] = k]
        /\ batch' = [batch EXCEPT ![j] = @ \ {k}]
    BY <1>4 DEF ReadReceipt
  <2> QED  BY <2>1, <2>2
<1>5. ASSUME NEW j \in Jobs, NEW k \in Keys, Skip(j, k)  PROVE JobsKnow'
  BY <1>1, <1>5 DEF Skip
<1>6. ASSUME NEW j \in Jobs, Update(j)  PROVE JobsKnow'
  BY <1>1, <1>6 DEF Update, pages
<1>7. CASE ApiStops  BY <1>7 DEF ApiStops
<1>8. ASSUME NEW t \in Transfers, PageNext(t) \/ Mine(t)  PROVE UNCHANGED <<batch, reading>>
  BY <1>8 DEF PageNext, Mine, jobVars, Click, ClickCorridor, Sign, Throws, Found, NoHash, Post,
     Receipt, ReceiptTimesOut, Report, MarkPaid, PostPayment, TakeBack, CloseTab
<1>9. ASSUME \/ \E status \in {"sent", "cancelled"} : CreatorClicks(status)
             \/ CreatorWrites
             \/ \E section \in Sections : Switch(section)
             \/ RefreshCache
             \/ UNCHANGED recordVars
      PROVE  UNCHANGED <<batch, reading>>
  BY <1>9 DEF CreatorClicks, CreatorWrites, Switch, RefreshCache, recordVars, jobVars
<1> QED
  BY <1>2, <1>3, <1>4, <1>5, <1>6, <1>7, <1>8, <1>9 DEF RecordsNext, JobNext

LEMMA RowsStep ==
  ASSUME RecordsInv, Forward, [RecordsNext]_recordVars
  PROVE  RowsAreTrue' /\ \A t \in Transfers : row'[t] = "settled" => tx'[t] = "mined"
<1> USE DEF RecordsInv, RecordsTypeOK, Unsigned, RowsAreTrue, SettledIsMined, Forward, Plain, Legs, Keys
<1>1. CASE UNCHANGED row  BY <1>1
<1>2. ASSUME NEW k \in Keys, NEW status \in {"none", "pending", "settled", "failed"},
             UNCHANGED <<kind, tx>>, RowWritten(k, status)
      PROVE  RowsAreTrue' /\ \A t \in Transfers : row'[t] = "settled" => tx'[t] = "mined"
  BY <1>2 DEF RowWritten
<1> QED  BY <1>1, <1>2, RowMoves

(* A payment is only written by the page of its payer. *)
LEMMA PaymentsStep ==
  ASSUME RecordsInv, Forward, [RecordsNext]_recordVars
  PROVE  \A t \in Transfers : kind'[t] = "wallet" =>
           /\ payment'[t] = "settled" => tx'[t] = "mined"
           /\ payment'[t] = "failed" => tx'[t] = "reverted"
<1> DEFINE True == \A t \in Transfers : kind'[t] = "wallet" =>
           /\ payment'[t] = "settled" => tx'[t] = "mined"
           /\ payment'[t] = "failed" => tx'[t] = "reverted"
<1> USE DEF RecordsInv, RecordsTypeOK, SettledIsMined, Forward
<1>1. ASSUME NEW t \in Transfers, PostPayment(t)  PROVE True
  BY <1>1 DEF PostPayment, PaymentStatus, PagesKnow
<1>2. CASE UNCHANGED payment  BY <1>2 DEF Unsigned
<1>3. ASSUME NEW t \in Transfers, PageNext(t) \/ Mine(t), ~PostPayment(t)
      PROVE  UNCHANGED payment
  BY <1>3 DEF PageNext, Mine, records, Click, ClickCorridor, Sign, Throws, Found, NoHash,
     Post, Receipt, ReceiptTimesOut, Report, MarkPaid, TakeBack, CloseTab
<1> QED  BY <1>1, <1>2, <1>3, Cases, AsideStays

LEMMA RecordsInvStep == RecordsInv /\ [RecordsNext]_recordVars => RecordsInv'
<1> SUFFICES ASSUME RecordsInv, [RecordsNext]_recordVars  PROVE RecordsInv'
  OBVIOUS
<1>1. Forward  BY StepForward
<1>2. RecordsTypeOK'  BY StepType DEF RecordsInv
<1>3. Unsigned' /\ HashShown' /\ PagesKnow' /\ JobsKnow'
  BY <1>1, UnsignedStep, HashShownStep, PagesKnowStep, JobsKnowStep
<1>4. RowsAreTrue' /\ \A t \in Transfers : row'[t] = "settled" => tx'[t] = "mined"
  BY <1>1, RowsStep
<1>5. SettledIsMined'  BY <1>1, <1>4, PaymentsStep DEF SettledIsMined
<1> QED  BY <1>2, <1>3, <1>4, <1>5 DEF RecordsInv

(* Whoever wrote it and in whatever order, a row that reads settled shows  *)
(* a transfer that was mined, and so does a payment by wallet              *)
(* (SettledIsMined).                                                       *)
THEOREM SettledWasMined == RecordsSpec => []SettledIsMined
<1>1. RecordsInv => SettledIsMined  BY DEF RecordsInv
<1> QED  BY <1>1, InvInit, RecordsInvStep, PTL DEF RecordsSpec

-----------------------------------------------------------------------------
(* Sends and conversions implement HonestHistory. *)

LEMMA HistoryStep ==
  ASSUME RecordsInv, [RecordsNext]_recordVars
  PROVE  [History!Next]_(History!historyVars)
<1> USE DEF RecordsInv, RecordsTypeOK, Keys, History!Next, History!historyVars,
            History!Broadcast, History!Mine, History!Record, History!Confirm, History!Revert,
            History!Fated, History!Shows, OnChain
<1>1. ASSUME NEW t \in Transfers, Sign(t)  PROVE [History!Next]_(History!historyVars)
  <2>1. UNCHANGED <<kind, row>> /\ tx[t] = "none" /\ tx' = [tx EXCEPT ![t] = "floating"]
    BY <1>1 DEF Sign, Goes, Unsigned, records
  <2>2. CASE Plain(t)
    <3>1. History!Broadcast(t)  BY <2>1, <2>2 DEF Plain
    <3> QED  BY <3>1
  <2>3. CASE ~Plain(t)  BY <2>1, <2>3 DEF Plain
  <2> QED  BY <2>2, <2>3
<1>2. ASSUME NEW t \in Transfers, Mine(t)  PROVE [History!Next]_(History!historyVars)
  <2>1. UNCHANGED <<kind, row>> /\ tx[t] = "floating"  BY <1>2 DEF Mine, pages, records
  <2>2. PICK fate \in {"mined", "reverted"} : tx' = [tx EXCEPT ![t] = fate]  BY <1>2 DEF Mine
  <2>3. CASE Plain(t)
    <3>1. History!Mine(t)  BY <2>1, <2>2, <2>3 DEF Plain
    <3> QED  BY <3>1
  <2>4. CASE ~Plain(t)  BY <2>1, <2>2, <2>4 DEF Plain
  <2> QED  BY <2>3, <2>4
<1>3. ASSUME NEW k \in Keys, NEW status \in {"none", "pending", "settled", "failed"},
             UNCHANGED <<kind, tx>>, RowWritten(k, status)
      PROVE  [History!Next]_(History!historyVars)
  <2>1. row' = [row EXCEPT ![k] = status]  BY <1>3 DEF RowWritten
  <2>2. CASE k \notin Transfers \/ ~Plain(k) \/ status = row[k]
    BY <1>3, <2>1, <2>2 DEF Plain
  <2>3. CASE k \in Transfers /\ Plain(k) /\ status # row[k]
    <3>1. \/ status = "pending" /\ row[k] = "none" /\ tx[k] # "none"
          \/ status = "settled" /\ row[k] = "pending" /\ tx[k] = "mined"
          \/ status = "failed" /\ row[k] = "pending" /\ tx[k] = "reverted"
      BY <1>3, <2>3 DEF RowWritten, RowsAreTrue, SettledIsMined, Plain, Legs
    <3>2. CASE status = "pending"
      <4>1. History!Record(k)  BY <1>3, <2>1, <2>3, <3>1, <3>2 DEF Plain
      <4> QED  BY <2>3, <4>1
    <3>3. CASE status = "settled"
      <4>1. History!Confirm(k)  BY <1>3, <2>1, <2>3, <3>1, <3>3 DEF Plain
      <4> QED  BY <2>3, <4>1
    <3>4. CASE status = "failed"
      <4>1. History!Revert(k)  BY <1>3, <2>1, <2>3, <3>1, <3>4 DEF Plain
      <4> QED  BY <2>3, <4>1
    <3> QED  BY <3>1, <3>2, <3>3, <3>4
  <2> QED  BY <2>2, <2>3
<1>4. ASSUME NEW t \in Transfers,
             \/ \E k \in {"send", "convert"} \cup Payers, c \in {"arc", "far", "dark"} : Click(t, k, c)
             \/ \E u \in Transfers : ClickCorridor(t, u)
      PROVE  [History!Next]_(History!historyVars)
  <2>1. UNCHANGED <<tx, row>> /\ \A u \in Transfers : kind[u] # "unused" => kind'[u] = kind[u]
    BY <1>4 DEF Click, ClickCorridor, records
  <2>2. \A u \in Transfers : kind[u] = "unused" => tx[u] = "none" /\ row[u] = "none"
    BY DEF Unsigned, RowsAreTrue
  <2> QED  BY <2>1, <2>2 DEF Plain
<1>5. ASSUME UNCHANGED <<kind, tx, row>>  PROVE [History!Next]_(History!historyVars)
  BY <1>5 DEF Plain
<1>6. ASSUME NEW t \in Transfers, PageNext(t), ~Sign(t),
             ~\E k \in {"send", "convert"} \cup Payers, c \in {"arc", "far", "dark"} : Click(t, k, c),
             ~\E u \in Transfers : ClickCorridor(t, u)
      PROVE  UNCHANGED <<kind, tx>>
  BY <1>6 DEF PageNext, Throws, Found, NoHash, Post, Receipt, ReceiptTimesOut, Report,
     MarkPaid, PostPayment, TakeBack, CloseTab
<1>7. CASE Aside
  BY <1>3, <1>5, <1>7, AsideStays, RowMoves DEF pages
<1> QED  BY <1>1, <1>2, <1>3, <1>4, <1>5, <1>6, <1>7, Cases, RowMoves DEF PageNext

(* Sends and conversions keep an honest history: no page, settler or       *)
(* reconciler shows what the chain has not decided, or rewrites what       *)
(* another has recorded (HistoryIsHonest).                                 *)
THEOREM HistoryStaysHonest == RecordsSpec => HistoryIsHonest
<1>1. RecordsInit => History!Init
  BY DEF RecordsInit, History!Init, Keys, OnChain
<1> QED
  BY <1>1, InvInit, RecordsInvStep, HistoryStep, PTL DEF RecordsSpec, HistoryIsHonest, History!Spec

(* What an honest history gives its reader: an entry that reads failed is  *)
(* of a transfer that reverted, and an outcome is final.                   *)
FailedReverted == \A t \in Transfers : Plain(t) /\ row[t] = "failed" => tx[t] = "reverted"

OutcomeStays ==
  \A t \in Transfers :
    Plain(t) /\ row[t] \in {"settled", "failed"} => Plain(t)' /\ row'[t] = row[t]

LEMMA ReadHistory ==
  ASSUME RecordsInv, RecordsInv', [History!Next]_(History!historyVars),
         NEW t \in Transfers, Plain(t)
  PROVE  row[t] \in {"settled", "failed"} => Plain(t)' /\ row'[t] = row[t]
<1> DEFINE show == [u \in Transfers |-> IF Plain(u) THEN OnChain(row[u]) ELSE "none"]
           fate == [u \in Transfers |-> IF Plain(u) THEN tx[u] ELSE "none"]
<1>0. /\ row[t] \in {"none", "pending", "settled", "failed"}
      /\ row'[t] \in {"none", "pending", "settled", "failed"}
      /\ show[t] = OnChain(row[t])
      /\ show'[t] = IF Plain(t)' THEN OnChain(row'[t]) ELSE "none"
  BY DEF RecordsInv, RecordsTypeOK, Keys, OnChain
<1>0a. ASSUME row[t] \in {"settled", "failed"}, show'[t] = show[t]
       PROVE  Plain(t)' /\ row'[t] = row[t]
  BY <1>0, <1>0a DEF OnChain
<1>1. CASE UNCHANGED <<show, fate>>
  <2>1. show'[t] = show[t]  BY <1>1
  <2> QED  BY <2>1, <1>0a
<1>2. ASSUME NEW e \in Transfers, NEW from, NEW to, show[e] = from,
             show' = [show EXCEPT ![e] = to], UNCHANGED fate,
             from \in {"none", "pending"}
      PROVE  row[t] \in {"settled", "failed"} => Plain(t)' /\ row'[t] = row[t]
  <2>1. ASSUME row[t] \in {"settled", "failed"}  PROVE show'[t] = show[t]
    <3>1. show[t] \in {"confirmed", "reverted"}  BY <1>0, <2>1 DEF OnChain
    <3>2. t # e  BY <1>2, <3>1
    <3> HIDE DEF show
    <3> QED  BY <1>2, <3>2
  <2> QED  BY <2>1, <1>0a
<1>3. ASSUME NEW e \in Transfers, NEW from, NEW to, fate[e] = from,
             fate' = [fate EXCEPT ![e] = to], UNCHANGED show, from \in {"none", "floating"}
      PROVE  row[t] \in {"settled", "failed"} => Plain(t)' /\ row'[t] = row[t]
  <2>1. show'[t] = show[t]  BY <1>3
  <2> QED  BY <2>1, <1>0a
<1> QED
  BY <1>1, <1>2, <1>3 DEF History!Next, History!historyVars, History!Broadcast, History!Mine,
     History!Record, History!Confirm, History!Revert, History!Fated, History!Shows

(* A send or conversion whose history reads failed did revert, so paying   *)
(* again does not pay twice, whatever report was late, lost or written by  *)
(* another page or job.                                                    *)
THEOREM FailureIsReal == RecordsSpec => []FailedReverted
<1>1. RecordsInv => FailedReverted  BY DEF RecordsInv, RowsAreTrue, FailedReverted
<1> QED  BY <1>1, InvInit, RecordsInvStep, PTL DEF RecordsSpec

(* No page, settler or reconciler rewrites an outcome that one of them has *)
(* recorded for a send or a conversion.                                    *)
THEOREM OutcomesAreFinal == RecordsSpec => [][OutcomeStays]_recordVars
<1>1. RecordsInv /\ [RecordsNext]_recordVars => [OutcomeStays]_recordVars
  BY HistoryStep, ReadHistory, RecordsInvStep DEF OutcomeStays
<1> QED  BY <1>1, InvInit, RecordsInvStep, PTL DEF RecordsSpec

-----------------------------------------------------------------------------
(* LegsInOrder.  A second leg leaves its queue only by the report of its   *)
(* own first leg, so what that report knew holds from then on; and a row   *)
(* that reads failed is the chain's word, or that of a leg whose corridor  *)
(* went no further.                                                        *)

(* Every second leg has one first leg. *)
SequelsOK ==
  \A t \in Transfers : sequel[t] # Nothing =>
    /\ kind[t] = "leg1" /\ kind[sequel[t]] = "leg2"
    /\ \A v \in Transfers : sequel[v] = sequel[t] => v = t

FirstLegFirst ==
  \A t \in Transfers : sequel[t] # Nothing =>
    \/ page[sequel[t]] = "queued"
    \/ page[t] = "done" /\ page[sequel[t]] = "done" /\ tx[sequel[t]] = "none"
    \/ page[t] = "done" /\ hash[t] # Blank /\ tx[hash[t]] = "mined"

WentNoFurther(v) ==
  /\ page[v] = "done"
  /\ sequel[v] # Nothing => page[sequel[v]] = "done" /\ tx[sequel[v]] = "none"

FailuresHaveCause ==
  \A t \in Transfers : row[t] = "failed" =>
    tx[t] = "reverted" \/ \E v \in Transfers : hash[v] = t /\ WentNoFurther(v)

CorridorInv == RecordsInv /\ SequelsOK /\ FirstLegFirst /\ FailuresHaveCause

LEMMA CorridorInit == RecordsInit => CorridorInv
BY InvInit DEF RecordsInit, CorridorInv, SequelsOK, FirstLegFirst, FailuresHaveCause, Keys

(* A page that is done stays so, with the hash it has. *)
DoneStays ==
  \A t \in Transfers :
    /\ page[t] = "done" => page'[t] = "done" /\ hash'[t] = hash[t]
    /\ page[t] = "done" /\ tx[t] = "none" => tx'[t] = "none"
    /\ kind[t] # "unused" => sequel'[t] = sequel[t]

LEMMA StepDoneStays ==
  ASSUME RecordsInv, [RecordsNext]_recordVars
  PROVE  DoneStays
<1> USE DEF RecordsInv, RecordsTypeOK, Unsigned, DoneStays, pages, Goes
<1>1. CASE Aside  BY <1>1, AsideStays
<1>2. ASSUME NEW t \in Transfers, NEW k, NEW c, Click(t, k, c)  PROVE DoneStays
  BY <1>2 DEF Click
<1>3. ASSUME NEW t \in Transfers, NEW u \in Transfers, ClickCorridor(t, u)  PROVE DoneStays
  BY <1>3 DEF ClickCorridor
<1>4. ASSUME NEW t \in Transfers, Sign(t) \/ Mine(t)  PROVE DoneStays
  BY <1>4 DEF Sign, Mine
<1>5. ASSUME NEW t \in Transfers, Throws(t) \/ Found(t) \/ NoHash(t) \/ CloseTab(t)
      PROVE  DoneStays
  BY <1>5 DEF Throws, Found, NoHash, CloseTab
<1>6. ASSUME NEW t \in Transfers, Post(t) \/ Report(t)  PROVE DoneStays
  BY <1>6 DEF Post, Report, AfterReport
<1>7. ASSUME NEW t \in Transfers,
             Receipt(t) \/ ReceiptTimesOut(t) \/ MarkPaid(t) \/ PostPayment(t) \/ TakeBack(t)
      PROVE  DoneStays
  BY <1>7 DEF Receipt, ReceiptTimesOut, MarkPaid, PostPayment, TakeBack
<1> QED  BY <1>1, <1>2, <1>3, <1>4, <1>5, <1>6, <1>7, Cases DEF PageNext

LEMMA SequelsStep ==
  ASSUME CorridorInv, [RecordsNext]_recordVars
  PROVE  SequelsOK'
<1> USE RecordsAssumption DEF CorridorInv, RecordsInv, RecordsTypeOK, SequelsOK, pages, Goes
<1>1. CASE Aside  BY <1>1, AsideStays
<1>2. ASSUME NEW t \in Transfers, NEW k, NEW c, Click(t, k, c)  PROVE SequelsOK'
  BY <1>2 DEF Click
<1>3. ASSUME NEW t \in Transfers, NEW u \in Transfers, ClickCorridor(t, u)  PROVE SequelsOK'
  BY <1>3 DEF ClickCorridor
<1>4. ASSUME NEW t \in Transfers, PageNext(t) \/ Mine(t),
             ~\E k \in {"send", "convert"} \cup Payers, c \in {"arc", "far", "dark"} : Click(t, k, c),
             ~\E u \in Transfers : ClickCorridor(t, u)
      PROVE  UNCHANGED <<kind, sequel>>
  BY <1>4 DEF PageNext, Mine, Sign, Throws, Found, NoHash, Post, Receipt, ReceiptTimesOut,
     Report, MarkPaid, PostPayment, TakeBack, CloseTab
<1> QED  BY <1>1, <1>2, <1>3, <1>4, Cases DEF PageNext

(* A queued leg moves only with its first leg: on, after a report of what  *)
(* was mined, or nowhere.                                                  *)
Released(t) ==
  \/ page'[sequel[t]] = "queued"
  \/ page'[t] = "done" /\ page'[sequel[t]] = "done" /\ UNCHANGED tx
  \/ page'[t] = "done" /\ hash[t] # Blank /\ tx[hash[t]] = "mined" /\ UNCHANGED <<hash, tx>>

LEMMA QueuedWaits ==
  ASSUME CorridorInv, [RecordsNext]_recordVars, NEW t \in Transfers,
         sequel[t] # Nothing, page[sequel[t]] = "queued"
  PROVE  Released(t)
<1> USE DEF CorridorInv, RecordsInv, RecordsTypeOK, Released, pages, Goes
<1>0. sequel[t] \in Transfers  OBVIOUS
<1>1. CASE Aside  BY <1>1, AsideStays
<1>2. ASSUME NEW v \in Transfers, NEW k, NEW c, Click(v, k, c)  PROVE Released(t)
  BY <1>2, <1>0 DEF Click
<1>3. ASSUME NEW v \in Transfers, NEW u \in Transfers, ClickCorridor(v, u)  PROVE Released(t)
  BY <1>3, <1>0 DEF ClickCorridor, Unsigned
<1>4. ASSUME NEW v \in Transfers,
             Sign(v) \/ Mine(v) \/ Throws(v) \/ Found(v) \/ NoHash(v) \/ Post(v)
      PROVE  Released(t)
  BY <1>4, <1>0 DEF Sign, Mine, Throws, Found, NoHash, Post
<1>5. ASSUME NEW v \in Transfers,
             Receipt(v) \/ ReceiptTimesOut(v) \/ MarkPaid(v) \/ PostPayment(v) \/ TakeBack(v)
      PROVE  Released(t)
  BY <1>5, <1>0 DEF Receipt, ReceiptTimesOut, MarkPaid, PostPayment, TakeBack
<1>6. ASSUME NEW v \in Transfers, Report(v) \/ CloseTab(v)  PROVE Released(t)
  <2>1. v # sequel[t] /\ UNCHANGED <<hash, tx>>
    BY <1>6, <1>0 DEF Report, CloseTab
  <2>2. CASE v # t
    <3>1. sequel[v] # sequel[t]  BY <2>2, <1>0 DEF SequelsOK
    <3>2. page'[sequel[t]] = page[sequel[t]]
      BY <1>6, <1>0, <2>1, <3>1 DEF Report, AfterReport, CloseTab
    <3> QED  BY <3>2
  <2>3. CASE v = t /\ CloseTab(v)
    BY <1>0, <2>1, <2>3 DEF CloseTab
  <2>4. CASE v = t /\ Report(v)
    BY <1>0, <2>1, <2>4 DEF Report, AfterReport, PagesKnow
  <2> QED  BY <1>6, <2>2, <2>3, <2>4
<1> QED  BY <1>1, <1>2, <1>3, <1>4, <1>5, <1>6, Cases DEF PageNext

LEMMA FirstLegStep ==
  ASSUME CorridorInv, Forward, DoneStays, [RecordsNext]_recordVars
  PROVE  FirstLegFirst'
<1> USE RecordsAssumption DEF CorridorInv, RecordsInv, RecordsTypeOK
<1> SUFFICES ASSUME NEW t \in Transfers, sequel'[t] # Nothing
             PROVE  FirstLegFirst!(t)'
  BY DEF FirstLegFirst
<1>1. CASE sequel[t] # Nothing
  <2>1. sequel'[t] = sequel[t] /\ sequel[t] \in Transfers
    BY <1>1 DEF SequelsOK, DoneStays
  <2>2. CASE page[sequel[t]] = "queued"
    BY <1>1, <2>1, <2>2, QueuedWaits DEF Released, Unsigned
  <2>3. CASE page[t] = "done" /\ page[sequel[t]] = "done" /\ tx[sequel[t]] = "none"
    BY <2>1, <2>3 DEF DoneStays
  <2>4. CASE page[t] = "done" /\ hash[t] # Blank /\ tx[hash[t]] = "mined"
    BY <2>1, <2>4 DEF DoneStays, Forward, Keys
  <2> QED  BY <1>1, <2>2, <2>3, <2>4 DEF FirstLegFirst
<1>2. CASE sequel[t] = Nothing
  <2>1. sequel' # sequel  BY <1>2
  <2>2. PICK v \in Transfers : \E u \in Transfers : ClickCorridor(v, u)
    BY <2>1, Cases, AsideStays DEF pages, PageNext, Mine, Click, Sign, Throws, Found, NoHash,
       Post, Receipt, ReceiptTimesOut, Report, MarkPaid, PostPayment, TakeBack, CloseTab
  <2>3. PICK u \in Transfers : ClickCorridor(v, u)  BY <2>2
  <2>4. v = t /\ sequel'[t] = u /\ page'[u] = "queued"
    BY <1>2, <2>3 DEF ClickCorridor
  <2> QED  BY <2>4
<1> QED  BY <1>1, <1>2

(* Who reports a failure it cannot know of gives its corridor up. *)
LEMMA FailuresStep ==
  ASSUME CorridorInv, Forward, DoneStays, [RecordsNext]_recordVars
  PROVE  FailuresHaveCause'
<1> USE RecordsAssumption DEF CorridorInv, RecordsInv, RecordsTypeOK, Keys
<1> SUFFICES ASSUME NEW t \in Transfers, row'[t] = "failed"
             PROVE  tx'[t] = "reverted" \/ \E v \in Transfers : hash'[v] = t /\ WentNoFurther(v)'
  BY DEF FailuresHaveCause
<1>1. CASE row[t] = "failed" /\ tx[t] # "reverted"
  <2>1. PICK v \in Transfers : hash[v] = t /\ WentNoFurther(v)
    BY <1>1 DEF FailuresHaveCause
  <2>2. hash'[v] = t /\ page'[v] = "done"
    BY <2>1 DEF WentNoFurther, DoneStays
  <2>3. kind[v] # "unused"  BY <2>1 DEF WentNoFurther, Unsigned
  <2>4. sequel'[v] = sequel[v]  BY <2>3 DEF DoneStays
  <2>5. WentNoFurther(v)'
    BY <2>1, <2>2, <2>4 DEF WentNoFurther, DoneStays
  <2> QED  BY <2>2, <2>5
<1>2. CASE tx[t] = "reverted"  BY <1>2 DEF Forward
<1>3. CASE row[t] # "failed" /\ tx[t] # "reverted"
  <2>1. row' # row  BY <1>3
  <2>2. CASE \E v \in Transfers : Report(v)
    <3>1. PICK v \in Transfers : Report(v)  BY <2>2
    <3>2. hash[v] = t /\ page[v] = "reportFailed"
      BY <1>3, <2>1, <3>1 DEF Report, Patched
    <3>3. UNCHANGED <<hash, tx, sequel>> /\ page' = AfterReport(v)
      BY <3>1 DEF Report
    <3>4. sequel[v] # Nothing => sequel[v] \in Transfers /\ page[sequel[v]] = "queued"
      BY <3>2 DEF FirstLegFirst
    <3>5. WentNoFurther(v)'
      BY <3>2, <3>3, <3>4 DEF WentNoFurther, AfterReport, Unsigned
    <3> QED  BY <3>2, <3>3, <3>5
  <2>3. CASE \E j \in Jobs : Update(j)
    <3>1. PICK j \in Jobs : Update(j)  BY <2>3
    <3>2. reading[j] = t /\ tx[t] # "mined"
      BY <1>3, <2>1, <3>1 DEF Update
    <3>3. tx[t] = "reverted"  BY <3>1, <3>2 DEF JobsKnow, Decided
    <3> QED  BY <1>3, <3>3
  <2>4. CASE \E v \in Transfers : Post(v)
    BY <1>3, <2>4 DEF Post, Inserted
  <2>5. ASSUME NEW v \in Transfers, PageNext(v) \/ Mine(v), ~Post(v), ~Report(v)
        PROVE  UNCHANGED row
    BY <2>5 DEF PageNext, Mine, records, Click, ClickCorridor, Sign, Throws, Found, NoHash,
       Receipt, ReceiptTimesOut, MarkPaid, PostPayment, TakeBack, CloseTab
  <2>6. ASSUME Aside, \A j \in Jobs : ~Update(j)  PROVE UNCHANGED row
    BY <2>6 DEF Aside, CreatorClicks, CreatorWrites, JobNext, Select, ReadReceipt, Skip,
       ApiStops, Switch, RefreshCache, recordVars, records
  <2> QED  BY <2>1, <2>2, <2>3, <2>4, <2>5, <2>6, Cases
<1> QED  BY <1>1, <1>2, <1>3

LEMMA CorridorStep == CorridorInv /\ [RecordsNext]_recordVars => CorridorInv'
<1> SUFFICES ASSUME CorridorInv, [RecordsNext]_recordVars  PROVE CorridorInv'
  OBVIOUS
<1>1. RecordsInv'  BY RecordsInvStep DEF CorridorInv
<1>2. Forward /\ DoneStays  BY StepForward, StepDoneStays DEF CorridorInv
<1> QED  BY <1>1, <1>2, SequelsStep, FirstLegStep, FailuresStep DEF CorridorInv

(* The second leg of a corridor is not sent before its first is confirmed  *)
(* on chain, and then nothing records the first as failed, for any number  *)
(* of corridors at once; of legs no page was given a wrong hash of         *)
(* (LegsInOrder).                                                          *)
THEOREM SecondLegWaits == RecordsSpec => []LegsInOrder
<1>1. CorridorInv => LegsInOrder
  <2> SUFFICES ASSUME CorridorInv, NEW t \in Transfers, sequel[t] # Nothing,
                      tx[sequel[t]] # "none", {v \in Transfers : hash[v] = t} = {t}
               PROVE  tx[t] = "mined" /\ row[t] # "failed"
    BY DEF LegsInOrder
  <2> USE RecordsAssumption DEF CorridorInv, RecordsInv, RecordsTypeOK
  <2>1. hash[t] = t /\ \A v \in Transfers : hash[v] = t => v = t
    OBVIOUS
  <2>2. page[sequel[t]] # "queued"  BY DEF Unsigned
  <2>3. tx[t] = "mined"  BY <2>1, <2>2 DEF FirstLegFirst
  <2>4. ~WentNoFurther(t)  BY DEF WentNoFurther
  <2> QED  BY <2>1, <2>3, <2>4 DEF FailuresHaveCause
<1> QED  BY <1>1, CorridorInit, CorridorStep, PTL DEF RecordsSpec
=============================================================================
