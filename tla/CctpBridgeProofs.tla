-------------------------- MODULE CctpBridgeProofs --------------------------
(***************************************************************************)
(* Proofs about the CCTP bridge, for any number of bridges and any faults: *)
(* type correctness, that a record which reads cancelled never had a burn  *)
(* signed for it, that a completed one has its mint, and that a mint which *)
(* is owed is offered.                                                     *)
(***************************************************************************)
EXTENDS CctpBridge, TLAPS

LEMMA InitType == BridgeInit => BridgeTypeOK
BY BridgeAssumption DEF BridgeInit, BridgeTypeOK, Record, TabSteps, PanelSteps

(* Every step of the tab, of the panel and of the chains keeps the types.  *)
LEMMA TabType ==
  ASSUME BridgeTypeOK, NEW b \in Bridges, TabNext(b)
  PROVE  BridgeTypeOK'
<1> USE BridgeAssumption DEF BridgeTypeOK, Record, Goes, Mark, chains, browser
<1>1. CASE Create(b)  BY <1>1 DEF Create, TabSteps
<1>2. CASE Approve(b)  BY <1>2 DEF Approve, TabSteps
<1>3. CASE PostBurning(b)  BY <1>3 DEF PostBurning, TabSteps
<1>4. CASE SignBurn(b)  BY <1>4 DEF SignBurn, TabSteps
<1>5. CASE UserCancels(b)  BY <1>5 DEF UserCancels, TabSteps
<1>6. CASE BurnFound(b)  BY <1>6 DEF BurnFound, Listed, TabSteps
<1>7. CASE CallThrows(b)  BY <1>7 DEF CallThrows, TabSteps
<1>8. CASE PostBurned(b)  BY <1>8 DEF PostBurned, TabSteps
<1>9. CASE PostBurnedLate(b)  BY <1>9 DEF PostBurnedLate, TabSteps
<1>10. CASE ServeBurned(b)  BY <1>10 DEF ServeBurned
<1>11. CASE PostAttested(b)  BY <1>11 DEF PostAttested, TabSteps
<1>12. CASE AttestationTimesOut(b)  BY <1>12 DEF AttestationTimesOut, TabSteps
<1>13. CASE SignMint(b)  BY <1>13 DEF SignMint, TabSteps
<1>14. CASE MintReturns(b)  BY <1>14 DEF MintReturns, TabSteps
<1>15. CASE PostCompleted(b)  BY <1>15 DEF PostCompleted, TabSteps
<1>16. CASE ReadRecord(b)  BY <1>16 DEF ReadRecord, Outcome, TabSteps
<1>17. CASE WriteOutcome(b)  BY <1>17 DEF WriteOutcome, TabSteps
<1>18. CASE RequestLost(b)  BY <1>18 DEF RequestLost, TabSteps
<1>19. CASE PageClosed(b)  BY <1>19 DEF PageClosed, TabSteps, PanelSteps
<1> QED
  BY <1>1, <1>2, <1>3, <1>4, <1>5, <1>6, <1>7, <1>8, <1>9, <1>10, <1>11, <1>12,
     <1>13, <1>14, <1>15, <1>16, <1>17, <1>18, <1>19 DEF TabNext

LEMMA PanelType ==
  ASSUME BridgeTypeOK, NEW b \in Bridges, PanelNext(b)
  PROVE  BridgeTypeOK'
<1> USE BridgeAssumption DEF BridgeTypeOK, Record, PanelGoes, Mark, chains, PanelSteps
<1>1. CASE ClickComplete(b)  BY <1>1 DEF ClickComplete
<1>2. CASE PanelPostAttested(b)  BY <1>2 DEF PanelPostAttested
<1>3. CASE PanelSignMint(b)  BY <1>3 DEF PanelSignMint
<1>4. CASE PanelMintReturns(b)  BY <1>4 DEF PanelMintReturns
<1>5. CASE PanelPostCompleted(b)  BY <1>5 DEF PanelPostCompleted
<1>6. CASE PanelThrows(b)  BY <1>6 DEF PanelThrows
<1>7. CASE PanelRequestLost(b)  BY <1>7 DEF PanelRequestLost
<1> QED BY <1>1, <1>2, <1>3, <1>4, <1>5, <1>6, <1>7 DEF PanelNext

LEMMA ChainsType ==
  ASSUME BridgeTypeOK, ChainsNext
  PROVE  BridgeTypeOK'
<1> USE BridgeAssumption DEF BridgeTypeOK, Record, browser
<1>1. CASE \E b \in Bridges : BurnMined(b)  BY <1>1 DEF BurnMined
<1>2. CASE \E b \in Bridges : Attest(b)  BY <1>2 DEF Attest
<1>3. CASE \E b \in Bridges, flow \in {"tab", "panel"} : MintMined(flow, b)
  <2>1. PICK b \in Bridges, flow \in {"tab", "panel"} : MintMined(flow, b)  BY <1>3
  <2>2. mint' \in [{"tab", "panel"} \X Bridges -> {"none", "sent", "mined", "dropped"}]
    BY <2>1 DEF MintMined
  <2>3. minted' \subseteq Bridges
    BY <2>1 DEF MintMined
  <2> QED BY <2>1, <2>2, <2>3 DEF MintMined
<1>4. CASE Dropped  BY <1>4 DEF Dropped
<1> QED BY <1>1, <1>2, <1>3, <1>4 DEF ChainsNext

LEMMA StepType == BridgeTypeOK /\ [BridgeNext]_bridgeVars => BridgeTypeOK'
<1> SUFFICES ASSUME BridgeTypeOK, [BridgeNext]_bridgeVars PROVE BridgeTypeOK'
  OBVIOUS
<1>1. CASE UNCHANGED bridgeVars  BY <1>1 DEF bridgeVars, BridgeTypeOK
<1> QED BY <1>1, TabType, PanelType, ChainsType DEF BridgeNext

(* The bridge's state keeps its types (BridgeTypeOK): the stages of the    *)
(* tab, of the panel and of the record are the ones the code writes.       *)
THEOREM BridgeTypeCorrect == BridgeSpec => []BridgeTypeOK
BY InitType, StepType, PTL DEF BridgeSpec

-----------------------------------------------------------------------------
(* CancelledMeansNothingMoved.  The prompts whose dismissal leads to        *)
(* /cancelled all come before the burn is signed, and a tab that wrote      *)
(* cancelled signs nothing more.                                           *)

BeforeBurn == {"idle", "approving", "announcing", "burning", "cancelling", "writeCancelled"}

NothingSigned ==
  \A b \in Bridges :
    /\ tab[b] \in BeforeBurn => burn[b] = "none"
    /\ rec[b].status = "cancelled" => tab[b] = "done" /\ burn[b] = "none"

LEMMA InitSigned == BridgeInit => NothingSigned
BY DEF BridgeInit, NothingSigned, BeforeBurn

(* A step of the tab of one bridge leaves the others alone.                *)
LEMMA TabSigned ==
  ASSUME BridgeTypeOK, NothingSigned, NEW b \in Bridges, TabNext(b)
  PROVE  NothingSigned'
<1> USE DEF BridgeTypeOK, Record, Goes, Mark, chains, browser, NothingSigned, BeforeBurn
<1>1. CASE Create(b)  BY <1>1 DEF Create
<1>2. CASE Approve(b)  BY <1>2 DEF Approve
<1>3. CASE PostBurning(b)  BY <1>3 DEF PostBurning
<1>4. CASE SignBurn(b)  BY <1>4 DEF SignBurn
<1>5. CASE UserCancels(b)  BY <1>5 DEF UserCancels
<1>6. CASE BurnFound(b)  BY <1>6 DEF BurnFound
<1>7. CASE CallThrows(b)  BY <1>7 DEF CallThrows
<1>8. CASE PostBurned(b)  BY <1>8 DEF PostBurned
<1>9. CASE PostBurnedLate(b)  BY <1>9 DEF PostBurnedLate
<1>10. CASE ServeBurned(b)  BY <1>10 DEF ServeBurned
<1>11. CASE PostAttested(b)  BY <1>11 DEF PostAttested
<1>12. CASE AttestationTimesOut(b)  BY <1>12 DEF AttestationTimesOut
<1>13. CASE SignMint(b)  BY <1>13 DEF SignMint
<1>14. CASE MintReturns(b)  BY <1>14 DEF MintReturns
<1>15. CASE PostCompleted(b)  BY <1>15 DEF PostCompleted
<1>16. CASE ReadRecord(b)  BY <1>16 DEF ReadRecord, Outcome
<1>17. CASE WriteOutcome(b)  BY <1>17 DEF WriteOutcome
<1>18. CASE RequestLost(b)  BY <1>18 DEF RequestLost
<1>19. CASE PageClosed(b)  BY <1>19 DEF PageClosed
<1> QED
  BY <1>1, <1>2, <1>3, <1>4, <1>5, <1>6, <1>7, <1>8, <1>9, <1>10, <1>11, <1>12,
     <1>13, <1>14, <1>15, <1>16, <1>17, <1>18, <1>19 DEF TabNext

LEMMA PanelSigned ==
  ASSUME BridgeTypeOK, NothingSigned, NEW b \in Bridges, PanelNext(b)
  PROVE  NothingSigned'
<1> USE DEF BridgeTypeOK, Record, PanelGoes, Mark, chains, NothingSigned
<1>1. CASE PanelPostAttested(b)  BY <1>1 DEF PanelPostAttested
<1>2. CASE PanelPostCompleted(b)  BY <1>2 DEF PanelPostCompleted
<1>3. CASE UNCHANGED <<tab, rec, burn>>  BY <1>3
<1> QED
  BY <1>1, <1>2, <1>3 DEF PanelNext, ClickComplete, PanelSignMint, PanelMintReturns,
                           PanelThrows, PanelRequestLost

LEMMA ChainsSigned ==
  ASSUME BridgeTypeOK, NothingSigned, ChainsNext
  PROVE  NothingSigned'
<1>1. /\ UNCHANGED <<tab, rec>>
      /\ \A b \in Bridges : burn[b] = "none" => burn'[b] = "none"
  BY DEF ChainsNext, BurnMined, Attest, MintMined, Dropped, browser, BridgeTypeOK
<1> QED BY <1>1 DEF NothingSigned

LEMMA StepSigned ==
  BridgeTypeOK /\ NothingSigned /\ [BridgeNext]_bridgeVars => NothingSigned'
<1> SUFFICES ASSUME BridgeTypeOK, NothingSigned, [BridgeNext]_bridgeVars
             PROVE  NothingSigned'
  OBVIOUS
<1>1. CASE UNCHANGED bridgeVars  BY <1>1 DEF bridgeVars, NothingSigned
<1> QED BY <1>1, TabSigned, PanelSigned, ChainsSigned DEF BridgeNext

(* A record that reads cancelled never had a burn signed                   *)
(* (CancelledMeansNothingMoved), whatever requests are lost, late or       *)
(* dropped and whatever the panel does to the record meanwhile.            *)
THEOREM CancelledNeverBurned == BridgeSpec => []CancelledMeansNothingMoved
<1>1. NothingSigned => CancelledMeansNothingMoved
  BY DEF NothingSigned, CancelledMeansNothingMoved
<1> QED BY <1>1, InitSigned, StepSigned, BridgeTypeCorrect, PTL DEF BridgeSpec

-----------------------------------------------------------------------------
(* CompletedHasMint and OwedMintIsOffered.  A record names no burn but the *)
(* one bridge() found, and nothing changes it once it does; who is about   *)
(* to mint has seen that burn attested; who completes has sent a mint, or  *)
(* met one made already.                                                   *)

BeforeFound == {"idle", "approving", "announcing", "burning", "confirming"}
Attested == {"minting", "mintSent", "completing"}
Flows == {"tab", "panel"}

RecordOK(b) ==
  /\ rec[b].burnTx \in {NoTx, found[b]}
  /\ tab[b] \in BeforeFound => found[b] = NoTx
  /\ tab[b] \in BeforeFound \cup {"recording"} => late[b] = "none"
  /\ tab[b] \in Attested \cup {"attesting"} => rec[b].burnTx = found[b]

MintOK(b) ==
  /\ tab[b] \in Attested \/ panel[b] # "idle" => rec[b].burnTx \in attested
  /\ \A f \in Flows :
       /\ mint[<<f, b>>] # "none" => rec[b].burnTx \in attested
       /\ mint[<<f, b>>] = "mined" => rec[b].burnTx \in minted
       /\ mint[<<f, b>>] = "dropped" /\ dropped = 0 => rec[b].burnTx \in minted

CompleteOK(b) ==
  /\ tab[b] \in {"mintSent", "completing"} => mint[<<"tab", b>>] # "none"
  /\ panel[b] = "mintSent" => mint[<<"panel", b>>] # "none"
  /\ panel[b] = "completing" => mint[<<"panel", b>>] # "none" \/ rec[b].burnTx \in minted
  /\ rec[b].status = "completed" =>
       rec[b].burnTx \in minted \/ \E f \in Flows : mint[<<f, b>>] # "none"

FailedOK(b) ==
  rec[b].status = "failed" \/ tab[b] = "writeFailed" => rec[b].burnTx = NoTx \/ late[b] = "served"

BridgeOK(b) == RecordOK(b) /\ MintOK(b) /\ CompleteOK(b) /\ FailedOK(b)

BridgesOK == \A b \in Bridges : BridgeOK(b)

LEMMA InitBridges == BridgeInit => BridgesOK
BY DEF BridgeInit, BridgesOK, BridgeOK, RecordOK, MintOK, CompleteOK, FailedOK,
       BeforeFound, Attested, Flows

(* A bridge none of whose own state moves is as it was, though more burns  *)
(* may be attested or minted.                                              *)
Unmoved(c) ==
  /\ UNCHANGED <<rec[c], tab[c], found[c], panel[c], late[c]>>
  /\ UNCHANGED <<mint[<<"tab", c>>], mint[<<"panel", c>>]>>

Grows ==
  /\ attested \subseteq attested' /\ minted \subseteq minted'
  /\ dropped' = 0 => dropped = 0

LEMMA UnmovedOK ==
  ASSUME BridgeTypeOK, NEW c \in Bridges, BridgeOK(c), Unmoved(c), Grows
  PROVE  BridgeOK(c)'
BY DEF BridgeTypeOK, BridgeOK, RecordOK, MintOK, CompleteOK, FailedOK, Unmoved, Grows, Flows,
       BeforeFound, Attested

LEMMA TabGrows ==
  ASSUME BridgeTypeOK, NEW b \in Bridges, TabNext(b) \/ PanelNext(b)
  PROVE  Grows /\ \A c \in Bridges \ {b} : Unmoved(c)
<1> USE DEF BridgeTypeOK, Goes, Mark, PanelGoes, chains, browser, Grows, Unmoved
<1>1. CASE Create(b)  BY <1>1 DEF Create
<1>2. CASE Approve(b)  BY <1>2 DEF Approve
<1>3. CASE PostBurning(b)  BY <1>3 DEF PostBurning
<1>4. CASE SignBurn(b)  BY <1>4 DEF SignBurn
<1>5. CASE UserCancels(b)  BY <1>5 DEF UserCancels
<1>6. CASE BurnFound(b)  BY <1>6 DEF BurnFound
<1>7. CASE CallThrows(b)  BY <1>7 DEF CallThrows
<1>8. CASE PostBurned(b)  BY <1>8 DEF PostBurned
<1>9. CASE PostBurnedLate(b)  BY <1>9 DEF PostBurnedLate
<1>10. CASE ServeBurned(b)  BY <1>10 DEF ServeBurned
<1>11. CASE PostAttested(b)  BY <1>11 DEF PostAttested
<1>12. CASE AttestationTimesOut(b)  BY <1>12 DEF AttestationTimesOut
<1>13. CASE SignMint(b)  BY <1>13 DEF SignMint
<1>14. CASE MintReturns(b)  BY <1>14 DEF MintReturns
<1>15. CASE PostCompleted(b)  BY <1>15 DEF PostCompleted
<1>16. CASE ReadRecord(b)  BY <1>16 DEF ReadRecord
<1>17. CASE WriteOutcome(b)  BY <1>17 DEF WriteOutcome
<1>18. CASE RequestLost(b)  BY <1>18 DEF RequestLost
<1>19. CASE PageClosed(b)  BY <1>19 DEF PageClosed
<1>20. CASE ClickComplete(b)  BY <1>20 DEF ClickComplete
<1>21. CASE PanelPostAttested(b)  BY <1>21 DEF PanelPostAttested
<1>22. CASE PanelSignMint(b)  BY <1>22 DEF PanelSignMint
<1>23. CASE PanelMintReturns(b)  BY <1>23 DEF PanelMintReturns
<1>24. CASE PanelPostCompleted(b)  BY <1>24 DEF PanelPostCompleted
<1>25. CASE PanelThrows(b)  BY <1>25 DEF PanelThrows
<1>26. CASE PanelRequestLost(b)  BY <1>26 DEF PanelRequestLost
<1> QED
  BY <1>1, <1>2, <1>3, <1>4, <1>5, <1>6, <1>7, <1>8, <1>9, <1>10, <1>11, <1>12,
     <1>13, <1>14, <1>15, <1>16, <1>17, <1>18, <1>19, <1>20, <1>21, <1>22, <1>23,
     <1>24, <1>25, <1>26
     DEF TabNext, PanelNext

LEMMA TabOK ==
  ASSUME BridgeTypeOK, NEW b \in Bridges, BridgeOK(b), TabNext(b)
  PROVE  BridgeOK(b)'
<1> USE BridgeAssumption
    DEF BridgeTypeOK, Record, Goes, Mark, chains, browser, BridgeOK, RecordOK, MintOK,
            CompleteOK, FailedOK, BeforeFound, Attested, Flows
<1>1. CASE Create(b)  BY <1>1 DEF Create
<1>2. CASE Approve(b)  BY <1>2 DEF Approve
<1>3. CASE PostBurning(b)  BY <1>3 DEF PostBurning
<1>4. CASE SignBurn(b)  BY <1>4 DEF SignBurn
<1>5. CASE UserCancels(b)  BY <1>5 DEF UserCancels
<1>6. CASE BurnFound(b)  BY <1>6 DEF BurnFound, Listed
<1>7. CASE CallThrows(b)  BY <1>7 DEF CallThrows
<1>8. CASE PostBurned(b)  BY <1>8 DEF PostBurned
<1>9. CASE PostBurnedLate(b)  BY <1>9 DEF PostBurnedLate
<1>10. CASE ServeBurned(b)  BY <1>10 DEF ServeBurned
<1>11. CASE PostAttested(b)  BY <1>11 DEF PostAttested
<1>12. CASE AttestationTimesOut(b)  BY <1>12 DEF AttestationTimesOut
<1>13. CASE SignMint(b)  BY <1>13 DEF SignMint
<1>14. CASE MintReturns(b)  BY <1>14 DEF MintReturns
<1>15. CASE PostCompleted(b)  BY <1>15 DEF PostCompleted
<1>16. CASE ReadRecord(b)  BY <1>16 DEF ReadRecord, Outcome
<1>17. CASE WriteOutcome(b)  BY <1>17 DEF WriteOutcome
<1>18. CASE RequestLost(b)  BY <1>18 DEF RequestLost
<1>19. CASE PageClosed(b)  BY <1>19 DEF PageClosed
<1> QED
  BY <1>1, <1>2, <1>3, <1>4, <1>5, <1>6, <1>7, <1>8, <1>9, <1>10, <1>11, <1>12,
     <1>13, <1>14, <1>15, <1>16, <1>17, <1>18, <1>19 DEF TabNext

LEMMA PanelOK ==
  ASSUME BridgeTypeOK, NEW b \in Bridges, BridgeOK(b), PanelNext(b)
  PROVE  BridgeOK(b)'
<1> USE BridgeAssumption DEF BridgeTypeOK, Record, PanelGoes, Mark, chains, BridgeOK, RecordOK,
            MintOK, CompleteOK, FailedOK, BeforeFound, Attested, Flows
<1>1. CASE ClickComplete(b)  BY <1>1 DEF ClickComplete, Offered
<1>2. CASE PanelPostAttested(b)  BY <1>2 DEF PanelPostAttested
<1>3. CASE PanelSignMint(b)  BY <1>3 DEF PanelSignMint
<1>4. CASE PanelMintReturns(b)  BY <1>4 DEF PanelMintReturns
<1>5. CASE PanelPostCompleted(b)  BY <1>5 DEF PanelPostCompleted
<1>6. CASE PanelThrows(b)  BY <1>6 DEF PanelThrows
<1>7. CASE PanelRequestLost(b)  BY <1>7 DEF PanelRequestLost
<1> QED
  BY <1>1, <1>2, <1>3, <1>4, <1>5, <1>6, <1>7 DEF PanelNext

(* The chains: a mint of an attested burn is mined, or drops because that  *)
(* burn is minted already; only the network's drops count in dropped.      *)
LEMMA ChainsOK ==
  ASSUME BridgeTypeOK, BridgesOK, ChainsNext
  PROVE  BridgesOK'
<1> USE DEF BridgeTypeOK, browser, BridgesOK
<1>1. ASSUME NEW b \in Bridges, BurnMined(b) \/ Attest(b)  PROVE BridgesOK'
  <2>1. Grows /\ \A c \in Bridges : Unmoved(c)
    BY <1>1 DEF BurnMined, Attest, Grows, Unmoved
  <2> QED  BY <2>1, UnmovedOK
<1>2. ASSUME NEW b \in Bridges, NEW flow \in Flows, MintMined(flow, b)  PROVE BridgesOK'
  <2>1. Grows /\ \A c \in Bridges \ {b} : Unmoved(c)
    BY <1>2 DEF MintMined, Grows, Unmoved, Flows
  <2>2. BridgeOK(b)'
    BY <1>2 DEF MintMined, BridgeOK, RecordOK, MintOK, CompleteOK, FailedOK, Flows
  <2> QED  BY <2>1, <2>2, UnmovedOK
<1>3. CASE Dropped
  <2>1. ASSUME NEW b \in Bridges  PROVE BridgeOK(b)'
    <3>1. dropped' # 0  BY <1>3 DEF Dropped
    <3>2. \A f \in Flows :
            mint'[<<f, b>>] = mint[<<f, b>>]
            \/ (mint[<<f, b>>] = "sent" /\ mint'[<<f, b>>] = "dropped")
      BY <1>3 DEF Dropped, Flows
    <3>3. UNCHANGED <<rec, tab, found, panel, late, attested, minted>>  BY <1>3 DEF Dropped
    <3>4. BridgeOK(b)  OBVIOUS
    <3> QED
      BY <3>1, <3>2, <3>3, <3>4
         DEF BridgeOK, RecordOK, MintOK, CompleteOK, FailedOK, Flows
  <2> QED  BY <2>1
<1> QED  BY <1>1, <1>2, <1>3 DEF ChainsNext, Flows

LEMMA StepBridges ==
  BridgeTypeOK /\ BridgesOK /\ [BridgeNext]_bridgeVars => BridgesOK'
<1> SUFFICES ASSUME BridgeTypeOK, BridgesOK, [BridgeNext]_bridgeVars
             PROVE  BridgesOK'
  OBVIOUS
<1>1. CASE UNCHANGED bridgeVars
  <2>1. Grows /\ \A c \in Bridges : Unmoved(c)  BY <1>1 DEF bridgeVars, Grows, Unmoved
  <2> QED  BY <2>1, UnmovedOK DEF BridgesOK
<1>2. ASSUME NEW b \in Bridges, TabNext(b) \/ PanelNext(b)  PROVE BridgesOK'
  <2>1. BridgeOK(b)'  BY <1>2, TabOK, PanelOK DEF BridgesOK
  <2>2. ASSUME NEW c \in Bridges \ {b}  PROVE BridgeOK(c)'
    BY <1>2, TabGrows, UnmovedOK DEF BridgesOK
  <2> QED  BY <2>1, <2>2 DEF BridgesOK
<1> QED  BY <1>1, <1>2, ChainsOK DEF BridgeNext

LEMMA AlwaysBridges == BridgeSpec => []BridgesOK
<1>1. BridgeTypeOK /\ BridgeTypeOK' /\ BridgesOK /\ [BridgeNext]_bridgeVars => BridgesOK'
  BY StepBridges
<1> QED  BY <1>1, InitBridges, BridgeTypeCorrect, PTL DEF BridgeSpec

(* A record completed by either flow, on a hash or on none, has its burn   *)
(* minted or a mint of it on the way, unless the network dropped a         *)
(* transaction (CompletedHasMint), for any number of bridges and faults.   *)
THEOREM CompletedWasMinted == BridgeSpec => []CompletedHasMint
<1>1. BridgeTypeOK /\ BridgesOK => CompletedHasMint
  BY DEF BridgeTypeOK, BridgesOK, BridgeOK, MintOK, CompleteOK, CompletedHasMint, Flows
<1> QED  BY <1>1, AlwaysBridges, BridgeTypeCorrect, PTL

(* A mint that is owed and not under way is offered by the panel           *)
(* (OwedMintIsOffered), whatever tab closes and whatever report is lost or *)
(* late, but for the two records the property names.                       *)
THEOREM OwedMintStaysInReach == BridgeSpec => []OwedMintIsOffered
<1>1. BridgeTypeOK /\ BridgesOK => OwedMintIsOffered
  BY BridgeAssumption
     DEF BridgeTypeOK, BridgesOK, BridgeOK, MintOK, CompleteOK, FailedOK, OwedMintIsOffered,
         Offered, Flows
<1> QED  BY <1>1, AlwaysBridges, BridgeTypeCorrect, PTL
=============================================================================
