----------------------------- MODULE CctpBridge -----------------------------
(***************************************************************************)
(* Bridging USDC with CCTP: the browser burns on the source chain, waits   *)
(* for Circle's attestation and mints on the destination chain             *)
(* (hooks/useBridge.ts), reporting each stage to the API, which keeps one  *)
(* record per bridge (services/bridge/repository.ts).  A record whose mint *)
(* is owed can be finished from the history panel of the same page         *)
(* (hooks/useCompleteBridge.ts), while the first flow still runs or later. *)
(* The server's reconciler only reports and changes nothing.               *)
(*                                                                         *)
(* A burn is known by the bridge it was signed for.  executeContractCall   *)
(* does not get a transaction id: it polls Circle's list, by contract and  *)
(* chain, until some transaction shows a hash, mined or not, and gives up  *)
(* after 40 polls.  The bridges of an instance have one user, one source   *)
(* and one destination chain.                                              *)
(***************************************************************************)
EXTENDS Naturals, FiniteSets

CONSTANTS
  Bridges,
  NoTx,         \* burn_tx IS NULL
  ListLags,     \* whether Circle may list a transaction later than we poll
  MaxLost,      \* bound: requests that fail and tabs closed
  MaxLate,      \* bound: /burned requests that fail here and are served later
  MaxDropped    \* bound: transactions broadcast that revert or are never mined

ASSUME BridgeAssumption ==
  /\ NoTx \notin Bridges
  /\ ListLags \in BOOLEAN
  /\ MaxLost \in Nat /\ MaxLate \in Nat /\ MaxDropped \in Nat

VARIABLES
  rec,       \* bridge_transfers
  tab,       \* per bridge, where bridge() is
  found,     \* per bridge, the burn hash bridge() got from the lookup
  panel,     \* per bridge, where complete() is
  late,      \* per bridge, a /burned request that outlived its flow
  burn,      \* burns on the source chain
  attested,  \* burns Circle has attested
  mint,      \* per flow and bridge, the mint it sent
  minted,    \* burns minted on the destination chain
  lost, dropped   \* history: faults so far

browser == <<tab, found, panel>>
chains == <<burn, attested, mint, minted>>
bridgeVars == <<rec, tab, found, panel, late, burn, attested, mint, minted, lost, dropped>>

Record == [status: {"none", "created", "burning", "attesting", "minting",
                    "completed", "failed", "stranded", "cancelled"},
           burnTx: Bridges \cup {NoTx}]

TabSteps == {"idle", "approving", "announcing", "burning", "confirming", "recording",
             "attesting", "minting", "mintSent", "completing", "done",
             "failing", "cancelling", "writeFailed", "writeCancelled", "writeStranded"}
PanelSteps == {"idle", "reporting", "minting", "mintSent", "completing"}

BridgeTypeOK ==
  /\ rec \in [Bridges -> Record]
  /\ tab \in [Bridges -> TabSteps]
  /\ found \in [Bridges -> Bridges \cup {NoTx}]
  /\ panel \in [Bridges -> PanelSteps]
  /\ late \in [Bridges -> {"none", "underway", "served"}]
  /\ burn \in [Bridges -> {"none", "sent", "mined", "dropped"}]
  /\ attested \subseteq Bridges
  /\ mint \in [{"tab", "panel"} \X Bridges -> {"none", "sent", "mined", "dropped"}]
  /\ minted \subseteq Bridges
  /\ lost \in 0 .. MaxLost
  /\ dropped \in 0 .. MaxDropped

BridgeInit ==
  /\ rec = [b \in Bridges |-> [status |-> "none", burnTx |-> NoTx]]
  /\ tab = [b \in Bridges |-> "idle"]
  /\ found = [b \in Bridges |-> NoTx]
  /\ panel = [b \in Bridges |-> "idle"]
  /\ late = [b \in Bridges |-> "none"]
  /\ burn = [b \in Bridges |-> "none"]
  /\ attested = {}
  /\ mint = [m \in {"tab", "panel"} \X Bridges |-> "none"]
  /\ minted = {}
  /\ lost = 0
  /\ dropped = 0

Goes(b, from, to) == tab[b] = from /\ tab' = [tab EXCEPT ![b] = to]
Mark(b, status) == rec' = [rec EXCEPT ![b].status = status]

-----------------------------------------------------------------------------
(* bridge() up to the burn: POST /bridge before anything is signed,        *)
(* approve, POST /burning, depositForBurn.                                 *)

Create(b) ==
  /\ Goes(b, "idle", "approving")
  /\ Mark(b, "created")
  /\ UNCHANGED <<found, panel, late, chains, lost, dropped>>

Approve(b) ==
  /\ Goes(b, "approving", "announcing")
  /\ UNCHANGED <<rec, found, panel, late, chains, lost, dropped>>

PostBurning(b) ==
  /\ Goes(b, "announcing", "burning")
  /\ Mark(b, "burning")
  /\ UNCHANGED <<found, panel, late, chains, lost, dropped>>

SignBurn(b) ==
  /\ Goes(b, "burning", "confirming")
  /\ burn' = [burn EXCEPT ![b] = "sent"]
  /\ UNCHANGED <<rec, found, panel, late, attested, mint, minted, lost, dropped>>

(* UserCancelledError from one of the prompts; before the burn it is a     *)
(* cancellation, afterwards a failure like any other.                      *)
UserCancels(b) ==
  /\ \/ tab[b] \in {"approving", "burning"} /\ tab' = [tab EXCEPT ![b] = "cancelling"]
     \/ Goes(b, "minting", "failing")
  /\ UNCHANGED <<rec, found, panel, late, chains, lost, dropped>>

(* findContractExecution: the newest transaction of this user on this      *)
(* contract, from two minutes before the call on.                          *)
Listed(b) == {c \in Bridges : burn[c] \in {"sent", "mined"} /\ (c = b \/ ListLags)}

BurnFound(b) ==
  /\ Goes(b, "confirming", "recording")
  /\ \E c \in Listed(b) : found' = [found EXCEPT ![b] = c]
  /\ UNCHANGED <<rec, panel, late, chains, lost, dropped>>

(* executeContractCall throws: nothing could be prepared, the signing      *)
(* session expired, the call reverted, or track of it was lost; bridge()   *)
(* itself throws when no hash showed in 40 polls.                          *)
CallThrowsAsCancelled(b) ==
  /\ tab[b] \in {"approving", "burning", "confirming", "minting", "mintSent"}
  /\ tab' = [tab EXCEPT ![b] = IF found[b] = NoTx THEN "cancelling" ELSE "failing"]
  /\ UNCHANGED <<rec, found, panel, late, chains, lost, dropped>>

CallThrows(b) ==
  /\ tab[b] \in {"approving", "burning", "confirming", "minting", "mintSent"}
  /\ tab' = [tab EXCEPT ![b] = "failing"]
  /\ UNCHANGED <<rec, found, panel, late, chains, lost, dropped>>

-----------------------------------------------------------------------------
(* From the burn to the mint. *)

PostBurned(b) ==
  /\ Goes(b, "recording", "attesting")
  /\ rec' = [rec EXCEPT ![b] = [status |-> "attesting", burnTx |-> found[b]]]
  /\ UNCHANGED <<found, panel, late, chains, lost, dropped>>

(* The browser sees the request fail, the API serves it nevertheless. *)
PostBurnedLate(b) ==
  /\ Cardinality({c \in Bridges : late[c] # "none"}) < MaxLate
  /\ Goes(b, "recording", "failing")
  /\ late' = [late EXCEPT ![b] = "underway"]
  /\ UNCHANGED <<rec, found, panel, chains, lost, dropped>>

ServeBurned(b) ==
  /\ late[b] = "underway"
  /\ late' = [late EXCEPT ![b] = "served"]
  /\ rec' = [rec EXCEPT ![b] = [status |-> "attesting", burnTx |-> found[b]]]
  /\ UNCHANGED <<browser, chains, lost, dropped>>

(* The poll of five minutes, then POST /attested. *)
PostAttested(b) ==
  /\ found[b] \in attested
  /\ Goes(b, "attesting", "minting")
  /\ Mark(b, "minting")
  /\ UNCHANGED <<found, panel, late, chains, lost, dropped>>

AttestationTimesOut(b) ==
  /\ Goes(b, "attesting", "failing")
  /\ UNCHANGED <<rec, found, panel, late, chains, lost, dropped>>

SignMint(b) ==
  /\ Goes(b, "minting", "mintSent")
  /\ mint' = [mint EXCEPT ![<<"tab", b>>] = "sent"]
  /\ UNCHANGED <<rec, found, panel, late, burn, attested, minted, lost, dropped>>

(* A hash shows, or none does in 40 polls: mintTx is 'pending' then. *)
MintReturns(b) ==
  /\ mint[<<"tab", b>>] # "dropped"
  /\ Goes(b, "mintSent", "completing")
  /\ UNCHANGED <<rec, found, panel, late, chains, lost, dropped>>

PostCompletedMisspelt(b) ==
  /\ Goes(b, "completing", "done")
  /\ Mark(b, "complete")
  /\ UNCHANGED <<found, panel, late, chains, lost, dropped>>

PostCompleted(b) ==
  /\ Goes(b, "completing", "done")
  /\ Mark(b, "completed")
  /\ UNCHANGED <<found, panel, late, chains, lost, dropped>>

-----------------------------------------------------------------------------
(* The catch block: POST /cancelled or /failed.  markFailed and            *)
(* markCancelled read the record and decide, then write.                   *)

OutcomeUnread(b, harmless) == harmless

Outcome(b, harmless) == IF rec[b].burnTx = NoTx THEN harmless ELSE "writeStranded"

ReadRecord(b) ==
  /\ \/ Goes(b, "failing", Outcome(b, "writeFailed"))
     \/ Goes(b, "cancelling", Outcome(b, "writeCancelled"))
  /\ UNCHANGED <<rec, found, panel, late, chains, lost, dropped>>

WriteOutcome(b) ==
  /\ \/ tab[b] = "writeFailed" /\ Mark(b, "failed")
     \/ tab[b] = "writeCancelled" /\ Mark(b, "cancelled")
     \/ tab[b] = "writeStranded" /\ Mark(b, "stranded")
  /\ tab' = [tab EXCEPT ![b] = "done"]
  /\ UNCHANGED <<found, panel, late, chains, lost, dropped>>

(* A request of bridge() that fails and is not served: it goes to the      *)
(* catch block, whose own requests are fire and forget.                    *)
RequestLost(b) ==
  /\ lost < MaxLost
  /\ \/ /\ tab[b] \in {"announcing", "recording", "attesting", "completing"}
        /\ tab' = [tab EXCEPT ![b] = "failing"]
     \/ /\ tab[b] \in {"failing", "cancelling"}
        /\ tab' = [tab EXCEPT ![b] = "done"]
  /\ lost' = lost + 1
  /\ UNCHANGED <<rec, found, panel, late, chains, dropped>>

(* The tab is closed: both flows of the page end where they are.           *)
PageClosed(b) ==
  /\ lost < MaxLost
  /\ tab[b] # "idle"
  /\ tab' = [tab EXCEPT ![b] = IF @ \in {"writeFailed", "writeCancelled", "writeStranded"}
                               THEN @ ELSE "done"]
  /\ panel' = [panel EXCEPT ![b] = "idle"]
  /\ lost' = lost + 1
  /\ UNCHANGED <<rec, found, late, chains, dropped>>

-----------------------------------------------------------------------------
(* complete(), from the "Complete transfer" button of the history panel.   *)

Offered(b) == rec[b].burnTx # NoTx /\ rec[b].status \notin {"completed", "failed"}

PanelGoes(b, from, to) == panel[b] = from /\ panel' = [panel EXCEPT ![b] = to]

ClickComplete(b) ==
  /\ Offered(b)
  /\ rec[b].burnTx \in attested
  /\ PanelGoes(b, "idle", "reporting")
  /\ UNCHANGED <<rec, tab, found, late, chains, lost, dropped>>

PanelPostAttested(b) ==
  /\ PanelGoes(b, "reporting", "minting")
  /\ Mark(b, "minting")
  /\ UNCHANGED <<tab, found, late, chains, lost, dropped>>

PanelSignMint(b) ==
  /\ PanelGoes(b, "minting", "mintSent")
  /\ mint' = [mint EXCEPT ![<<"panel", b>>] = "sent"]
  /\ UNCHANGED <<rec, tab, found, late, burn, attested, minted, lost, dropped>>

PanelMintReturns(b) ==
  /\ \/ mint[<<"panel", b>>] # "dropped" /\ PanelGoes(b, "mintSent", "completing")
     \/ rec[b].burnTx \in minted /\ PanelGoes(b, "minting", "completing")  \* "nonce already used"
  /\ UNCHANGED <<rec, tab, found, late, chains, lost, dropped>>

PanelPostCompleted(b) ==
  /\ PanelGoes(b, "completing", "idle")
  /\ Mark(b, "completed")
  /\ UNCHANGED <<tab, found, late, chains, lost, dropped>>

PanelThrowsAsMinted(b) ==
  /\ PanelGoes(b, "minting", "completing")
  /\ UNCHANGED <<rec, tab, found, late, chains, lost, dropped>>

(* Any other error, or the prompt dismissed: nothing is reported. *)
PanelThrows(b) ==
  /\ panel[b] \in {"minting", "mintSent"}
  /\ panel' = [panel EXCEPT ![b] = "idle"]
  /\ UNCHANGED <<rec, tab, found, late, chains, lost, dropped>>

(* Both of its requests are fire and forget. *)
PanelRequestLost(b) ==
  /\ lost < MaxLost
  /\ PanelGoes(b, "reporting", "minting") \/ PanelGoes(b, "completing", "idle")
  /\ lost' = lost + 1
  /\ UNCHANGED <<rec, tab, found, late, chains, dropped>>

-----------------------------------------------------------------------------
(* The chains and Circle (external). *)

BurnMined(b) ==
  /\ burn[b] = "sent"
  /\ burn' = [burn EXCEPT ![b] = "mined"]
  /\ UNCHANGED <<rec, browser, late, attested, mint, minted, lost, dropped>>

Attest(b) ==
  /\ burn[b] = "mined"
  /\ b \notin attested
  /\ attested' = attested \cup {b}
  /\ UNCHANGED <<rec, browser, late, burn, mint, minted, lost, dropped>>

(* receiveMessage: each attested message once, whoever submits it.  Both   *)
(* flows fetch the message of the recorded burn (found and burnTx agree).  *)
MintMined(flow, b) ==
  /\ mint[<<flow, b>>] = "sent"
  /\ IF rec[b].burnTx \in attested \ minted
     THEN /\ mint' = [mint EXCEPT ![<<flow, b>>] = "mined"]
          /\ minted' = minted \cup {rec[b].burnTx}
     ELSE /\ mint' = [mint EXCEPT ![<<flow, b>>] = "dropped"]
          /\ UNCHANGED minted
  /\ UNCHANGED <<rec, browser, late, burn, attested, lost, dropped>>

Dropped ==
  /\ dropped < MaxDropped
  /\ \/ \E b \in Bridges :
          /\ burn[b] = "sent"
          /\ burn' = [burn EXCEPT ![b] = "dropped"]
          /\ UNCHANGED mint
     \/ \E m \in {"tab", "panel"} \X Bridges :
          /\ mint[m] = "sent"
          /\ mint' = [mint EXCEPT ![m] = "dropped"]
          /\ UNCHANGED burn
  /\ dropped' = dropped + 1
  /\ UNCHANGED <<rec, browser, late, attested, minted, lost>>

-----------------------------------------------------------------------------
TabNext(b) ==
  \/ Create(b) \/ Approve(b) \/ PostBurning(b) \/ SignBurn(b) \/ UserCancels(b)
  \/ BurnFound(b) \/ CallThrows(b) \/ PostBurned(b) \/ PostBurnedLate(b)
  \/ ServeBurned(b) \/ PostAttested(b) \/ AttestationTimesOut(b) \/ SignMint(b)
  \/ MintReturns(b) \/ PostCompleted(b) \/ ReadRecord(b) \/ WriteOutcome(b)
  \/ RequestLost(b) \/ PageClosed(b)

PanelNext(b) ==
  \/ ClickComplete(b) \/ PanelPostAttested(b) \/ PanelSignMint(b)
  \/ PanelMintReturns(b) \/ PanelPostCompleted(b) \/ PanelThrows(b)
  \/ PanelRequestLost(b)

ChainsNext ==
  \/ \E b \in Bridges :
       \/ BurnMined(b) \/ Attest(b)
       \/ \E flow \in {"tab", "panel"} : MintMined(flow, b)
  \/ Dropped

BridgeNext == (\E b \in Bridges : TabNext(b) \/ PanelNext(b)) \/ ChainsNext

BridgeSpec == BridgeInit /\ [][BridgeNext]_bridgeVars

-----------------------------------------------------------------------------
(* Properties. *)

(* A record that reads cancelled never had a burn signed: whatever request *)
(* is lost or late, only a prompt dismissed before the burn's ends so      *)
(* (useBridge.ts:247-258, routes/bridge.ts:115-118).                       *)
CancelledMeansNothingMoved ==
  \A b \in Bridges : rec[b].status = "cancelled" => burn[b] = "none"

(* The money is never out of reach while a record knows its burn: unless   *)
(* the mint is made or under way, the panel offers "Complete transfer",    *)
(* after closed tabs, lost reports and timeouts, and however the two flows *)
(* of the page overwrite each other's stages.  Two records are excepted:   *)
(* one completed on a mint that dropped, and one whose late /burned was    *)
(* served between markFailed's read and its write (repository.ts:192-198). *)
OwedMintIsOffered ==
  \A b \in Bridges :
    LET sent == {mint[<<"tab", b>>], mint[<<"panel", b>>]} IN
    /\ rec[b].burnTx = b
    /\ burn[b] = "mined"
    /\ b \notin minted
    /\ "sent" \notin sent
    /\ rec[b].status = "completed" => "dropped" \notin sent
    /\ rec[b].status = "failed" => late[b] # "served"
    => Offered(b)

(* repository.ts:15 "completed -> mint confirmed. Done.": completed is     *)
(* reported on a hash, or on none after 40 polls, by either flow, yet the  *)
(* record's burn is then minted or a mint of it is broadcast, unless the   *)
(* network dropped a transaction.                                          *)
CompletedHasMint ==
  dropped = 0 => \A b \in Bridges : rec[b].status = "completed" =>
    rec[b].burnTx \in minted \/ "sent" \in {mint[<<"tab", b>>], mint[<<"panel", b>>]}

=============================================================================
