------------------------------- MODULE Vault -------------------------------
(***************************************************************************)
(* The escrow contract AfriFXVault.sol: makers lock USDC behind an offer,  *)
(* a taker accepts it on chain, and the platform (the contract's owner)    *)
(* releases the lot to the taker or returns it to the maker.  Every        *)
(* external function that changes state is one action; a revert is a guard *)
(* that is false.  The USDC token is external: a transfer moves balances   *)
(* and reverts on a short balance or on the zero address.  Allowances, the *)
(* local-currency terms of an offer and the events are left out: no        *)
(* property reads them.  Functions are nonReentrant and USDC makes no      *)
(* callbacks, so a call is one atomic step.                                *)
(***************************************************************************)
EXTENDS Integers, FiniteSets

CONSTANTS
  Users,          \* makers and takers
  Owner,          \* the platform wallet, owner of the contract
  VaultAddress,   \* address(this)
  NoAddress,      \* address(0)
  OfferIds,       \* keccak256 values offers are filed under
  Amounts,        \* USDC amounts users pass in (micro-USDC)
  Withdrawals,    \* USDC amounts the owner passes to withdraw
  Recipients,     \* accounts the owner withdraws to
  BpsInputs,      \* basis points the owner passes to the setters
  Endowment,      \* USDC every user starts with
  MaxBlock        \* bound: blocks 0 .. MaxBlock are modelled

Accounts == Users \cup {Owner}

ASSUME VaultAssumption ==
  /\ Owner \notin Users
  /\ VaultAddress \notin Accounts
  /\ NoAddress \notin Accounts \cup {VaultAddress}
  /\ IsFiniteSet(OfferIds)
  /\ Amounts \subseteq Nat
  /\ Withdrawals \subseteq Nat
  /\ Recipients \subseteq Accounts
  /\ BpsInputs \subseteq Nat
  /\ Endowment \in Nat
  /\ MaxBlock \in Nat

VARIABLES
  offers,         \* mapping(bytes32 => P2POffer)
  usdc,           \* token balances, the vault's own included
  paused,         \* Pausable
  p2pFeeBps,      \* fee on a release, basis points
  spreadBps,      \* conversion spread, basis points
  block,          \* number of the block being built (timestamp, prevrandao)
  earned,         \* history: conversions received plus fees kept
  withdrawn       \* history: USDC the owner has taken out

vaultVars == <<offers, usdc, paused, p2pFeeBps, spreadBps, block,
               earned, withdrawn>>

OfferStatus == {"Open", "Accepted", "Released", "Cancelled"}

P2POffer == [maker: Users \cup {NoAddress}, taker: Users \cup {NoAddress},
             amount: Nat, born: 0 .. MaxBlock, status: OfferStatus,
             makerConfirmed: BOOLEAN, takerConfirmed: BOOLEAN]

(* An id nobody created reads as the zero struct, whose status is Open. *)
ZeroOffer == [maker |-> NoAddress, taker |-> NoAddress, amount |-> 0,
              born |-> 0, status |-> "Open",
              makerConfirmed |-> FALSE, takerConfirmed |-> FALSE]

VaultTypeOK ==
  /\ offers \in [OfferIds -> P2POffer]
  /\ usdc \in [Accounts \cup {VaultAddress} -> Nat]
  /\ paused \in BOOLEAN
  /\ p2pFeeBps \in 0 .. 100
  /\ spreadBps \in 0 .. 200
  /\ block \in 0 .. MaxBlock
  /\ earned \in Nat
  /\ withdrawn \in Nat

VaultInit ==
  /\ offers = [o \in OfferIds |-> ZeroOffer]
  /\ usdc = [a \in Accounts \cup {VaultAddress} |->
               IF a \in Users THEN Endowment ELSE 0]
  /\ paused = FALSE
  /\ p2pFeeBps = 30
  /\ spreadBps = 50
  /\ block = 0
  /\ earned = 0
  /\ withdrawn = 0

-----------------------------------------------------------------------------
(* The token, as the contract uses it. *)

TransferIn(from, amount) ==
  /\ usdc[from] >= amount
  /\ usdc' = [usdc EXCEPT ![from] = @ - amount, ![VaultAddress] = @ + amount]

TransferOut(to, amount) ==
  /\ to # NoAddress
  /\ usdc[VaultAddress] >= amount
  /\ usdc' = [usdc EXCEPT ![VaultAddress] = @ - amount, ![to] = @ + amount]

-----------------------------------------------------------------------------
(* FX conversion: the USDC stays with the platform. *)

requestConversion(u, amount) ==
  /\ ~paused
  /\ amount > 0
  /\ TransferIn(u, amount)
  /\ earned' = earned + amount
  /\ UNCHANGED <<offers, paused, p2pFeeBps, spreadBps, block, withdrawn>>

-----------------------------------------------------------------------------
(* P2P offers.  The id hashes (sender, amount, currency, timestamp,        *)
(* prevrandao): it is fresh, unless the same maker already posted the same *)
(* offer in this block, and then the new struct overwrites the old one.    *)

Collides(u, o, amount) ==
  offers[o].maker = u /\ offers[o].amount = amount /\ offers[o].born = block

IdFor(u, o, amount) == offers[o] = ZeroOffer \/ Collides(u, o, amount)

createP2POffer(u, o, amount) ==
  /\ ~paused
  /\ amount > 0
  /\ IdFor(u, o, amount)
  /\ TransferIn(u, amount)
  /\ offers' = [offers EXCEPT ![o] =
                  [ZeroOffer EXCEPT !.maker = u, !.amount = amount, !.born = block]]
  /\ UNCHANGED <<paused, p2pFeeBps, spreadBps, block, earned, withdrawn>>

acceptP2POffer(u, o) ==
  /\ offers[o].status = "Open"
  /\ offers[o].maker # u
  /\ offers' = [offers EXCEPT ![o].taker = u, ![o].status = "Accepted"]
  /\ UNCHANGED <<usdc, paused, p2pFeeBps, spreadBps, block, earned, withdrawn>>

takerConfirm(u, o) ==
  /\ offers[o].status = "Accepted"
  /\ offers[o].taker = u
  /\ offers' = [offers EXCEPT ![o].takerConfirmed = TRUE]
  /\ UNCHANGED <<usdc, paused, p2pFeeBps, spreadBps, block, earned, withdrawn>>

makerConfirm(u, o) ==
  /\ offers[o].status = "Accepted"
  /\ offers[o].maker = u
  /\ offers' = [offers EXCEPT ![o].makerConfirmed = TRUE]
  /\ UNCHANGED <<usdc, paused, p2pFeeBps, spreadBps, block, earned, withdrawn>>

CanReleaseSettled(o) == offers[o].taker # NoAddress

CanRelease(o) == offers[o].status = "Accepted" /\ offers[o].taker # NoAddress

FeePerMille(amount) == (amount * p2pFeeBps) \div 1000

Fee(amount) == (amount * p2pFeeBps) \div 10000

releaseInFull(o) ==
  /\ CanRelease(o)
  /\ offers' = [offers EXCEPT ![o].status = "Released"]
  /\ TransferOut(offers[o].taker, offers[o].amount)
  /\ earned' = earned + Fee(offers[o].amount)
  /\ UNCHANGED <<paused, p2pFeeBps, spreadBps, block, withdrawn>>

(* onlyOwner; the fee is simply not paid out. *)
releaseP2POffer(o) ==
  /\ CanRelease(o)
  /\ offers' = [offers EXCEPT ![o].status = "Released"]
  /\ TransferOut(offers[o].taker, offers[o].amount - Fee(offers[o].amount))
  /\ earned' = earned + Fee(offers[o].amount)
  /\ UNCHANGED <<paused, p2pFeeBps, spreadBps, block, withdrawn>>

CanCancel(o) == offers[o].status \in {"Open", "Accepted"}

Refund(o) ==
  /\ offers' = [offers EXCEPT ![o].status = "Cancelled"]
  /\ TransferOut(offers[o].maker, offers[o].amount)
  /\ UNCHANGED <<paused, p2pFeeBps, spreadBps, block, earned, withdrawn>>

(* onlyOwner *)
cancelP2POffer(o) == CanCancel(o) /\ Refund(o)

makerCancelOffer(u, o) ==
  /\ offers[o].status = "Open"
  /\ offers[o].maker = u
  /\ Refund(o)

-----------------------------------------------------------------------------
(* The owner's administration, all onlyOwner. *)

withdraw(to, amount) ==
  /\ TransferOut(to, amount)
  /\ withdrawn' = withdrawn + amount
  /\ UNCHANGED <<offers, paused, p2pFeeBps, spreadBps, block, earned>>

setP2PFeeBpsUnchecked(bps) ==
  /\ p2pFeeBps' = bps
  /\ UNCHANGED <<offers, usdc, paused, spreadBps, block, earned, withdrawn>>

setP2PFeeBps(bps) ==
  /\ bps <= 100
  /\ p2pFeeBps' = bps
  /\ UNCHANGED <<offers, usdc, paused, spreadBps, block, earned, withdrawn>>

setSpreadBps(bps) ==
  /\ bps <= 200
  /\ spreadBps' = bps
  /\ UNCHANGED <<offers, usdc, paused, p2pFeeBps, block, earned, withdrawn>>

pause ==
  /\ ~paused
  /\ paused' = TRUE
  /\ UNCHANGED <<offers, usdc, p2pFeeBps, spreadBps, block, earned, withdrawn>>

unpause ==
  /\ paused
  /\ paused' = FALSE
  /\ UNCHANGED <<offers, usdc, p2pFeeBps, spreadBps, block, earned, withdrawn>>

(* The chain seals the block: ids of later offers differ from earlier ones. *)
NewBlock ==
  /\ block < MaxBlock
  /\ block' = block + 1
  /\ UNCHANGED <<offers, usdc, paused, p2pFeeBps, spreadBps, earned, withdrawn>>

VaultNext ==
  \/ \E u \in Users, amount \in Amounts : requestConversion(u, amount)
  \/ \E u \in Users, o \in OfferIds, amount \in Amounts :
       createP2POffer(u, o, amount)
  \/ \E u \in Users, o \in OfferIds :
       \/ acceptP2POffer(u, o)
       \/ takerConfirm(u, o)
       \/ makerConfirm(u, o)
       \/ makerCancelOffer(u, o)
  \/ \E o \in OfferIds : releaseP2POffer(o) \/ cancelP2POffer(o)
  \/ \E to \in Recipients, amount \in Withdrawals : withdraw(to, amount)
  \/ \E bps \in BpsInputs : setP2PFeeBps(bps) \/ setSpreadBps(bps)
  \/ pause
  \/ unpause
  \/ NewBlock

VaultSpec == VaultInit /\ [][VaultNext]_vaultVars

-----------------------------------------------------------------------------
(* Properties. *)

Live(o) == offers[o].status \in {"Open", "Accepted"}
Settled(o) == offers[o].status \in {"Released", "Cancelled"}

(* What the vault owes to live offers, one element per micro-USDC. *)
Lot(o, amount) == {o} \X (1 .. amount)
OwedUnits == UNION {Lot(o, offers[o].amount) : o \in {p \in OfferIds : Live(p)}}

(* The contract keeps one pot for escrow, conversions and fees, and        *)
(* withdraw takes any amount from it.  As long as the owner has not        *)
(* withdrawn more than conversions and fees brought in, the pot covers     *)
(* every live offer in full: no release or refund can fail for lack of     *)
(* USDC.                                                                   *)
EscrowCovered ==
  withdrawn <= earned => usdc[VaultAddress] >= Cardinality(OwedUnits)

(* A settled offer is never paid again: its struct is final, except that   *)
(* its own maker may overwrite it with an identical offer posted in the    *)
(* very same block (createP2POffer does not check that the id is unused).  *)
SettledIsFinal ==
  [][\A o \in OfferIds : Settled(o) =>
       \/ offers'[o] = offers[o]
       \/ /\ offers[o].born = block
          /\ offers'[o].status = "Open"
          /\ usdc'[VaultAddress] = usdc[VaultAddress] + offers[o].amount]_vaultVars

(* Who gets what: a release pays the account that accepted on chain at     *)
(* least 99% of the lot whatever the fee setters were given, a             *)
(* cancellation pays the maker the whole lot, and one call never settles   *)
(* two offers.                                                             *)
PaidInFull ==
  [][\A o \in OfferIds : Live(o) /\ Settled(o)' =>
       LET got(a) == usdc'[a] - usdc[a]
           lot == offers[o].amount
       IN /\ offers'[o].status = "Released" =>
               /\ offers[o].status = "Accepted"
               /\ 100 * got(offers[o].taker) >= 99 * lot
               /\ got(offers[o].taker) <= lot
          /\ offers'[o].status = "Cancelled" => got(offers[o].maker) = lot
          /\ \A p \in OfferIds \ {o} : offers'[p] = offers[p]]_vaultVars
=============================================================================
