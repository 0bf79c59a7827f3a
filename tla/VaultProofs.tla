---------------------------- MODULE VaultProofs ----------------------------
(***************************************************************************)
(* Proofs about the escrow contract: type correctness, EscrowCovered, and  *)
(* what a settling call may do to offers and balances, for any users,      *)
(* offers, amounts and fee settings.  In EscrowCovered the sum of what     *)
(* live offers are owed is the cardinality of OwedUnits, so the            *)
(* bookkeeping uses the library's facts about finite sets and needs no     *)
(* induction.                                                              *)
(***************************************************************************)
EXTENDS Vault, FiniteSetTheorems, TLAPS

(* A release fee lies between nothing and the lot: a release never pays    *)
(* out more than was locked, and never a negative amount.                  *)
LEMMA FeeBound ==
  ASSUME NEW a \in Nat, NEW b \in 0 .. 100
  PROVE  (a * b) \div 10000 \in 0 .. a
<1>1. a * b \in Nat /\ a * b <= a * 100
  <2>1. a * b \in Nat  OBVIOUS
  <2>2. a * (100 - b) >= 0  OBVIOUS
  <2>3. a * (100 - b) = a * 100 - a * b  OBVIOUS
  <2> QED BY <2>1, <2>2, <2>3
<1>2. QED BY <1>1

-----------------------------------------------------------------------------
(* Type correctness. *)

LEMMA TransferInType ==
  ASSUME VaultTypeOK, NEW u \in Users, NEW amount \in Nat, TransferIn(u, amount)
  PROVE  /\ usdc' \in [Accounts \cup {VaultAddress} -> Nat]
         /\ usdc'[VaultAddress] = usdc[VaultAddress] + amount
BY VaultAssumption DEF VaultTypeOK, TransferIn, Accounts

LEMMA TransferOutType ==
  ASSUME VaultTypeOK, NEW to \in Accounts \cup {NoAddress}, NEW amount \in Nat,
         TransferOut(to, amount)
  PROVE  /\ usdc' \in [Accounts \cup {VaultAddress} -> Nat]
         /\ usdc'[VaultAddress] = usdc[VaultAddress] - amount
BY VaultAssumption DEF VaultTypeOK, TransferOut, Accounts

LEMMA ZeroOfferType == ZeroOffer \in P2POffer
BY VaultAssumption DEF ZeroOffer, P2POffer, OfferStatus

LEMMA InitType == VaultInit => VaultTypeOK
<1> SUFFICES ASSUME VaultInit PROVE VaultTypeOK
  OBVIOUS
<1>1. offers \in [OfferIds -> P2POffer]
  BY ZeroOfferType DEF VaultInit
<1>2. usdc \in [Accounts \cup {VaultAddress} -> Nat]
  BY VaultAssumption DEF VaultInit
<1>3. /\ 0 \in 0 .. MaxBlock
     /\ 30 \in 0 .. 100
     /\ 50 \in 0 .. 200
  BY VaultAssumption
<1> QED BY <1>1, <1>2, <1>3 DEF VaultInit, VaultTypeOK

LEMMA StepType == VaultTypeOK /\ [VaultNext]_vaultVars => VaultTypeOK'
<1> SUFFICES ASSUME VaultTypeOK, [VaultNext]_vaultVars PROVE VaultTypeOK'
  OBVIOUS
<1>1. ASSUME NEW u \in Users, NEW amount \in Amounts, requestConversion(u, amount)
      PROVE  VaultTypeOK'
  BY <1>1, TransferInType, VaultAssumption DEF requestConversion, VaultTypeOK
<1>2. ASSUME NEW u \in Users, NEW o \in OfferIds, NEW amount \in Amounts,
             createP2POffer(u, o, amount)
      PROVE  VaultTypeOK'
  <2>1. [ZeroOffer EXCEPT !.maker = u, !.amount = amount, !.born = block] \in P2POffer
    BY ZeroOfferType, VaultAssumption DEF P2POffer, VaultTypeOK
  <2>2. offers' \in [OfferIds -> P2POffer]
    BY <1>2, <2>1 DEF createP2POffer, VaultTypeOK
  <2>3. usdc' \in [Accounts \cup {VaultAddress} -> Nat]
    BY <1>2, TransferInType, VaultAssumption DEF createP2POffer
  <2> QED BY <1>2, <2>2, <2>3 DEF createP2POffer, VaultTypeOK
<1>3. ASSUME NEW u \in Users, NEW o \in OfferIds,
             acceptP2POffer(u, o) \/ takerConfirm(u, o) \/ makerConfirm(u, o)
      PROVE  VaultTypeOK'
  <2>1. ASSUME NEW r \in P2POffer
        PROVE  /\ [r EXCEPT !.taker = u, !.status = "Accepted"] \in P2POffer
               /\ [r EXCEPT !.takerConfirmed = TRUE] \in P2POffer
               /\ [r EXCEPT !.makerConfirmed = TRUE] \in P2POffer
    BY DEF P2POffer, OfferStatus
  <2>2. offers[o] \in P2POffer
    BY DEF VaultTypeOK
  <2>3. offers' \in [OfferIds -> P2POffer]
    BY <1>3, <2>1, <2>2 DEF acceptP2POffer, takerConfirm, makerConfirm, VaultTypeOK
  <2> QED BY <1>3, <2>3 DEF acceptP2POffer, takerConfirm, makerConfirm, VaultTypeOK
<1>4. ASSUME NEW o \in OfferIds, Refund(o) PROVE VaultTypeOK'
  <2>1. offers[o].maker \in Accounts \cup {NoAddress} /\ offers[o].amount \in Nat
    BY DEF VaultTypeOK, P2POffer, Accounts
  <2> QED BY <1>4, <2>1, TransferOutType DEF Refund, VaultTypeOK, P2POffer, OfferStatus
<1>5. ASSUME NEW o \in OfferIds, releaseP2POffer(o) PROVE VaultTypeOK'
  <2>1. offers[o].taker \in Accounts \cup {NoAddress} /\ offers[o].amount \in Nat
    BY DEF VaultTypeOK, P2POffer, Accounts
  <2>2. Fee(offers[o].amount) \in 0 .. offers[o].amount
    BY <2>1, FeeBound DEF Fee, VaultTypeOK
  <2>3. offers[o].amount - Fee(offers[o].amount) \in Nat
    BY <2>1, <2>2
  <2>4. usdc' \in [Accounts \cup {VaultAddress} -> Nat]
    BY <1>5, <2>1, <2>3, TransferOutType DEF releaseP2POffer
  <2>5. earned' \in Nat
    BY <1>5, <2>1, <2>2 DEF releaseP2POffer, VaultTypeOK
  <2>6. offers' \in [OfferIds -> P2POffer]
    BY <1>5 DEF releaseP2POffer, VaultTypeOK, P2POffer, OfferStatus
  <2> QED BY <1>5, <2>4, <2>5, <2>6 DEF releaseP2POffer, VaultTypeOK
<1>6. ASSUME NEW to \in Recipients, NEW amount \in Withdrawals, withdraw(to, amount)
      PROVE  VaultTypeOK'
  BY <1>6, TransferOutType, VaultAssumption DEF withdraw, VaultTypeOK
<1>7. ASSUME NEW bps \in BpsInputs, setP2PFeeBps(bps) \/ setSpreadBps(bps)
      PROVE  VaultTypeOK'
  BY <1>7, VaultAssumption DEF setP2PFeeBps, setSpreadBps, VaultTypeOK
<1>8. ASSUME pause \/ unpause PROVE VaultTypeOK'
  BY <1>8 DEF pause, unpause, VaultTypeOK
<1>10. ASSUME NewBlock PROVE VaultTypeOK'
  <2>1. block' \in 0 .. MaxBlock
    BY <1>10, VaultAssumption DEF NewBlock, VaultTypeOK
  <2> QED BY <1>10, <2>1 DEF NewBlock, VaultTypeOK
<1>9. CASE UNCHANGED vaultVars
  BY <1>9 DEF vaultVars, VaultTypeOK
<1> QED BY <1>1, <1>2, <1>3, <1>4, <1>5, <1>6, <1>7, <1>8, <1>9, <1>10
       DEF VaultNext, cancelP2POffer, makerCancelOffer

(* Every state of the contract is well formed, the fee and the spread      *)
(* within the limits the setters enforce.                                  *)
THEOREM VaultTypeCorrect == VaultSpec => []VaultTypeOK
BY InitType, StepType, PTL DEF VaultSpec

-----------------------------------------------------------------------------
(* EscrowCovered.  The strengthening that is inductive counts what came in *)
(* and went out: with what the owner took put back, the pot holds the live *)
(* lots plus everything earned.  An overwritten offer leaves more.         *)

Backed ==
  /\ IsFiniteSet(OwedUnits)
  /\ usdc[VaultAddress] + withdrawn >= Cardinality(OwedUnits) + earned

(* A lot has one element per micro-USDC. *)
LEMMA LotSize ==
  ASSUME NEW o, NEW amount \in Nat
  PROVE  IsFiniteSet(Lot(o, amount)) /\ Cardinality(Lot(o, amount)) = amount
<1>1. IsFiniteSet(1 .. amount) /\ Cardinality(1 .. amount) = amount
  BY FS_Interval
<1>2. IsFiniteSet({o}) /\ Cardinality({o}) = 1
  BY FS_Singleton
<1> QED BY <1>1, <1>2, FS_Product DEF Lot

(* A step that changes no live lot leaves the debt alone. *)
LEMMA OwedUnchanged ==
  ASSUME \A o \in OfferIds : /\ offers'[o].status \in {"Open", "Accepted"}
                                   <=> offers[o].status \in {"Open", "Accepted"}
                            /\ offers'[o].amount = offers[o].amount
  PROVE  OwedUnits' = OwedUnits
BY DEF OwedUnits, Live, Lot

(* Creating an offer adds at most its lot (less, if it overwrites one). *)
LEMMA OwedAfterCreate ==
  ASSUME VaultTypeOK, NEW u \in Users, NEW o \in OfferIds, NEW amount \in Nat,
         createP2POffer(u, o, amount), IsFiniteSet(OwedUnits)
  PROVE  /\ IsFiniteSet(OwedUnits')
         /\ Cardinality(OwedUnits') <= Cardinality(OwedUnits) + amount
<1>1. OwedUnits' \in SUBSET (OwedUnits \cup Lot(o, amount))
  <2>1. /\ offers'[o].amount = amount
        /\ \A p \in OfferIds \ {o} : offers'[p] = offers[p]
    BY DEF createP2POffer, VaultTypeOK, ZeroOffer
  <2> QED BY <2>1 DEF OwedUnits, Live, Lot
<1>2. /\ IsFiniteSet(OwedUnits \cup Lot(o, amount))
      /\ Cardinality(OwedUnits \cup Lot(o, amount)) <= Cardinality(OwedUnits) + amount
  <2>1. /\ IsFiniteSet(OwedUnits \cap Lot(o, amount))
        /\ Cardinality(OwedUnits \cap Lot(o, amount)) \in Nat
    BY FS_Intersection, FS_CardinalityType
  <2>2. IsFiniteSet(Lot(o, amount)) /\ Cardinality(Lot(o, amount)) = amount
    BY LotSize
  <2>3. /\ IsFiniteSet(OwedUnits \cup Lot(o, amount))
        /\ Cardinality(OwedUnits \cup Lot(o, amount)) =
             Cardinality(OwedUnits) + Cardinality(Lot(o, amount))
               - Cardinality(OwedUnits \cap Lot(o, amount))
    BY <2>2, FS_Union
  <2>4. Cardinality(OwedUnits) \in Nat
    BY FS_CardinalityType
  <2> QED BY <2>1, <2>2, <2>3, <2>4
<1>3. /\ IsFiniteSet(OwedUnits')
      /\ Cardinality(OwedUnits') <= Cardinality(OwedUnits \cup Lot(o, amount))
  BY <1>1, <1>2, FS_Subset
<1> QED BY <1>2, <1>3, FS_CardinalityType

(* Settling an offer takes exactly its lot off the debt. *)
LEMMA OwedAfterSettle ==
  ASSUME VaultTypeOK, NEW o \in OfferIds, Live(o),
         NEW s \in {"Released", "Cancelled"},
         offers' = [offers EXCEPT ![o].status = s], IsFiniteSet(OwedUnits)
  PROVE  /\ IsFiniteSet(OwedUnits')
         /\ Cardinality(OwedUnits') = Cardinality(OwedUnits) - offers[o].amount
<1> DEFINE lot == Lot(o, offers[o].amount)
<1>1. OwedUnits' = OwedUnits \ lot
  <2>1. /\ offers'[o].status = s
        /\ \A p \in OfferIds \ {o} : offers'[p] = offers[p]
    BY DEF VaultTypeOK, P2POffer
  <2>2. \A p \in OfferIds : Live(p)' <=> p # o /\ Live(p)
    BY <2>1 DEF Live
  <2> QED BY <2>1, <2>2 DEF OwedUnits, Lot
<1>2. OwedUnits \cap lot = lot
  BY DEF OwedUnits
<1>3. IsFiniteSet(lot) /\ Cardinality(lot) = offers[o].amount
  BY LotSize DEF VaultTypeOK, P2POffer
<1>4. /\ IsFiniteSet(OwedUnits \ lot)
      /\ Cardinality(OwedUnits \ lot) =
           Cardinality(OwedUnits) - Cardinality(OwedUnits \cap lot)
  BY FS_Difference
<1> HIDE DEF lot
<1> QED BY <1>1, <1>2, <1>3, <1>4

LEMMA InitBacked == VaultInit => Backed
<1> SUFFICES ASSUME VaultInit PROVE Backed
  OBVIOUS
<1>1. OwedUnits = {}
  BY DEF OwedUnits, Lot, VaultInit, ZeroOffer
<1>2. usdc[VaultAddress] = 0
  BY VaultAssumption DEF VaultInit, Accounts
<1> QED BY <1>1, <1>2, FS_EmptySet DEF Backed, VaultInit

LEMMA StepBacked ==
  VaultTypeOK /\ VaultTypeOK' /\ Backed /\ [VaultNext]_vaultVars => Backed'
<1> SUFFICES ASSUME VaultTypeOK, VaultTypeOK', Backed, [VaultNext]_vaultVars
             PROVE  Backed'
  OBVIOUS
<1>a. /\ usdc[VaultAddress] \in Nat /\ withdrawn \in Nat /\ earned \in Nat
      /\ IsFiniteSet(OwedUnits) /\ Cardinality(OwedUnits) \in Nat
  BY FS_CardinalityType DEF VaultTypeOK, Backed
<1>b. ASSUME UNCHANGED offers PROVE OwedUnits' = OwedUnits
  BY <1>b, OwedUnchanged
<1>1. ASSUME NEW u \in Users, NEW amount \in Amounts, requestConversion(u, amount)
      PROVE  Backed'
  BY <1>1, <1>a, <1>b, TransferInType, VaultAssumption DEF requestConversion, Backed
<1>2. ASSUME NEW u \in Users, NEW o \in OfferIds, NEW amount \in Amounts,
             createP2POffer(u, o, amount)
      PROVE  Backed'
  <2>1. usdc'[VaultAddress] = usdc[VaultAddress] + amount
    BY <1>2, TransferInType, VaultAssumption DEF createP2POffer
  <2>2. /\ IsFiniteSet(OwedUnits')
        /\ Cardinality(OwedUnits') <= Cardinality(OwedUnits) + amount
    BY <1>2, <1>a, OwedAfterCreate, VaultAssumption
  <2> QED BY <1>2, <1>a, <2>1, <2>2, FS_CardinalityType, VaultAssumption
          DEF createP2POffer, Backed
<1>3. ASSUME NEW u \in Users, NEW o \in OfferIds,
             acceptP2POffer(u, o) \/ takerConfirm(u, o) \/ makerConfirm(u, o)
      PROVE  Backed'
  <2>1. OwedUnits' = OwedUnits
    <3>1. \A p \in OfferIds :
            /\ offers'[p].status \in {"Open", "Accepted"}
                 <=> offers[p].status \in {"Open", "Accepted"}
            /\ offers'[p].amount = offers[p].amount
      BY <1>3 DEF acceptP2POffer, takerConfirm, makerConfirm, VaultTypeOK, P2POffer
    <3> QED BY <3>1, OwedUnchanged
  <2> QED BY <1>3, <2>1 DEF acceptP2POffer, takerConfirm, makerConfirm, Backed
<1>4. ASSUME NEW o \in OfferIds, Live(o), Refund(o) PROVE Backed'
  <2>1. offers[o].maker \in Accounts \cup {NoAddress} /\ offers[o].amount \in Nat
    BY DEF VaultTypeOK, P2POffer, Accounts
  <2>2. usdc'[VaultAddress] = usdc[VaultAddress] - offers[o].amount
    BY <1>4, <2>1, TransferOutType DEF Refund
  <2>3. /\ IsFiniteSet(OwedUnits')
        /\ Cardinality(OwedUnits') = Cardinality(OwedUnits) - offers[o].amount
    BY <1>4, <1>a, OwedAfterSettle DEF Refund
  <2> QED BY <1>4, <1>a, <2>1, <2>2, <2>3 DEF Refund, Backed
<1>5. ASSUME NEW o \in OfferIds, releaseP2POffer(o) PROVE Backed'
  <2> DEFINE lot == offers[o].amount
  <2>1. offers[o].taker \in Accounts \cup {NoAddress} /\ lot \in Nat
    BY DEF VaultTypeOK, P2POffer, Accounts
  <2>2. Fee(lot) \in 0 .. lot
    BY <2>1, FeeBound DEF Fee, VaultTypeOK
  <2>7. lot - Fee(lot) \in Nat
    BY <2>1, <2>2
  <2>3. usdc'[VaultAddress] = usdc[VaultAddress] - (lot - Fee(lot))
    BY <1>5, <2>1, <2>7, TransferOutType DEF releaseP2POffer
  <2>4. Live(o)
    BY <1>5 DEF releaseP2POffer, CanRelease, Live
  <2>5. /\ IsFiniteSet(OwedUnits')
        /\ Cardinality(OwedUnits') = Cardinality(OwedUnits) - lot
    BY <1>5, <1>a, <2>4, OwedAfterSettle DEF releaseP2POffer
  <2>6. earned' = earned + Fee(lot) /\ withdrawn' = withdrawn
    BY <1>5 DEF releaseP2POffer
  <2> HIDE DEF lot
  <2> QED BY <1>a, <2>1, <2>2, <2>3, <2>5, <2>6 DEF Backed
<1>6. ASSUME NEW to \in Recipients, NEW amount \in Withdrawals, withdraw(to, amount)
      PROVE  Backed'
  <2>1. usdc'[VaultAddress] = usdc[VaultAddress] - amount
    BY <1>6, TransferOutType, VaultAssumption DEF withdraw
  <2> QED BY <1>6, <1>a, <1>b, <2>1, VaultAssumption DEF withdraw, Backed
<1>7. ASSUME NEW bps \in BpsInputs, setP2PFeeBps(bps) \/ setSpreadBps(bps)
      PROVE  Backed'
  BY <1>7, <1>b DEF setP2PFeeBps, setSpreadBps, Backed
<1>8. ASSUME pause \/ unpause \/ NewBlock PROVE Backed'
  BY <1>8, <1>b DEF pause, unpause, NewBlock, Backed
<1>9. CASE UNCHANGED vaultVars
  BY <1>9, <1>b DEF vaultVars, Backed
<1>c. \A o \in OfferIds : CanCancel(o) \/ offers[o].status = "Open" => Live(o)
  BY DEF CanCancel, Live
<1> QED BY <1>1, <1>2, <1>3, <1>4, <1>5, <1>6, <1>7, <1>8, <1>9, <1>c
       DEF VaultNext, cancelP2POffer, makerCancelOffer

(* However many offers, fees, conversions and withdrawals there have been: *)
(* while the owner has taken no more than what conversions and fees        *)
(* brought in, the vault can settle every live offer in full.              *)
THEOREM EscrowAlwaysCovered == VaultSpec => []EscrowCovered
<1>1. VaultTypeOK /\ Backed => EscrowCovered
  BY FS_CardinalityType DEF VaultTypeOK, Backed, EscrowCovered
<1> QED BY <1>1, VaultTypeCorrect, InitBacked, StepBacked, PTL DEF VaultSpec

-----------------------------------------------------------------------------
(* What a step may do to a settled offer, and what settling one pays.      *)

(* Only releaseP2POffer and the two cancellations change a status to a     *)
(* settled one; of the other actions only creation touches a settled offer. *)
LEMMA TouchedOffers ==
  ASSUME VaultTypeOK, [VaultNext]_vaultVars
  PROVE  \/ offers' = offers
         \/ \E u \in Users, o \in OfferIds, amount \in Amounts :
              createP2POffer(u, o, amount)
         \/ \E u \in Users, o \in OfferIds :
              acceptP2POffer(u, o) \/ takerConfirm(u, o) \/ makerConfirm(u, o)
         \/ \E o \in OfferIds : releaseP2POffer(o) \/ (Live(o) /\ Refund(o))
BY DEF VaultNext, vaultVars, requestConversion, withdraw, setP2PFeeBps,
       setSpreadBps, pause, unpause, NewBlock, makerCancelOffer, cancelP2POffer,
       CanCancel, Live

FinalStep ==
  \A o \in OfferIds : Settled(o) =>
    \/ offers'[o] = offers[o]
    \/ /\ offers[o].born = block
       /\ offers'[o].status = "Open"
       /\ usdc'[VaultAddress] = usdc[VaultAddress] + offers[o].amount

LEMMA StepFinal == VaultTypeOK /\ [VaultNext]_vaultVars => FinalStep
<1> SUFFICES ASSUME VaultTypeOK, [VaultNext]_vaultVars,
                    NEW o \in OfferIds, Settled(o), offers'[o] # offers[o]
             PROVE  /\ offers[o].born = block
                    /\ offers'[o].status = "Open"
                    /\ usdc'[VaultAddress] = usdc[VaultAddress] + offers[o].amount
  BY DEF FinalStep
<1>1. ASSUME NEW u \in Users, NEW p \in OfferIds,
             acceptP2POffer(u, p) \/ takerConfirm(u, p) \/ makerConfirm(u, p)
      PROVE  FALSE
  BY <1>1 DEF acceptP2POffer, takerConfirm, makerConfirm, VaultTypeOK, Settled
<1>2. ASSUME NEW p \in OfferIds, releaseP2POffer(p) \/ (Live(p) /\ Refund(p))
      PROVE  FALSE
  BY <1>2 DEF releaseP2POffer, CanRelease, Refund, VaultTypeOK, Live, Settled
<1>3. offers' # offers
  OBVIOUS
<1>4. PICK u \in Users, p \in OfferIds, amount \in Amounts :
        createP2POffer(u, p, amount)
  BY <1>1, <1>2, <1>3, TouchedOffers
<1>5. p = o /\ createP2POffer(u, o, amount)
  BY <1>4 DEF createP2POffer, VaultTypeOK
<1>6. Collides(u, o, amount)
  BY <1>5 DEF createP2POffer, IdFor, Settled, ZeroOffer
<1>7. offers'[o].status = "Open"
  BY <1>5 DEF createP2POffer, ZeroOffer, VaultTypeOK
<1>8. usdc'[VaultAddress] = usdc[VaultAddress] + amount
  BY <1>5, TransferInType, VaultAssumption DEF createP2POffer
<1> QED BY <1>6, <1>7, <1>8 DEF Collides

(* A settled offer is final in every instance, but for its maker's own     *)
(* identical offer of the same block, which is paid for again.             *)
THEOREM SettledStaysFinal == VaultSpec => SettledIsFinal
<1>1. VaultTypeOK /\ [VaultNext]_vaultVars => [FinalStep]_vaultVars
  BY StepFinal
<1> QED BY <1>1, VaultTypeCorrect, PTL DEF VaultSpec, SettledIsFinal, FinalStep

(* No fee setting within the limit takes more than 1% of a lot.            *)
LEMMA FeeSmall ==
  ASSUME NEW a \in Nat, NEW b \in 0 .. 100
  PROVE  100 * ((a * b) \div 10000) <= a
<1>1. a * b \in Nat /\ a * b <= a * 100
  <2>1. a * b \in Nat  OBVIOUS
  <2>2. a * (100 - b) >= 0  OBVIOUS
  <2>3. a * (100 - b) = a * 100 - a * b  OBVIOUS
  <2> QED BY <2>1, <2>2, <2>3
<1>2. QED BY <1>1

PaidStep ==
  \A o \in OfferIds : Live(o) /\ Settled(o)' =>
    LET got(a) == usdc'[a] - usdc[a]
        lot == offers[o].amount
    IN /\ offers'[o].status = "Released" =>
            /\ offers[o].status = "Accepted"
            /\ 100 * got(offers[o].taker) >= 99 * lot
            /\ got(offers[o].taker) <= lot
       /\ offers'[o].status = "Cancelled" => got(offers[o].maker) = lot
       /\ \A p \in OfferIds \ {o} : offers'[p] = offers[p]

(* The token moves what TransferOut says to an account of a user. *)
LEMMA PaidOut ==
  ASSUME VaultTypeOK, NEW to \in Users, NEW amount \in Nat, TransferOut(to, amount)
  PROVE  usdc'[to] - usdc[to] = amount
BY VaultAssumption DEF VaultTypeOK, TransferOut, Accounts

LEMMA StepPaid == VaultTypeOK /\ [VaultNext]_vaultVars => PaidStep
<1> SUFFICES ASSUME VaultTypeOK, [VaultNext]_vaultVars,
                    NEW o \in OfferIds, Live(o), Settled(o)'
             PROVE  /\ offers'[o].status = "Released" =>
                         /\ offers[o].status = "Accepted"
                         /\ 100 * (usdc'[offers[o].taker] - usdc[offers[o].taker])
                              >= 99 * offers[o].amount
                         /\ usdc'[offers[o].taker] - usdc[offers[o].taker]
                              <= offers[o].amount
                    /\ offers'[o].status = "Cancelled" =>
                         usdc'[offers[o].maker] - usdc[offers[o].maker]
                           = offers[o].amount
                    /\ \A p \in OfferIds \ {o} : offers'[p] = offers[p]
  BY DEF PaidStep
<1>a. offers[o] \in P2POffer /\ offers[o].amount \in Nat
  BY DEF VaultTypeOK, P2POffer
<1>1. releaseP2POffer(o) \/ Refund(o)
  <2>1. offers' # offers
    BY DEF Live, Settled
  <2>2. ASSUME NEW u \in Users, NEW p \in OfferIds, NEW amount \in Amounts,
               createP2POffer(u, p, amount)
        PROVE  FALSE
    BY <2>2, <1>a DEF createP2POffer, VaultTypeOK, ZeroOffer, Live, Settled
  <2>3. ASSUME NEW u \in Users, NEW p \in OfferIds,
               acceptP2POffer(u, p) \/ takerConfirm(u, p) \/ makerConfirm(u, p)
        PROVE  FALSE
    BY <2>3, <1>a DEF acceptP2POffer, takerConfirm, makerConfirm, VaultTypeOK,
                      P2POffer, Live, Settled
  <2>4. ASSUME NEW p \in OfferIds, releaseP2POffer(p) \/ Refund(p)
        PROVE  p = o
    BY <2>4, <1>a DEF releaseP2POffer, Refund, VaultTypeOK, P2POffer, Live, Settled
  <2> QED BY TouchedOffers, <2>1, <2>2, <2>3, <2>4
<1>2. CASE releaseP2POffer(o)
  <2> DEFINE lot == offers[o].amount
  <2>1. offers[o].taker \in Users /\ offers[o].status = "Accepted"
    BY <1>2, <1>a DEF releaseP2POffer, CanRelease, P2POffer
  <2>2. Fee(lot) \in 0 .. lot /\ 100 * Fee(lot) <= lot
    BY <1>a, FeeBound, FeeSmall DEF Fee, VaultTypeOK
  <2>3. lot - Fee(lot) \in Nat
    BY <1>a, <2>2
  <2>4. usdc'[offers[o].taker] - usdc[offers[o].taker] = lot - Fee(lot)
    BY <1>2, <2>1, <2>3, PaidOut DEF releaseP2POffer
  <2>5. /\ offers'[o].status = "Released"
        /\ \A p \in OfferIds \ {o} : offers'[p] = offers[p]
    BY <1>2, <1>a DEF releaseP2POffer, VaultTypeOK, P2POffer
  <2>6. 100 * (lot - Fee(lot)) >= 99 * lot /\ lot - Fee(lot) <= lot
    BY <1>a, <2>2
  <2> QED BY <2>1, <2>4, <2>5, <2>6
<1>3. CASE Refund(o)
  <2>1. offers[o].maker \in Users
    BY <1>3, <1>a DEF Refund, TransferOut, P2POffer
  <2>2. usdc'[offers[o].maker] - usdc[offers[o].maker] = offers[o].amount
    BY <1>3, <1>a, <2>1, PaidOut DEF Refund
  <2>3. /\ offers'[o].status = "Cancelled"
        /\ \A p \in OfferIds \ {o} : offers'[p] = offers[p]
    BY <1>3, <1>a DEF Refund, VaultTypeOK, P2POffer
  <2> QED BY <2>2, <2>3
<1> QED BY <1>1, <1>2, <1>3

(* A call that settles an offer pays its taker at least 99% of the lot, or *)
(* its maker all of it, and settles no other, whatever the setters were    *)
(* given and however large the lot.                                        *)
THEOREM SettlingPaysInFull == VaultSpec => PaidInFull
<1>1. VaultTypeOK /\ [VaultNext]_vaultVars => [PaidStep]_vaultVars
  BY StepPaid
<1> QED BY <1>1, VaultTypeCorrect, PTL DEF VaultSpec, PaidInFull, PaidStep
=============================================================================
