---------------------- MODULE ChallengeBondEscrowProofs ----------------------
(***************************************************************************)
(* For every set of challenges and accounts, and all amounts, windows and  *)
(* settings: the escrow of challenge bonds is solvent, settles a bond one  *)
(* way only, and implements Custody.  The induction is over the three      *)
(* invariants together: that a payment leaves a balance at all (TypeOK)    *)
(* comes from solvency, and solvency needs the types.                      *)
(***************************************************************************)
EXTENDS ChallengeBondEscrow, TallyTheorems, TLAPS

Inv == TypeOK /\ Solvent /\ RefundedOrSlashed

LEMMA AmountsType == TypeOK => amounts \in [Challenges -> Nat]
BY DEF TypeOK, Bond, amounts

(* A bond is never worth more than what the contract has. *)
LEMMA Covered ==
  ASSUME TypeOK, Solvent, NEW c \in Challenges
  PROVE  bonds[c].amount \in Nat /\ bonds[c].amount <= balance
<1>1. amounts \in [Challenges -> Nat]  BY AmountsType
<1>2. IsFiniteSet(Challenges)  BY EscrowAssumption
<1>3. amounts[c] <= Total(amounts, Challenges)  BY <1>1, <1>2, TotalBound
<1>4. Total(amounts, Challenges) \in Nat  BY <1>1, <1>2, TotalType
<1>5. amounts[c] = bonds[c].amount  BY DEF amounts
<1> QED  BY <1>1, <1>3, <1>4, <1>5 DEF TypeOK, Solvent

(* Solvency across a step that sets one bond's amount and moves the balance. *)
LEMMA SolventStep ==
  ASSUME TypeOK, Solvent, NEW c \in Challenges, NEW b \in Bond,
         bonds' = [bonds EXCEPT ![c] = b],
         balance' \in Nat, balance' - balance >= b.amount - bonds[c].amount
  PROVE  Solvent'
<1> DEFINE f == amounts
           g == amounts'
<1>0. IsFiniteSet(Challenges)  BY EscrowAssumption
<1>1. bonds' \in [Challenges -> Bond]  BY DEF TypeOK
<1>2. /\ \A k \in Challenges : f[k] \in Nat /\ g[k] \in Nat
      /\ \A k \in Challenges \ {c} : g[k] = f[k]
      /\ f[c] = bonds[c].amount /\ g[c] = b.amount
  BY <1>1 DEF TypeOK, Bond, amounts
<1> HIDE DEF f, g
<1>3. Total(g, Challenges) = Total(f, Challenges) - f[c] + g[c]
  BY <1>0, <1>2, TotalUpdate
<1>4. Total(f, Challenges) \in Nat /\ Total(g, Challenges) \in Nat
  BY <1>0, <1>2, TotalType
<1>5. Total(amounts, Challenges) = Total(f, Challenges) /\ Total(amounts', Challenges) = Total(g, Challenges)
  BY DEF f, g
<1>6. balance >= Total(f, Challenges)  BY <1>5 DEF Solvent
<1>7. balance \in Nat /\ b.amount \in Nat /\ bonds[c].amount \in Nat  BY DEF TypeOK, Bond
<1>8. balance' >= Total(g, Challenges)
  BY <1>2, <1>3, <1>4, <1>6, <1>7
<1> QED  BY <1>5, <1>8 DEF Solvent

(* Nothing is held when the contract is deployed. *)
LEMMA InitInv == Init => Inv
<1> SUFFICES ASSUME Init PROVE Inv  OBVIOUS
<1> USE EscrowAssumption
<1>1. TypeOK  BY DEF Init, TypeOK, NoBond, Bond
<1>2. \A c \in Challenges : amounts[c] = 0  BY DEF Init, amounts, NoBond
<1>3. Solvent  BY <1>2, TotalZero DEF Solvent, Init
<1>4. RefundedOrSlashed  BY DEF Init, RefundedOrSlashed, NoBond
<1> QED  BY <1>1, <1>3, <1>4 DEF Inv

LEMMA PostStep ==
  ASSUME Inv, NEW caller \in Accounts \ {Escrow}, NEW c \in Challenges, NEW value \in Amounts,
         PostBond(caller, c, value)
  PROVE  Inv' /\ Custodian!Deposit(c)
<1> USE EscrowAssumption
<1> DEFINE b == [challenger |-> caller, amount |-> value, postedAt |-> now % Word,
                 expiresAt |-> (now + challengeWindowSecs) % Word, refunded |-> FALSE, slashed |-> FALSE]
<1>1. now % Word \in Nat /\ (now + challengeWindowSecs) % Word \in Nat
  BY DEF Inv, TypeOK
<1>2. b \in Bond  BY <1>1 DEF Bond
<1>3. bonds' = [bonds EXCEPT ![c] = b]  BY DEF PostBond
<1>4. balance' = balance + value /\ value \in Nat /\ balance \in Nat /\ bonds[c].amount = 0
  BY DEF PostBond, Inv, TypeOK
<1>5. UNCHANGED <<settings, now>>  BY DEF PostBond
<1>7. TypeOK'
  <2>1. bonds' \in [Challenges -> Bond]
    <3> HIDE DEF b
    <3> QED  BY <1>2, <1>3 DEF Inv, TypeOK
  <2>2. balance' \in Nat  BY <1>4
  <2> QED  BY <2>1, <2>2, <1>5 DEF Inv, TypeOK, settings
<1>8. Solvent'
  <2>1. b.amount = value  OBVIOUS
  <2>2. balance' \in Nat /\ balance' - balance >= b.amount - bonds[c].amount  BY <1>4, <2>1
  <2> HIDE DEF b
  <2> QED  BY <1>2, <1>3, <2>2, SolventStep DEF Inv
<1>9. RefundedOrSlashed'  BY <1>3 DEF Inv, TypeOK, RefundedOrSlashed
<1>10. Custodian!Deposit(c)
  <2>0. b.amount = 0 + (balance' - balance)
    <3>1. b.amount = value  OBVIOUS
    <3> QED  BY <1>4, <3>1
  <2>1. amounts' = [amounts EXCEPT ![c] = @ + (balance' - balance)]
    <3> HIDE DEF b
    <3> QED  BY <1>3, <1>4, <2>0 DEF amounts, Inv, TypeOK
  <2> QED  BY <1>4, <2>1 DEF Custodian!Deposit
<1> QED  BY <1>7, <1>8, <1>9, <1>10 DEF Inv

(* A payment to the escrow itself leaves the money where it is. *)
LEMMA AfterBound ==
  ASSUME Inv, NEW c \in Challenges, NEW dest, NEW amount \in Nat, amount <= bonds[c].amount
  PROVE  /\ After(dest, amount) \in Nat
         /\ After(dest, amount) - balance >= -amount
         /\ dest = Escrow => After(dest, amount) = balance
         /\ dest # Escrow => After(dest, amount) = balance - amount
<1>1. bonds[c].amount \in Nat /\ bonds[c].amount <= balance  BY Covered DEF Inv
<1>2. balance \in Nat  BY DEF Inv, TypeOK
<1> QED  BY <1>1, <1>2 DEF After

(* What is held for a bond goes down by what is paid out or given up. *)
LEMMA SettleStep ==
  ASSUME Inv, NEW c \in Challenges, NEW b \in Bond, NEW dest, NEW amount \in Nat,
         amount <= bonds[c].amount, b.amount = bonds[c].amount - amount,
         bonds' = [bonds EXCEPT ![c] = b], balance' = After(dest, amount)
  PROVE  Solvent' /\ (Custodian!Release(c) \/ Custodian!Forfeit(c))
<1>1. bonds[c].amount \in Nat /\ bonds[c].amount <= balance /\ balance \in Nat
  BY Covered DEF Inv, TypeOK
<1>2. balance' \in Nat /\ balance' - balance >= -amount  BY AfterBound
<1>3. balance' - balance >= b.amount - bonds[c].amount
  BY <1>1, <1>2
<1>4. Solvent'  BY <1>2, <1>3, SolventStep DEF Inv
<1>5. amounts[c] = bonds[c].amount  BY DEF amounts
<1>6. amounts' = [amounts EXCEPT ![c] = @ - amount]
  BY <1>5 DEF amounts, Inv, TypeOK
<1>7. CASE dest = Escrow
  <2>1. balance' = balance  BY <1>7, AfterBound
  <2>2. amounts'[c] = amounts[c] - amount  BY <1>5, <1>6 DEF amounts
  <2>3. amounts'[c] \in 0 .. amounts[c]  BY <1>1, <1>5, <2>2
  <2>4. Custodian!Forfeit(c)  BY <1>6, <2>1, <2>2, <2>3 DEF Custodian!Forfeit
  <2> QED  BY <1>4, <2>4
<1>8. CASE dest # Escrow
  <2>1. balance' = balance - amount  BY <1>8, AfterBound
  <2>2. balance - balance' = amount /\ balance' <= balance  BY <1>1, <2>1
  <2>3. Custodian!Release(c)  BY <1>2, <1>5, <1>6, <2>2 DEF Custodian!Release
  <2> QED  BY <1>4, <2>3
<1> QED  BY <1>7, <1>8

LEMMA RefundStep ==
  ASSUME Inv, NEW caller, NEW c \in Challenges, NEW to \in Accounts, RefundBond(caller, c, to)
  PROVE  Inv' /\ (Custodian!Release(c) \/ Custodian!Forfeit(c))
<1> DEFINE b == [bonds[c] EXCEPT !.refunded = TRUE, !.amount = 0]
<1>1. bonds[c] \in Bond  BY DEF Inv, TypeOK
<1>2. b \in Bond /\ b.amount = 0  BY <1>1 DEF Bond
<1>3. bonds' = [bonds EXCEPT ![c] = b]  BY DEF RefundBond
<1>4. bonds[c].amount \in Nat  BY <1>1 DEF Bond
<1>5. balance' = After(to, bonds[c].amount)  BY DEF RefundBond
<1>6. Solvent' /\ (Custodian!Release(c) \/ Custodian!Forfeit(c))
  <2>1. b.amount = bonds[c].amount - bonds[c].amount /\ bonds[c].amount <= bonds[c].amount  BY <1>2, <1>4
  <2> HIDE DEF b
  <2> QED  BY <1>2, <1>3, <1>4, <1>5, <2>1, SettleStep
<1>7. balance' \in Nat  BY <1>4, <1>5, AfterBound
<1>8. TypeOK'  BY <1>2, <1>3, <1>7 DEF Inv, TypeOK, RefundBond, settings
<1>9. RefundedOrSlashed'
  BY <1>1, <1>3 DEF Inv, TypeOK, Bond, RefundedOrSlashed, RefundBond
<1> QED  BY <1>6, <1>8, <1>9 DEF Inv

LEMMA SlashStep ==
  ASSUME Inv, NEW caller, NEW c \in Challenges, NEW beneficiary, NEW amount \in Amounts,
         SlashBond(caller, c, beneficiary, amount)
  PROVE  Inv' /\ (Custodian!Release(c) \/ Custodian!Forfeit(c))
<1> USE EscrowAssumption
<1> DEFINE b == [bonds[c] EXCEPT !.amount = @ - amount, !.slashed = TRUE]
           dest == Destination(beneficiary)
<1>1. bonds[c] \in Bond /\ bonds[c].amount \in Nat /\ amount \in Nat  BY DEF Inv, TypeOK, Bond
<1>2. amount <= bonds[c].amount /\ ~bonds[c].refunded  BY DEF SlashBond
<1>3. b \in Bond /\ b.amount = bonds[c].amount - amount
  <2>1. bonds[c].amount - amount \in Nat  BY <1>1, <1>2
  <2>2. b.amount = bonds[c].amount - amount  BY <1>1 DEF Bond
  <2> QED  BY <1>1, <2>1, <2>2 DEF Bond
<1>4. bonds' = [bonds EXCEPT ![c] = b]  BY DEF SlashBond
<1>5. balance' = After(dest, amount)  BY DEF SlashBond
<1>6. Solvent' /\ (Custodian!Release(c) \/ Custodian!Forfeit(c))
  <2>1. b \in Bond /\ amount \in Nat /\ amount <= bonds[c].amount /\ b.amount = bonds[c].amount - amount
    BY <1>1, <1>2, <1>3
  <2>2. bonds' = [bonds EXCEPT ![c] = b] /\ balance' = After(dest, amount)
    BY <1>4, <1>5
  <2> HIDE DEF b, dest
  <2> QED  BY <2>1, <2>2, SettleStep
<1>7. balance' \in Nat  BY <1>1, <1>2, <1>5, AfterBound
<1>8. TypeOK'  BY <1>3, <1>4, <1>7 DEF Inv, TypeOK, SlashBond, settings
<1>9. RefundedOrSlashed'
  BY <1>1, <1>2, <1>4 DEF Inv, TypeOK, Bond, RefundedOrSlashed
<1> QED  BY <1>6, <1>8, <1>9 DEF Inv

(* The owner's setters and the clock touch neither bonds nor balance. *)
LEMMA OtherStep ==
  ASSUME Inv, OwnerSets \/ Tick \/ UNCHANGED vars
  PROVE  Inv' /\ UNCHANGED <<amounts, balance>>
<1> USE EscrowAssumption
<1>1. UNCHANGED <<bonds, balance>>
  BY DEF OwnerSets, SetMinBond, SetChallengeWindow, SetTreasury, SetResolver, Pause, Tick, vars
<1>2. TypeOK'
  <2> USE <1>1 DEF Inv, TypeOK
  <2>1. CASE SetMinBond  BY <2>1 DEF SetMinBond
  <2>2. CASE SetChallengeWindow  BY <2>2 DEF SetChallengeWindow
  <2>3. CASE SetTreasury  BY <2>3 DEF SetTreasury
  <2>4. CASE Pause  BY <2>4 DEF Pause
  <2>5. CASE \E a \in Accounts, enabled \in BOOLEAN : SetResolver(a, enabled)
    BY <2>5 DEF SetResolver
  <2>6. CASE Tick  BY <2>6 DEF Tick, settings
  <2>7. CASE UNCHANGED vars  BY <2>7 DEF vars, settings
  <2> QED  BY <2>1, <2>2, <2>3, <2>4, <2>5, <2>6, <2>7 DEF OwnerSets
<1>3. UNCHANGED amounts  BY <1>1 DEF amounts
<1>4. Solvent'  BY <1>1, <1>3 DEF Inv, Solvent
<1>5. RefundedOrSlashed'  BY <1>1 DEF Inv, RefundedOrSlashed
<1> QED  BY <1>1, <1>2, <1>3, <1>4, <1>5 DEF Inv

LEMMA ReceiveStep ==
  ASSUME Inv, NEW value \in Amounts, ReceiveEther(value)
  PROVE  Inv' /\ Custodian!Gift
<1> USE EscrowAssumption
<1>1. bonds' = bonds /\ UNCHANGED <<settings, now>> /\ balance' = balance + value
  BY DEF ReceiveEther
<1>2. balance \in Nat /\ value \in Nat  BY DEF Inv, TypeOK
<1>3. TypeOK'  BY <1>1, <1>2 DEF Inv, TypeOK, settings
<1>4. UNCHANGED amounts  BY <1>1 DEF amounts
<1>5. Total(amounts, Challenges) \in Nat  BY AmountsType, TotalType DEF Inv
<1>6. Solvent'  BY <1>1, <1>2, <1>4, <1>5 DEF Inv, Solvent
<1>7. RefundedOrSlashed'  BY <1>1 DEF Inv, RefundedOrSlashed
<1>8. Custodian!Gift  BY <1>1, <1>2, <1>4 DEF Custodian!Gift
<1> QED  BY <1>3, <1>6, <1>7, <1>8 DEF Inv

(* Every step keeps the invariants, and is a step of Custody or none. *)
LEMMA EveryStep ==
  ASSUME Inv, [Next]_vars
  PROVE  Inv' /\ [Custodian!Next]_<<amounts, balance>>
<1>1. CASE \E caller \in Accounts \ {Escrow}, c \in Challenges, value \in Amounts : PostBond(caller, c, value)
  BY <1>1, PostStep DEF Custodian!Next
<1>2. CASE Settle
  <2>1. PICK caller \in resolvers \ {Escrow}, c \in Challenges :
          \/ \E to \in Accounts : RefundBond(caller, c, to)
          \/ \E beneficiary \in Accounts \cup {NoAccount}, amount \in Amounts :
               SlashBond(caller, c, beneficiary, amount)
    BY <1>2 DEF Settle
  <2>2. Inv' /\ (Custodian!Release(c) \/ Custodian!Forfeit(c))
    BY <2>1, RefundStep, SlashStep
  <2> QED  BY <2>2 DEF Custodian!Next
<1>3. CASE OwnerSets \/ Tick \/ UNCHANGED vars
  BY <1>3, OtherStep
<1>4. CASE \E value \in Amounts : ReceiveEther(value)
  BY <1>4, ReceiveStep DEF Custodian!Next
<1> QED  BY <1>1, <1>2, <1>3, <1>4 DEF Next

LEMMA SpecInv == Spec => []Inv
<1>1. Inv /\ [Next]_vars => Inv'  BY EveryStep
<1> QED  BY InitInv, <1>1, PTL DEF Spec

(* TypeOK, for every value of the constants: no checked subtraction of       *)
(* contracts/ChallengeBondEscrow.sol underflows and no payment is made that  *)
(* the contract cannot make.                                                 *)
THEOREM BondsTyped == Spec => []TypeOK
<1>1. Inv => TypeOK  BY DEF Inv
<1> QED  BY SpecInv, <1>1, PTL

(* Solvent, for every value of the constants: the contract holds what its    *)
(* unsettled bonds add up to.                                                *)
THEOREM BondsSolvent == Spec => []Solvent
<1>1. Inv => Solvent  BY DEF Inv
<1> QED  BY SpecInv, <1>1, PTL

(* RefundedOrSlashed, for every value of the constants: no bond is both      *)
(* refunded and slashed, whatever is posted again under its identifier.      *)
THEOREM BondsSettledOneWay == Spec => []RefundedOrSlashed
<1>1. Inv => RefundedOrSlashed  BY DEF Inv
<1> QED  BY SpecInv, <1>1, PTL

(* ImplementsCustody, for every value of the constants: a bond's money comes *)
(* in with its posting, leaves only for itself, and no bond pays another.    *)
THEOREM BondsInCustody == Spec => ImplementsCustody
<1>1. Init => Custodian!Init
  BY DEF Init, Custodian!Init, amounts, NoBond
<1>2. Inv /\ [Next]_vars => [Custodian!Next]_<<amounts, balance>>
  BY EveryStep
<1> QED  BY SpecInv, <1>1, <1>2, PTL DEF Spec, ImplementsCustody, Custodian!Spec
===============================================================================
