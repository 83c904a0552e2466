------------------------- MODULE ChallengeBondEscrow -------------------------
(***************************************************************************)
(* contracts/ChallengeBondEscrow.sol: bonds of fraud challenges, refunded  *)
(* or slashed, in parts if need be, by a resolver.                         *)
(***************************************************************************)
EXTENDS Integers, FiniteSets, Tally

CONSTANTS
  Challenges,  \* challenge identifiers
  Accounts,    \* addresses, the escrow's own among them
  Escrow,      \* the escrow's own address
  Rejecting,   \* accounts that do not accept ETH
  NoAccount,   \* the zero address
  Amounts,     \* values sent, slashed or required
  Windows,     \* settings of challengeWindowSecs
  Word,        \* 2^64, at which the two times are cut off
  Supply,      \* ETH in existence
  MaxTime      \* bound on the clock

ASSUME EscrowAssumption ==
  /\ IsFiniteSet(Challenges)
  /\ Escrow \in Accounts /\ Rejecting \subseteq Accounts \ {Escrow} /\ NoAccount \notin Accounts
  /\ Amounts \subseteq Nat /\ Windows \subseteq Nat /\ Word \in Nat \ {0} /\ MaxTime \in Nat
  /\ Supply \in Nat

VARIABLES
  bonds,                \* challenge identifier -> Bond
  minBond, challengeWindowSecs, treasury, resolvers, paused,
  balance,              \* the contract's ETH
  now                   \* block.timestamp

settings == <<minBond, challengeWindowSecs, treasury, resolvers, paused>>
vars == <<bonds, settings, balance, now>>

Bond == [challenger : Accounts \cup {NoAccount}, amount : Nat, postedAt : Nat, expiresAt : Nat,
         refunded : BOOLEAN, slashed : BOOLEAN]

NoBond == [challenger |-> NoAccount, amount |-> 0, postedAt |-> 0, expiresAt |-> 0,
           refunded |-> FALSE, slashed |-> FALSE]

Init ==
  /\ bonds = [c \in Challenges |-> NoBond]
  /\ minBond \in Amounts
  /\ challengeWindowSecs \in Windows
  /\ treasury \in Accounts
  /\ resolvers \in SUBSET Accounts
  /\ paused = FALSE
  /\ balance = 0 /\ now = 1

(* What is left after a payment; the escrow may pay itself. *)
After(dest, amount) == IF dest = Escrow THEN balance ELSE balance - amount

(* For comparison: an identifier in use is not refused. *)
PostBondAgain(caller, c, value) ==
  /\ ~paused
  /\ value >= minBond
  /\ bonds' = [bonds EXCEPT ![c] =
       [challenger |-> caller, amount |-> value, postedAt |-> now % Word,
        expiresAt |-> (now + challengeWindowSecs) % Word, refunded |-> FALSE, slashed |-> FALSE]]
  /\ balance + value <= Supply /\ balance' = balance + value
  /\ UNCHANGED <<settings, now>>

PostBond(caller, c, value) ==
  /\ ~paused
  /\ value >= minBond
  /\ bonds[c].amount = 0
  /\ bonds' = [bonds EXCEPT ![c] =
       [challenger |-> caller, amount |-> value, postedAt |-> now % Word,
        expiresAt |-> (now + challengeWindowSecs) % Word, refunded |-> FALSE, slashed |-> FALSE]]
  /\ balance + value <= Supply /\ balance' = balance + value
  /\ UNCHANGED <<settings, now>>

(* For comparison: what has been slashed in part can still be refunded. *)
RefundBondSlashed(caller, c, to) ==
  /\ ~paused /\ caller \in resolvers
  /\ ~bonds[c].refunded /\ bonds[c].amount # 0
  /\ to \notin Rejecting
  /\ bonds' = [bonds EXCEPT ![c].refunded = TRUE, ![c].amount = 0]
  /\ balance' = After(to, bonds[c].amount)
  /\ UNCHANGED <<settings, now>>

RefundBond(caller, c, to) ==
  /\ ~paused /\ caller \in resolvers
  /\ ~bonds[c].refunded /\ ~bonds[c].slashed
  /\ bonds[c].amount # 0
  /\ to \notin Rejecting
  /\ bonds' = [bonds EXCEPT ![c].refunded = TRUE, ![c].amount = 0]
  /\ balance' = After(to, bonds[c].amount)
  /\ UNCHANGED <<settings, now>>

(* The beneficiary, or the treasury if none is given. *)
Destination(beneficiary) == IF beneficiary = NoAccount THEN treasury ELSE beneficiary

(* For comparison: the whole bond is paid out, and only a part is written off. *)
SlashBondInFull(caller, c, beneficiary, amount) ==
  /\ ~paused /\ caller \in resolvers
  /\ ~bonds[c].refunded
  /\ bonds[c].amount # 0
  /\ amount > 0 /\ amount <= bonds[c].amount
  /\ Destination(beneficiary) \notin Rejecting
  /\ bonds' = [bonds EXCEPT ![c].amount = @ - amount, ![c].slashed = TRUE]
  /\ balance' = After(Destination(beneficiary), bonds[c].amount)
  /\ UNCHANGED <<settings, now>>

SlashBond(caller, c, beneficiary, amount) ==
  /\ ~paused /\ caller \in resolvers
  /\ ~bonds[c].refunded
  /\ bonds[c].amount # 0
  /\ amount > 0 /\ amount <= bonds[c].amount
  /\ Destination(beneficiary) \notin Rejecting
  /\ bonds' = [bonds EXCEPT ![c].amount = @ - amount, ![c].slashed = TRUE]
  /\ balance' = After(Destination(beneficiary), amount)
  /\ UNCHANGED <<settings, now>>

SetMinBond ==
  /\ minBond' \in Amounts
  /\ UNCHANGED <<bonds, challengeWindowSecs, treasury, resolvers, paused, balance, now>>
SetChallengeWindow ==
  /\ challengeWindowSecs' \in Windows
  /\ UNCHANGED <<bonds, minBond, treasury, resolvers, paused, balance, now>>
SetTreasury ==
  /\ treasury' \in Accounts
  /\ UNCHANGED <<bonds, minBond, challengeWindowSecs, resolvers, paused, balance, now>>
SetResolver(resolver, enabled) ==
  /\ resolvers' = IF enabled THEN resolvers \cup {resolver} ELSE resolvers \ {resolver}
  /\ UNCHANGED <<bonds, minBond, challengeWindowSecs, treasury, paused, balance, now>>
Pause ==
  /\ paused' = ~paused
  /\ UNCHANGED <<bonds, minBond, challengeWindowSecs, treasury, resolvers, balance, now>>

ReceiveEther(value) ==
  balance + value <= Supply /\ balance' = balance + value /\ UNCHANGED <<bonds, settings, now>>

Tick == now < MaxTime /\ now' = now + 1 /\ UNCHANGED <<bonds, settings, balance>>

OwnerSets ==
  \/ SetMinBond \/ SetChallengeWindow \/ SetTreasury \/ Pause
  \/ \E a \in Accounts, enabled \in BOOLEAN : SetResolver(a, enabled)

Settle ==
  \E caller \in resolvers \ {Escrow}, c \in Challenges :
    \/ \E to \in Accounts : RefundBond(caller, c, to)
    \/ \E beneficiary \in Accounts \cup {NoAccount}, amount \in Amounts :
         SlashBond(caller, c, beneficiary, amount)

Next ==
  \/ \E caller \in Accounts \ {Escrow}, c \in Challenges, value \in Amounts : PostBond(caller, c, value)
  \/ Settle
  \/ OwnerSets
  \/ \E value \in Amounts : ReceiveEther(value)
  \/ Tick

Spec == Init /\ [][Next]_vars
-------------------------------------------------------------------------------
amounts == [c \in Challenges |-> bonds[c].amount]

(* Type correctness: in particular no payment exceeds what the contract has. *)
TypeOK ==
  /\ bonds \in [Challenges -> Bond]
  /\ minBond \in Nat /\ challengeWindowSecs \in Nat
  /\ treasury \in Accounts /\ resolvers \subseteq Accounts /\ paused \in BOOLEAN
  /\ balance \in Nat /\ now \in Nat

(* The contract can pay every bond that is not settled: whatever mix of      *)
(* refunds, partial slashes, payments to itself, new postings under a used   *)
(* identifier and retuning has happened.                                     *)
Solvent == balance >= Total(amounts, Challenges)

(* A bond is refunded whole or slashed, never both, and nothing is left of a *)
(* refunded one ("remaining amount stays locked", line 134).                 *)
RefundedOrSlashed ==
  \A c \in Challenges : bonds[c].refunded => ~bonds[c].slashed /\ bonds[c].amount = 0

(* The escrow is a custodian: this is what Custody promises, and the         *)
(* refinement carries it over.                                               *)
Custodian == INSTANCE Custody WITH Keys <- Challenges, held <- amounts, pot <- balance
ImplementsCustody == Custodian!Spec

===============================================================================
