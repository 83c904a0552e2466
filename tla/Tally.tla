------------------------------- MODULE Tally -------------------------------
(***************************************************************************)
(* Totals of money held in a Solidity mapping.  A mapping f from keys to   *)
(* amounts is read as the set of its units: the pairs <<key, n>> with n    *)
(* between 1 and the amount.  Its total is the number of units, which makes*)
(* totals a matter of cardinality and so of the finite-set theorems.       *)
(***************************************************************************)
EXTENDS Integers, FiniteSets

Units(f, S) == UNION { {k} \X (1 .. f[k]) : k \in S }

Total(f, S) == Cardinality(Units(f, S))
=============================================================================
