------------------------------ MODULE AssetTotals ------------------------------
(******************************************************************************)
(* Amounts of assets, and the total of a table of amounts.                    *)
(*                                                                            *)
(* eosio::asset (outside this repository) holds a signed 64-bit amount whose  *)
(* magnitude is at most asset::max_amount; its += and -= abort beyond that.   *)
(* No contract here lets an amount go below zero, so an amount is a natural   *)
(* number of at most MaxAmount.                                               *)
(*                                                                            *)
(* A total is the number of units held: a table holds one unit <<x, n>> for   *)
(* each n up to the amount of x.  Counting units makes the total a            *)
(* cardinality, which the provers can reason about without induction.         *)
(******************************************************************************)
EXTENDS Integers, FiniteSets, Functions

CONSTANT MaxAmount      \* asset::max_amount, 2^62 - 1 on the chain

ASSUME MaxAmountAssumption == MaxAmount \in Nat \ {0}

Amounts == 0 .. MaxAmount

Units(f) == UNION {{x} \X (1 .. f[x]) : x \in DOMAIN f}

Total(f) == Cardinality(Units(f))

\* f with q more, or q less, for x
Credit(f, x, q) == [f EXCEPT ![x] = @ + q]
Debit(f, x, q)  == [f EXCEPT ![x] = @ - q]
================================================================================
