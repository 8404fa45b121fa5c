--------------------------------- MODULE Escrow ---------------------------------
(******************************************************************************)
(* What a contract that keeps prepaid balances promises: it holds exactly     *)
(* what it owes to the accounts plus what nobody claims, it takes on a debt   *)
(* only against a payment it has received, and a payment it makes is charged  *)
(* to one account that is owed as much.                                       *)
(*                                                                            *)
(* The registry (Registry!EscrowRefined) implements it.  The sentiment        *)
(* contract (Sentiment!EscrowRefined) may also forfeit, and takes on a debt   *)
(* against nothing (Grant) when its fee is negative.                          *)
(******************************************************************************)
EXTENDS AssetTotals

CONSTANT Holders        \* the accounts that may be owed

VARIABLES
  owed,         \* what each account is owed
  held,         \* what the contract holds
  surplus       \* what it holds that nobody is owed

escrowVars == <<owed, held, surplus>>

EscrowInit ==
  /\ owed = [a \in Holders |-> 0]
  /\ held = 0
  /\ surplus = 0

\* A payment received and credited to its sender.
Receive(a, q) ==
  /\ owed[a] + q <= MaxAmount
  /\ owed' = Credit(owed, a, q)
  /\ held' = held + q
  /\ UNCHANGED surplus

\* A payment made and charged to the account that asked for it.
Release(a, q) ==
  /\ q <= owed[a]
  /\ owed' = Debit(owed, a, q)
  /\ held' = held - q
  /\ UNCHANGED surplus

\* A payment received that is credited to nobody.
Absorb(q) ==
  /\ held' = held + q
  /\ surplus' = surplus + q
  /\ UNCHANGED owed

\* A charge that is paid to nobody: the contract keeps what it no longer owes.
Forfeit(a, q) ==
  /\ q <= owed[a]
  /\ owed' = Debit(owed, a, q)
  /\ surplus' = surplus + q
  /\ UNCHANGED held

\* A debt taken on against nothing: no step of an escrow.
Grant(a, q) ==
  /\ owed[a] + q <= MaxAmount
  /\ owed' = Credit(owed, a, q)
  /\ surplus' = surplus - q
  /\ UNCHANGED held

EscrowNext ==
  \E q \in Amounts \ {0} :
    \/ Absorb(q)
    \/ \E a \in Holders : Receive(a, q) \/ Release(a, q) \/ Forfeit(a, q)

EscrowSpec == EscrowInit /\ [][EscrowNext]_escrowVars

EscrowTypeOK ==
  /\ owed \in [Holders -> Amounts]
  /\ held \in Nat
  /\ surplus \in Nat

\* The contract can pay everyone it owes, all at once, and nothing is missing
\* or unaccounted for.
Solvent == held = surplus + Total(owed)
================================================================================
