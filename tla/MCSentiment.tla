------------------------------- MODULE MCSentiment -------------------------------
(* A small instance of Sentiment for TLC. *)
EXTENDS Sentiment

CONSTANTS alice, bob, core, other, A, B

vaultaA == [contract |-> core,  symbol |-> A]
vaultaB == [contract |-> core,  symbol |-> B]
otherA  == [contract |-> other, symbol |-> A]

Cfg(T, action, to, fee) ==
  [enabled |-> FALSE, token |-> T, action |-> action, receiver |-> to, fee |-> fee]

----
(* Custody: two holders, three tokens that agree in the contract or in the     *)
(* symbol only, one of them with transfer2; the fee may be sent by transfer    *)
(* or by an action that pays nobody, and may be positive, zero or negative.    *)

CustodyTokens == {vaultaA, vaultaB, otherA}

CustodyCoins ==
  [T \in CustodyTokens |->
     [a \in Accounts |-> IF a # alice THEN 0 ELSE IF T = vaultaA THEN 2 ELSE 1]]

CustodyConfigs ==
  { Cfg(vaultaA, "transfer", bob, 1), Cfg(vaultaA, "notify", bob, 1),
    Cfg(vaultaB, "notify", bob, -1), Cfg(otherA, "transfer2", bob, 0) }
================================================================================
