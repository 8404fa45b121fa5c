------------------------------- MODULE MCRegistry -------------------------------
(* A small instance of Registry for TLC. *)
EXTENDS Registry

CONSTANTS alice, bob, core, other, A, B, XYZ, LONG

vaultaA == [contract |-> core,  symbol |-> A]
vaultaB == [contract |-> core,  symbol |-> B]
otherA  == [contract |-> other, symbol |-> A]

Cfg(on, T, to, fee, len) ==
  [enabled |-> on, token |-> T, receiver |-> to, fee |-> fee, minlength |-> len]

\* Two holders, three tokens of which two share a symbol.
FeeTokensHere == {vaultaA, vaultaB, otherA}

Coins ==
  [T \in FeeTokensHere |->
     [a \in Accounts |-> IF a # alice THEN 0 ELSE IF T = vaultaA THEN 2 ELSE 1]]

Lengths == [t \in Tickers |-> IF t = LONG THEN 2 ELSE 1]

\* Custody: an administrator who may move the fee to another symbol or another
\* contract.
CustodyConfigs ==
  { Cfg(FALSE, vaultaA, bob, 1, 2), Cfg(TRUE, vaultaB, bob, 1, 1),
    Cfg(TRUE, otherA, bob, 1, 1) }

\* Registration: configurations that disagree on fee, receiver and least length.
RegistrationConfigs ==
  { Cfg(FALSE, vaultaA, bob, 1, 2), Cfg(TRUE, vaultaA, alice, 2, 1),
    Cfg(TRUE, NoToken, NoAccount, 0, 1) }

ConfigsHere == CustodyConfigs \cup RegistrationConfigs

\* The two are looked at one at a time: either coins move among three fee tokens, or
\* tickers are registered for one of them, of which nothing arrives uncredited.
OneQuestion ==
  \/ /\ config.fee = 1 \/ config = DefaultConfig
     /\ contracts = {} /\ \A t \in Tickers : registered[t] = Unregistered
  \/ /\ config.token \in {vaultaA, NoToken}
     /\ \A T \in FeeTokens : unowned[T] = 0 /\ (T # vaultaA => coins[T] = Coins[T])
     /\ registered[XYZ] = Unregistered \/ registered[LONG] = Unregistered
================================================================================
