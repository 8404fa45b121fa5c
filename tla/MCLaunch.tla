------------------------------- MODULE MCLaunch -------------------------------
(* A small instance of Launch for TLC. *)
EXTENDS Launch

CONSTANTS alice, core, other, A, XYZ

fee == [contract |-> core, symbol |-> A]

FeeTokensHere == {fee}

LaunchCoins == [K \in FeeTokens |-> [a \in Accounts |-> IF a = alice THEN 1 ELSE 0]]

LaunchConfigs ==
  {[enabled |-> TRUE, token |-> fee, receiver |-> alice, fee |-> 1, minlength |-> 1]}

Lengths == [t \in Tickers |-> 1]
===============================================================================
