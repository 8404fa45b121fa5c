---------------------------- MODULE MCSentimentVotes ----------------------------
(* Small instances of SentimentVotes for TLC. *)
EXTENDS SentimentVotes

CONSTANTS alice, bob, core, A, ghost

\* One coin, to pay for a topic with; its receiver may pass it on.
vaultaA == [contract |-> core, symbol |-> A]

Tokens == {vaultaA}

Coins == [T \in Tokens |-> [a \in Accounts |-> IF a = alice THEN 1 ELSE 0]]

OneConfig == { [enabled |-> FALSE, token |-> vaultaA, action |-> "transfer",
                receiver |-> bob, fee |-> 1] }

\* Two names, each the proposer of proposals.
eve == {0}
dan == {1}

ByEve   == [proposer |-> eve, name |-> {0, 2}]
ByDan   == [proposer |-> dan, name |-> {0, 2}]
EveDan  == [proposer |-> eve, name |-> dan]
DanEve  == [proposer |-> dan, name |-> eve]

\* The same name proposed by two accounts: different scopes.
SameName == {ByEve, ByDan}

\* Two accounts that each name a proposal after the other: one scope.
Crossed == {EveDan, DanEve}
================================================================================
