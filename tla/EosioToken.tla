------------------------------- MODULE EosioToken -------------------------------
(******************************************************************************)
(* The token contract of the system (shared/include/eosio.token): the tables  *)
(* that the api and sentiment contracts read in whatever token contract they  *)
(* are told of.  A token is a contract's and has a code; the precision is the *)
(* other half of its symbol.                                                  *)
(******************************************************************************)
EXTENDS AssetTotals

CONSTANTS
  Accounts,         \* every account
  Tokens,           \* [contract, code] pairs
  Precisions,
  NoAccount,
  Beginnings        \* what the chain may begin with

NoStat == [issuer |-> NoAccount, precision |-> 0, supply |-> 0, max |-> 0]

Stats == [issuer : Accounts, precision : Precisions, supply : Amounts, max : Amounts \ {0}]

ASSUME EosioTokenAssumption ==
  /\ IsFiniteSet(Accounts) /\ NoAccount \notin Accounts
  /\ Tokens \subseteq [contract : Accounts, code : STRING]
  /\ \A b \in Beginnings :
       /\ b.stats \in [Tokens -> Stats \cup {NoStat}]
       /\ b.balances \in [Tokens -> [Accounts -> Amounts]]
       /\ \A t \in Tokens : /\ Total(b.balances[t]) = b.stats[t].supply
                            /\ b.stats[t].supply <= b.stats[t].max

VARIABLES
  stats,        \* the stat tables
  rows,         \* for each token, the accounts with a row in its accounts table
  balances      \* and the balance in the row, 0 without one

tokenVars == <<stats, rows, balances>>

Exists(t) == stats[t] # NoStat

\* The balance found in the accounts table, or none.
HasRow(t, a) == t \in Tokens /\ a \in rows[t]
Held(t, a) == IF HasRow(t, a) THEN balances[t][a] ELSE 0

TokenInit(beginning) ==
  /\ stats = beginning.stats
  /\ balances = beginning.balances
  /\ rows = [t \in Tokens |-> {a \in Accounts : beginning.balances[t][a] > 0}]

----
\* sub_balance
CanSub(t, a, q) == a \in rows[t] /\ balances[t][a] >= q

\* add_balance: a row is made where there is none.
AddRow(t, a) == rows' = [rows EXCEPT ![t] = @ \cup {a}]

\* Fault: the supply is what may still be issued.
IssueUpToMax(t, q, precision) ==
  /\ Exists(t) /\ q > 0
  /\ precision = stats[t].precision
  /\ q <= stats[t].max
  /\ stats' = [stats EXCEPT ![t].supply = @ + q]
  /\ balances' = [balances EXCEPT ![t] = Credit(@, stats[t].issuer, q)]
  /\ AddRow(t, stats[t].issuer)

Create(t, issuer, precision, max) ==
  /\ ~ Exists(t) /\ max > 0
  /\ stats' = [stats EXCEPT ![t] = [issuer |-> issuer, precision |-> precision,
                                    supply |-> 0, max |-> max]]
  /\ UNCHANGED <<rows, balances>>

Issue(t, q, precision) ==
  /\ Exists(t) /\ q > 0
  /\ precision = stats[t].precision
  /\ q <= stats[t].max - stats[t].supply
  /\ stats' = [stats EXCEPT ![t].supply = @ + q]
  /\ balances' = [balances EXCEPT ![t] = Credit(@, stats[t].issuer, q)]
  /\ AddRow(t, stats[t].issuer)

Retire(t, q, precision) ==
  /\ Exists(t) /\ q > 0
  /\ precision = stats[t].precision
  /\ CanSub(t, stats[t].issuer, q)
  /\ stats' = [stats EXCEPT ![t].supply = @ - q]
  /\ balances' = [balances EXCEPT ![t] = Debit(@, stats[t].issuer, q)]
  /\ UNCHANGED rows

Transfer(t, from, to, q, precision) ==
  /\ from # to /\ Exists(t) /\ q > 0
  /\ precision = stats[t].precision
  /\ CanSub(t, from, q)
  /\ balances' = [balances EXCEPT ![t] = Credit(Debit(@, from, q), to, q)]
  /\ AddRow(t, to)
  /\ UNCHANGED stats

Open(t, owner, precision) ==
  /\ Exists(t)
  /\ precision = stats[t].precision
  /\ AddRow(t, owner)
  /\ UNCHANGED <<stats, balances>>

Close(t, owner) ==
  /\ owner \in rows[t] /\ balances[t][owner] = 0
  /\ rows' = [rows EXCEPT ![t] = @ \ {owner}]
  /\ UNCHANGED <<stats, balances>>

\* A transfer that another contract sends, in the token's own precision.
Move(t, from, to, q) == Transfer(t, from, to, q, stats[t].precision)

----
TokenTypeOK ==
  /\ stats \in [Tokens -> Stats \cup {NoStat}]
  /\ rows \in [Tokens -> SUBSET Accounts]
  /\ balances \in [Tokens -> [Accounts -> Amounts]]
  /\ \A t \in Tokens, a \in Accounts : a \notin rows[t] => balances[t][a] = 0
================================================================================
