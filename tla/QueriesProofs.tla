----------------------------- MODULE QueriesProofs -----------------------------
(******************************************************************************)
(* Proofs about what the api and sentiment contracts answer, for any          *)
(* accounts, tokens and amounts: that the answers add up to what there is.    *)
(* They do because the tables behind them do.  The invariant is a set of      *)
(* books: each token's balances are its supply, each account that keeps       *)
(* tokens for others has what the system's tables say it keeps, and each      *)
(* wrapped token is backed.                                                   *)
(******************************************************************************)
EXTENDS Queries, AssetTotalsProofs

----
(* The invariant. *)

\* The tables of the token contracts.
Books(s, r, b) ==
  /\ s \in [Tokens -> Stats \cup {NoStat}]
  /\ r \in [Tokens -> SUBSET Accounts]
  /\ b \in [Tokens -> [Accounts -> Amounts]]
  /\ \A t \in Tokens, a \in Accounts : a \notin r[t] => b[t][a] = 0
  /\ \A t \in Tokens : Total(b[t]) = s[t].supply /\ s[t].supply <= s[t].max

\* The system's tables, in which only users have rows.
Tables ==
  /\ delegated \in [Accounts -> [Accounts -> Nat]]
  /\ refunds \in [Accounts -> Nat]
  /\ pool \in [exists : BOOLEAN, lendable : Nat, rex : Nat]
  /\ funds \in [Accounts -> Nat] /\ shares \in [Accounts -> Nat]
  /\ ram \in [Accounts -> Nat]
  /\ staked \in [Accounts -> [amount : Nat, unstaking : Nat]]
  /\ \A a \in Accounts \ Users :
       /\ refunds[a] = 0 /\ funds[a] = 0
       /\ \A b \in Accounts : delegated[a][b] = 0

\* What an account delegates, to all recipients.
Delegations == [a \in Accounts |-> Total(delegated[a])]

\* eosio.stake has what is delegated and what is being refunded.
StakeKept == balances[Legacy][StakeAccount] = Total(Delegations) + Total(refunds)

\* eosio.rex has what is in the owners' funds and what the pool can lend, of
\* which they own shares; and before the first deposit there is nothing.
RexKept ==
  /\ balances[Legacy][RexAccount] = Total(funds) + pool.lendable
  /\ Total(shares) = pool.rex
  /\ ~ pool.exists => pool.rex = 0 /\ \A a \in Accounts : funds[a] = 0

\* Of V, an owner's tokens whether staked or on their way back.
StakedV == [a \in Accounts |-> staked[a].amount + staked[a].unstaking]

VKept == Total(StakedV) <= balances[V][VStakeContract]

\* There is a legacy token for each of core.vaulta's, and a byte for each WRAM.
Backed ==
  /\ stats[Vaulta].supply <= balances[Legacy][Core]
  /\ stats[Wram].supply <= ram[WramContract]

Configured == apiConfig \in ConfigRows /\ metrics \in MetricsRows

Covered ==
  /\ Books(stats, rows, balances)
  /\ Tables
  /\ StakeKept /\ RexKept /\ VKept
  /\ Backed

Inv == Covered /\ Configured

----
(* The books of the token contracts. *)

LEMMA FiniteAccounts == IsFiniteSet(Accounts)
BY EosioTokenAssumption

\* The lemmas on totals, for tables by account.
LEMMA Counted ==
  ASSUME NEW f \in [Accounts -> Nat]
  PROVE  Total(f) \in Nat /\ \A a \in Accounts : f[a] <= Total(f)
<1>1. Total(f) \in Nat
  BY FiniteAccounts, TotalIsNumber
<1>2. \A a \in Accounts : f[a] <= Total(f)
  BY FiniteAccounts, EntryWithin
<1> QED
  BY <1>1, <1>2

LEMMA Credited ==
  ASSUME NEW f \in [Accounts -> Nat], NEW a \in Accounts, NEW q \in Nat
  PROVE  /\ Credit(f, a, q) \in [Accounts -> Nat]
         /\ Total(f) \in Nat
         /\ Total(Credit(f, a, q)) = Total(f) + q
<1>1. Credit(f, a, q) \in [Accounts -> Nat]
  BY DEF Credit
<1>2. Total(Credit(f, a, q)) = Total(f) + q
  BY FiniteAccounts, CreditAdds
<1> QED
  BY <1>1, <1>2, Counted

LEMMA Debited ==
  ASSUME NEW f \in [Accounts -> Nat], NEW a \in Accounts, NEW q \in Nat, q <= f[a]
  PROVE  /\ Debit(f, a, q) \in [Accounts -> Nat]
         /\ Total(f) \in Nat
         /\ Total(Debit(f, a, q)) = Total(f) - q
<1>1. Debit(f, a, q) \in [Accounts -> Nat]
  BY FiniteAccounts, DebitTakes
<1>2. Total(Debit(f, a, q)) = Total(f) - q
  BY FiniteAccounts, DebitTakes
<1> QED
  BY <1>1, <1>2, Counted

\* A stat row of a token there is has the fields of one.
LEMMA StatFields ==
  ASSUME NEW s \in Stats \cup {NoStat}
  PROVE  /\ s.supply \in Nat /\ s.max \in Nat /\ s.supply \in Amounts
         /\ s # NoStat => s \in Stats
         /\ s = NoStat => s.supply = 0 /\ s.max = 0
BY MaxAmountAssumption DEF Stats, NoStat, Amounts

\* The books of one token are as good as another's.
LEMMA OneToken ==
  ASSUME NEW s, NEW r, NEW b, Books(s, r, b), NEW t \in Tokens,
         NEW x \in Stats \cup {NoStat}, NEW y \in SUBSET Accounts,
         NEW z \in [Accounts -> Amounts],
         \A a \in Accounts : a \notin y => z[a] = 0,
         Total(z) = x.supply, x.supply <= x.max
  PROVE  Books([s EXCEPT ![t] = x], [r EXCEPT ![t] = y], [b EXCEPT ![t] = z])
BY DEF Books

\* A balance is at most the supply, and that an amount.
LEMMA BalanceWithin ==
  ASSUME NEW s, NEW r, NEW b, Books(s, r, b), NEW t \in Tokens
  PROVE  /\ b[t] \in [Accounts -> Amounts] /\ Total(b[t]) = s[t].supply
         /\ s[t].supply \in Nat /\ s[t].max \in Nat /\ s[t].supply <= s[t].max
         /\ s[t].max <= MaxAmount
         /\ \A a \in Accounts : b[t][a] \in Nat /\ b[t][a] <= s[t].supply
<1>1. b[t] \in [Accounts -> Amounts] /\ s[t] \in Stats \cup {NoStat}
  BY DEF Books
<1>2. s[t].supply \in Nat /\ s[t].max \in Nat /\ s[t].max <= MaxAmount
  BY <1>1, MaxAmountAssumption DEF Stats, NoStat, Amounts
<1>3. Total(b[t]) = s[t].supply /\ s[t].supply <= s[t].max
  BY DEF Books
<1>4. \A a \in Accounts : b[t][a] \in Nat
  BY <1>1, MaxAmountAssumption DEF Amounts
<1>5. \A a \in Accounts : b[t][a] <= Total(b[t])
  BY <1>1, TotalBoundsEntry, FiniteAccounts
<1> QED
  BY <1>1, <1>2, <1>3, <1>4, <1>5

LEMMA BooksTransfer ==
  ASSUME NEW s, NEW r, NEW b, Books(s, r, b), NEW t \in Tokens,
         NEW from \in Accounts, NEW to \in Accounts, from # to,
         NEW q \in Nat, q <= b[t][from]
  PROVE  Books(s, [r EXCEPT ![t] = @ \cup {to}],
               [b EXCEPT ![t] = Credit(Debit(@, from, q), to, q)])
<1> DEFINE z == Credit(Debit(b[t], from, q), to, q)
<1>1. /\ b[t] \in [Accounts -> Amounts] /\ Total(b[t]) = s[t].supply
      /\ s[t].supply <= s[t].max /\ s[t].max <= MaxAmount
      /\ s[t].supply \in Nat /\ s[t].max \in Nat
      /\ b[t][from] \in Nat /\ b[t][to] \in Nat
  BY BalanceWithin
<1>2. b[t][from] + b[t][to] <= Total(b[t])
  BY <1>1, TotalBoundsPair, FiniteAccounts
<1>3. b[t][to] + q <= MaxAmount
  BY <1>1, <1>2, MaxAmountAssumption
<1>4. z \in [Accounts -> Amounts] /\ Total(z) = Total(b[t])
  BY <1>1, <1>3, TotalMove, FiniteAccounts
<1>5. \A a \in Accounts : a \notin r[t] \cup {to} => z[a] = 0
  <2> SUFFICES ASSUME NEW a \in Accounts, a \notin r[t] \cup {to} PROVE z[a] = 0
    OBVIOUS
  <2>1. b[t][a] = 0
    BY DEF Books
  <2>2. a = from => q = 0
    BY <1>1, <2>1
  <2> QED
    BY <1>1, <2>1, <2>2 DEF Credit, Debit
<1> HIDE DEF z
<1>6. s[t] \in Stats \cup {NoStat} /\ r[t] \cup {to} \in SUBSET Accounts
  BY DEF Books
<1>7. Books([s EXCEPT ![t] = s[t]], [r EXCEPT ![t] = r[t] \cup {to}], [b EXCEPT ![t] = z])
  BY <1>1, <1>4, <1>5, <1>6, OneToken
<1>8. [s EXCEPT ![t] = s[t]] = s
  BY DEF Books
<1> QED
  BY <1>7, <1>8 DEF z

LEMMA BooksIssue ==
  ASSUME NEW s, NEW r, NEW b, Books(s, r, b), NEW t \in Tokens, s[t] # NoStat,
         NEW a \in Accounts, NEW q \in Nat, q <= s[t].max - s[t].supply
  PROVE  Books([s EXCEPT ![t].supply = @ + q], [r EXCEPT ![t] = @ \cup {a}],
               [b EXCEPT ![t] = Credit(@, a, q)])
<1> DEFINE z == Credit(b[t], a, q)
           x == [s[t] EXCEPT !.supply = @ + q]
<1>1. /\ b[t] \in [Accounts -> Amounts] /\ Total(b[t]) = s[t].supply
      /\ s[t].supply <= s[t].max /\ s[t].max <= MaxAmount
      /\ s[t].supply \in Nat /\ s[t].max \in Nat
      /\ b[t][a] \in Nat /\ b[t][a] <= s[t].supply
  BY BalanceWithin
<1>2. b[t][a] + q <= MaxAmount
  BY <1>1, MaxAmountAssumption
<1>3. z \in [Accounts -> Amounts] /\ Total(z) = Total(b[t]) + q
  BY <1>1, <1>2, TotalCredit, FiniteAccounts
<1>4. s[t] \in Stats
  BY DEF Books
<1>5. x \in Stats /\ x.supply = s[t].supply + q /\ x.max = s[t].max
  BY <1>1, <1>4, MaxAmountAssumption DEF Stats, Amounts
<1>6. \A c \in Accounts : c \notin r[t] \cup {a} => z[c] = 0
  BY <1>1 DEF Books, Credit
<1>7. r[t] \cup {a} \in SUBSET Accounts
  BY DEF Books
<1> HIDE DEF x, z
<1>8. Total(z) = x.supply /\ x.supply <= x.max /\ x \in Stats \cup {NoStat}
  BY <1>1, <1>3, <1>5
<1>9. Books([s EXCEPT ![t] = x], [r EXCEPT ![t] = r[t] \cup {a}], [b EXCEPT ![t] = z])
  BY <1>3, <1>6, <1>7, <1>8, OneToken
<1>10. [s EXCEPT ![t].supply = @ + q] = [s EXCEPT ![t] = x]
  BY DEF x
<1>11. /\ [r EXCEPT ![t] = @ \cup {a}] = [r EXCEPT ![t] = r[t] \cup {a}]
       /\ [b EXCEPT ![t] = Credit(@, a, q)] = [b EXCEPT ![t] = z]
  BY DEF z
<1> QED
  BY <1>9, <1>10, <1>11

LEMMA BooksRetire ==
  ASSUME NEW s, NEW r, NEW b, Books(s, r, b), NEW t \in Tokens, s[t] # NoStat,
         NEW a \in Accounts, NEW q \in Nat, q <= b[t][a]
  PROVE  Books([s EXCEPT ![t].supply = @ - q], r, [b EXCEPT ![t] = Debit(@, a, q)])
<1> DEFINE z == Debit(b[t], a, q)
           x == [s[t] EXCEPT !.supply = @ - q]
<1>1. /\ b[t] \in [Accounts -> Amounts] /\ Total(b[t]) = s[t].supply
      /\ s[t].supply <= s[t].max /\ s[t].max <= MaxAmount
      /\ s[t].supply \in Nat /\ s[t].max \in Nat
      /\ b[t][a] \in Nat /\ b[t][a] <= s[t].supply
  BY BalanceWithin
<1>2. z \in [Accounts -> Amounts] /\ Total(z) = Total(b[t]) - q
  BY <1>1, TotalDebit, FiniteAccounts
<1>3. s[t] \in Stats
  BY DEF Books
<1>4. x \in Stats /\ x.supply = s[t].supply - q /\ x.max = s[t].max
  BY <1>1, <1>3, MaxAmountAssumption DEF Stats, Amounts
<1>5. \A c \in Accounts : c \notin r[t] => z[c] = 0
  <2> SUFFICES ASSUME NEW c \in Accounts, c \notin r[t] PROVE z[c] = 0
    OBVIOUS
  <2>1. b[t][c] = 0
    BY DEF Books
  <2>2. c = a => q = 0
    BY <1>1, <2>1
  <2>3. z[c] = IF c = a THEN b[t][a] - q ELSE b[t][c]
    BY <1>1 DEF Debit
  <2> QED
    BY <1>1, <2>1, <2>2, <2>3
<1>6. r[t] \in SUBSET Accounts /\ [r EXCEPT ![t] = r[t]] = r
  BY DEF Books
<1> HIDE DEF x, z
<1>6a. Total(z) = x.supply /\ x.supply <= x.max /\ x \in Stats \cup {NoStat}
  BY <1>1, <1>2, <1>4
<1>6b. r[t] \in SUBSET Accounts
  BY DEF Books
<1>7. Books([s EXCEPT ![t] = x], [r EXCEPT ![t] = r[t]], [b EXCEPT ![t] = z])
  BY <1>2, <1>5, <1>6a, <1>6b, OneToken
<1> QED
  BY <1>6, <1>7 DEF x, z

----
(* Steps of the token contracts. *)

\* What a transfer leaves of every balance.
LEMMA TransferStep ==
  ASSUME Books(stats, rows, balances), NEW t \in Tokens,
         NEW from \in Accounts, NEW to \in Accounts, NEW q \in Nat, NEW precision,
         Transfer(t, from, to, q, precision)
  PROVE  /\ Books(stats', rows', balances')
         /\ stats' = stats
         /\ q > 0 /\ q <= balances[t][from]
         /\ balances'[t][from] = balances[t][from] - q
         /\ balances'[t][to] = balances[t][to] + q
         /\ \A a \in Accounts \ {from, to} : balances'[t][a] = balances[t][a]
         /\ \A u \in Tokens \ {t} : balances'[u] = balances[u]
<1>1. from # to /\ q > 0 /\ q <= balances[t][from]
  BY DEF Transfer, CanSub, Books, Amounts
<1>2. /\ balances' = [balances EXCEPT ![t] = Credit(Debit(@, from, q), to, q)]
      /\ rows' = [rows EXCEPT ![t] = @ \cup {to}] /\ stats' = stats
  BY DEF Transfer, AddRow
<1>3. Books(stats', rows', balances')
  BY <1>1, <1>2, BooksTransfer
<1>4. balances \in [Tokens -> [Accounts -> Amounts]]
  BY DEF Books
<1>5. \A u \in Tokens \ {t} : balances'[u] = balances[u]
  BY <1>2, <1>4
<1>6. balances'[t] = Credit(Debit(balances[t], from, q), to, q) /\ balances[t] \in [Accounts -> Amounts]
  BY <1>2, <1>4
<1>7. /\ balances'[t][from] = balances[t][from] - q
      /\ balances'[t][to] = balances[t][to] + q
      /\ \A a \in Accounts \ {from, to} : balances'[t][a] = balances[t][a]
  BY <1>1, <1>6 DEF Credit, Debit
<1> QED
  BY <1>1, <1>2, <1>3, <1>5, <1>7

\* Whoever holds a plain token acts for himself: other tokens, and the balances
\* of accounts that neither sign nor are paid, stay.
Undisturbed ==
  /\ \A t \in Tokens : t \notin Plain => stats'[t] = stats[t] /\ balances'[t] = balances[t]
  /\ \A t \in Tokens : \A a \in Accounts \ (Users \cup {System, t.contract}) :
       balances'[t][a] = balances[t][a]

LEMMA TokenStep ==
  ASSUME Books(stats, rows, balances), TokenNext
  PROVE  Books(stats', rows', balances') /\ Undisturbed
<1>1. PICK t \in Plain, precision \in Precisions :
        \/ \E issuer \in Users, max \in Amounts \ {0} : Create(t, issuer, precision, max)
        \/ \E q \in Amounts \ {0} :
             \/ stats[t].issuer \in Users /\ (Issue(t, q, precision) \/ Retire(t, q, precision))
             \/ \E from, to \in Users \cup {System, t.contract} : Transfer(t, from, to, q, precision)
        \/ \E owner \in Users : Open(t, owner, precision)
  BY DEF TokenNext
<1>2. /\ t \in Tokens /\ t.contract \in Accounts /\ System \in Accounts /\ Users \subseteq Accounts
      /\ Amounts \subseteq Nat
  BY QueriesAssumption, EosioTokenAssumption, SystemAssumption DEF Amounts
<1>3. /\ stats \in [Tokens -> Stats \cup {NoStat}] /\ balances \in [Tokens -> [Accounts -> Amounts]]
      /\ rows \in [Tokens -> SUBSET Accounts] /\ balances[t] \in [Accounts -> Amounts]
  BY <1>2 DEF Books
<1>4. ASSUME NEW issuer \in Users, NEW max \in Amounts \ {0}, Create(t, issuer, precision, max)
      PROVE  Books(stats', rows', balances') /\ Undisturbed
  <2> DEFINE x == [issuer |-> issuer, precision |-> precision, supply |-> 0, max |-> max]
  <2>1. /\ stats' = [stats EXCEPT ![t] = x] /\ rows' = rows /\ balances' = balances
        /\ stats[t] = NoStat
    BY <1>4 DEF Create, Exists
  <2>2. x \in Stats /\ x.supply = 0 /\ x.supply <= x.max
    BY <1>2, MaxAmountAssumption DEF Stats, Amounts
  <2> HIDE DEF x
  <2>3. Total(balances[t]) = x.supply
    BY <1>2, <2>1, <2>2 DEF Books, NoStat
  <2>4. Books([stats EXCEPT ![t] = x], [rows EXCEPT ![t] = rows[t]],
              [balances EXCEPT ![t] = balances[t]])
    BY <1>2, <1>3, <2>2, <2>3, OneToken DEF Books
  <2>5. [rows EXCEPT ![t] = rows[t]] = rows /\ [balances EXCEPT ![t] = balances[t]] = balances
    BY <1>3
  <2> QED
    BY <1>2, <1>3, <2>1, <2>4, <2>5 DEF Undisturbed
<1>5. ASSUME NEW q \in Amounts \ {0}, stats[t].issuer \in Users, Issue(t, q, precision)
      PROVE  Books(stats', rows', balances') /\ Undisturbed
  <2>1. stats[t] # NoStat /\ q <= stats[t].max - stats[t].supply
    BY <1>5 DEF Issue, Exists
  <2>2. /\ stats' = [stats EXCEPT ![t].supply = @ + q]
        /\ rows' = [rows EXCEPT ![t] = @ \cup {stats[t].issuer}]
        /\ balances' = [balances EXCEPT ![t] = Credit(@, stats[t].issuer, q)]
    BY <1>5 DEF Issue, AddRow
  <2>3. Books(stats', rows', balances')
    BY <1>2, <1>5, <2>1, <2>2, BooksIssue
  <2>4. balances'[t] = Credit(balances[t], stats[t].issuer, q)
    BY <1>2, <1>3, <2>2
  <2>5. \A a \in Accounts \ Users : balances'[t][a] = balances[t][a]
    BY <1>3, <1>5, <2>4 DEF Credit
  <2> QED
    BY <1>2, <1>3, <2>2, <2>3, <2>5 DEF Undisturbed
<1>6. ASSUME NEW q \in Amounts \ {0}, stats[t].issuer \in Users, Retire(t, q, precision)
      PROVE  Books(stats', rows', balances') /\ Undisturbed
  <2>1. stats[t] # NoStat /\ q <= balances[t][stats[t].issuer]
    <3>1. stats[t] # NoStat /\ balances[t][stats[t].issuer] >= q
      BY <1>6 DEF Retire, Exists, CanSub
    <3>2. balances[t][stats[t].issuer] \in Nat /\ q \in Nat
      BY <1>2, <1>3, <1>6
    <3> QED
      BY <3>1, <3>2
  <2>2. /\ stats' = [stats EXCEPT ![t].supply = @ - q] /\ rows' = rows
        /\ balances' = [balances EXCEPT ![t] = Debit(@, stats[t].issuer, q)]
    BY <1>6 DEF Retire
  <2>3. Books(stats', rows', balances')
    BY <1>2, <1>6, <2>1, <2>2, BooksRetire
  <2>4. balances'[t] = Debit(balances[t], stats[t].issuer, q)
    BY <1>2, <1>3, <2>2
  <2>5. \A a \in Accounts \ Users : balances'[t][a] = balances[t][a]
    BY <1>3, <1>6, <2>4 DEF Debit
  <2> QED
    BY <1>2, <1>3, <2>2, <2>3, <2>5 DEF Undisturbed
<1>7. ASSUME NEW q \in Amounts \ {0}, NEW from \in Users \cup {System, t.contract},
             NEW to \in Users \cup {System, t.contract}, Transfer(t, from, to, q, precision)
      PROVE  Books(stats', rows', balances') /\ Undisturbed
  <2>1. from \in Accounts /\ to \in Accounts /\ q \in Nat
    BY <1>2
  <2>2. /\ Books(stats', rows', balances') /\ stats' = stats
        /\ \A a \in Accounts \ {from, to} : balances'[t][a] = balances[t][a]
        /\ \A u \in Tokens \ {t} : balances'[u] = balances[u]
    BY <1>2, <1>7, <2>1, TransferStep
  <2> QED
    BY <2>2 DEF Undisturbed
<1>8. ASSUME NEW owner \in Users, Open(t, owner, precision)
      PROVE  Books(stats', rows', balances') /\ Undisturbed
  <2>1. /\ stats' = stats /\ balances' = balances
        /\ rows' = [rows EXCEPT ![t] = @ \cup {owner}]
    BY <1>8 DEF Open, AddRow
  <2>2. /\ rows' \in [Tokens -> SUBSET Accounts]
        /\ \A u \in Tokens, a \in Accounts : a \notin rows'[u] => a \notin rows[u]
    BY <1>2, <1>3, <2>1
  <2> QED
    BY <2>1, <2>2 DEF Books, Undisturbed
<1> QED
  BY <1>1, <1>4, <1>5, <1>6, <1>7, <1>8

LEMMA CloseStep ==
  ASSUME Books(stats, rows, balances), CloseNext
  PROVE  Books(stats', rows', balances') /\ Undisturbed
<1>1. PICK t \in Plain : \E owner \in rows[t] : Close(t, owner)
  BY DEF CloseNext
<1>2. PICK owner \in rows[t] : Close(t, owner)
  BY <1>1
<1>3. t \in Tokens
  BY QueriesAssumption
<1>4. /\ stats' = stats /\ balances' = balances /\ balances[t][owner] = 0
      /\ rows' = [rows EXCEPT ![t] = @ \ {owner}]
  BY <1>2 DEF Close
<1>5. rows \in [Tokens -> SUBSET Accounts]
  BY DEF Books
<1>6. /\ rows' \in [Tokens -> SUBSET Accounts]
      /\ \A u \in Tokens, a \in Accounts :
           a \notin rows'[u] => a \notin rows[u] \/ (u = t /\ a = owner)
  BY <1>3, <1>4, <1>5
<1>7. \A u \in Tokens, a \in Accounts : a \notin rows[u] => balances[u][a] = 0
  BY DEF Books
<1>8. \A u \in Tokens, a \in Accounts : a \notin rows'[u] => balances'[u][a] = 0
  BY <1>4, <1>6, <1>7
<1> QED
  BY <1>4, <1>6, <1>8 DEF Books, Undisturbed

----
(* Steps of the system's tables. *)

\* Those who keep tokens for others are no users, and keep them apart.
LEMMA Parties ==
  /\ Users \subseteq Accounts /\ Wrappers \subseteq Users
  /\ {StakeAccount, RexAccount, Core, WramContract, VStakeContract} \subseteq Accounts \ Users
  /\ StakeAccount # RexAccount /\ Core # StakeAccount /\ Core # RexAccount
  /\ {Legacy, Vaulta, Wram, V} \subseteq Tokens
  /\ Legacy # Vaulta /\ Legacy # Wram /\ Legacy # V
  /\ Vaulta # Wram /\ Vaulta # V /\ Wram # V
  /\ Amounts \subseteq Nat
BY SystemAssumption DEF Amounts

\* The tables' totals are numbers.
LEMMA TableTotals ==
  ASSUME Tables
  PROVE  /\ Delegations \in [Accounts -> Nat] /\ Total(Delegations) \in Nat
         /\ StakedV \in [Accounts -> Nat] /\ Total(StakedV) \in Nat
         /\ Total(refunds) \in Nat /\ Total(funds) \in Nat /\ Total(shares) \in Nat
<1>1. /\ delegated \in [Accounts -> [Accounts -> Nat]]
      /\ refunds \in [Accounts -> Nat] /\ funds \in [Accounts -> Nat]
      /\ shares \in [Accounts -> Nat]
      /\ staked \in [Accounts -> [amount : Nat, unstaking : Nat]]
  BY DEF Tables
<1>2. \A a \in Accounts : Total(delegated[a]) \in Nat
  BY <1>1, Counted
<1>3. Delegations \in [Accounts -> Nat] /\ StakedV \in [Accounts -> Nat]
  BY <1>1, <1>2 DEF Delegations, StakedV
<1> QED
  BY <1>1, <1>3, Counted

\* What is delegated to one recipient counts for the delegator, and for all.
LEMMA DelegatedMore ==
  ASSUME Tables, NEW x \in Users, NEW y \in Users, NEW q \in Nat,
         delegated' = [delegated EXCEPT ![x][y] = @ + q]
  PROVE  /\ delegated' \in [Accounts -> [Accounts -> Nat]]
         /\ \A a \in Accounts \ Users : delegated'[a] = delegated[a]
         /\ Total(Delegations') = Total(Delegations) + q
<1> DEFINE e == Credit(delegated[x], y, q)
<1>1. /\ delegated \in [Accounts -> [Accounts -> Nat]]
      /\ x \in Accounts /\ y \in Accounts /\ delegated[x] \in [Accounts -> Nat]
  BY Parties DEF Tables
<1>2. e \in [Accounts -> Nat] /\ Total(e) = Total(delegated[x]) + q
  BY <1>1, Credited
<1>3. delegated' = [delegated EXCEPT ![x] = e]
  BY DEF Credit
<1> HIDE DEF e
<1>5. /\ delegated' \in [Accounts -> [Accounts -> Nat]] /\ delegated'[x] = e
      /\ \A a \in Accounts : a # x => delegated'[a] = delegated[a]
  BY <1>1, <1>2, <1>3
<1>6. Delegations \in [Accounts -> Nat] /\ Delegations[x] = Total(delegated[x])
  BY <1>1, TableTotals DEF Delegations
<1>7. Delegations' = Credit(Delegations, x, q)
  BY <1>1, <1>2, <1>5 DEF Delegations, Credit
<1>9. Total(Credit(Delegations, x, q)) = Total(Delegations) + q
  BY <1>1, <1>6, Credited
<1>10. Total(Delegations') = Total(Delegations) + q
  BY <1>7, <1>9
<1> QED
  BY <1>1, <1>5, <1>10

LEMMA DelegatedLess ==
  ASSUME Tables, NEW x \in Users, NEW y \in Users, NEW q \in Nat, q <= delegated[x][y],
         delegated' = [delegated EXCEPT ![x][y] = @ - q]
  PROVE  /\ delegated' \in [Accounts -> [Accounts -> Nat]]
         /\ \A a \in Accounts \ Users : delegated'[a] = delegated[a]
         /\ Total(Delegations') = Total(Delegations) - q
<1> DEFINE e == Debit(delegated[x], y, q)
<1>1. /\ delegated \in [Accounts -> [Accounts -> Nat]]
      /\ x \in Accounts /\ y \in Accounts /\ delegated[x] \in [Accounts -> Nat]
  BY Parties DEF Tables
<1>2. e \in [Accounts -> Nat] /\ Total(e) = Total(delegated[x]) - q
  BY <1>1, Debited
<1>3. delegated' = [delegated EXCEPT ![x] = e]
  BY DEF Debit
<1>4. delegated[x][y] <= Total(delegated[x]) /\ Total(delegated[x]) \in Nat
  BY <1>1, Counted
<1> HIDE DEF e
<1>5. /\ delegated' \in [Accounts -> [Accounts -> Nat]] /\ delegated'[x] = e
      /\ \A a \in Accounts : a # x => delegated'[a] = delegated[a]
  BY <1>1, <1>2, <1>3
<1>6. Delegations \in [Accounts -> Nat] /\ Delegations[x] = Total(delegated[x])
  BY <1>1, TableTotals DEF Delegations
<1>7. Delegations' = Debit(Delegations, x, q)
  BY <1>1, <1>2, <1>5 DEF Delegations, Debit
<1>8. q <= Delegations[x]
  <2>1. delegated[x][y] \in Nat
    BY <1>1
  <2> QED
    BY <1>4, <1>6, <2>1
<1>9. Total(Debit(Delegations, x, q)) = Total(Delegations) - q
  BY <1>1, <1>6, <1>8, Debited
<1>10. Total(Delegations') = Total(Delegations) - q
  BY <1>7, <1>9
<1> QED
  BY <1>1, <1>5, <1>10

LEMMA DelegateStep ==
  ASSUME Covered, NEW from \in Users, NEW to \in Users, NEW q \in Amounts \ {0},
         Delegate(from, to, q)
  PROVE  Covered'
<1>1. /\ delegated' = [delegated EXCEPT ![from][to] = @ + q]
      /\ Move(Legacy, from, StakeAccount, q)
      /\ UNCHANGED <<refunds, pool, funds, shares, ram, staked>>
  BY DEF Delegate
<1>2. /\ from \in Accounts /\ to \in Accounts /\ q \in Nat /\ Legacy \in Tokens
      /\ StakeAccount \in Accounts /\ RexAccount \in Accounts /\ Core \in Accounts
      /\ RexAccount \notin {from, StakeAccount} /\ Core \notin {from, StakeAccount}
      /\ V \in Tokens /\ V # Legacy
  BY Parties
<1>3. /\ Books(stats', rows', balances') /\ stats' = stats
      /\ balances'[Legacy][StakeAccount] = balances[Legacy][StakeAccount] + q
      /\ balances'[Legacy][RexAccount] = balances[Legacy][RexAccount]
      /\ balances'[Legacy][Core] = balances[Legacy][Core]
      /\ balances'[V] = balances[V]
  BY <1>1, <1>2, TransferStep DEF Covered, Move
<1>4. /\ delegated \in [Accounts -> [Accounts -> Nat]] /\ Tables
  BY DEF Covered, Tables
<1>5. /\ delegated' \in [Accounts -> [Accounts -> Nat]]
      /\ \A a \in Accounts \ Users : delegated'[a] = delegated[a]
      /\ Total(Delegations') = Total(Delegations) + q
  BY <1>1, <1>2, <1>4, DelegatedMore
<1>6. Tables'
  BY <1>1, <1>4, <1>5 DEF Tables
<1>7. StakeKept'
  BY <1>1, <1>2, <1>3, <1>4, <1>5, TableTotals DEF StakeKept, Covered
<1>8. RexKept' /\ VKept' /\ Backed'
  BY <1>1, <1>3 DEF RexKept, VKept, Backed, StakedV, Covered
<1> QED
  BY <1>3, <1>6, <1>7, <1>8 DEF Covered

LEMMA UndelegateStep ==
  ASSUME Covered, NEW from \in Users, NEW to \in Users, NEW q \in Amounts \ {0},
         Undelegate(from, to, q)
  PROVE  Covered'
<1>1. /\ delegated[from][to] >= q
      /\ delegated' = [delegated EXCEPT ![from][to] = @ - q]
      /\ refunds' = Credit(refunds, from, q)
      /\ UNCHANGED <<tokenVars, pool, funds, shares, ram, staked>>
  BY DEF Undelegate, Credit
<1>2. from \in Accounts /\ to \in Accounts /\ q \in Nat
  BY Parties
<1>3. /\ Tables /\ delegated \in [Accounts -> [Accounts -> Nat]] /\ refunds \in [Accounts -> Nat]
  BY DEF Covered, Tables
<1>4. q <= delegated[from][to]
  BY <1>1, <1>2, <1>3
<1>5. /\ delegated' \in [Accounts -> [Accounts -> Nat]]
      /\ \A a \in Accounts \ Users : delegated'[a] = delegated[a]
      /\ Total(Delegations') = Total(Delegations) - q
  BY <1>1, <1>2, <1>3, <1>4, DelegatedLess
<1>6. refunds' \in [Accounts -> Nat] /\ Total(refunds') = Total(refunds) + q
  BY <1>1, <1>2, <1>3, Credited
<1>7. \A a \in Accounts \ Users : refunds'[a] = refunds[a]
  BY <1>1, <1>3 DEF Credit
<1>8. Tables'
  BY <1>1, <1>3, <1>5, <1>6, <1>7 DEF Tables
<1>9. StakeKept'
  BY <1>1, <1>2, <1>3, <1>5, <1>6, TableTotals DEF StakeKept, Covered, tokenVars
<1>10. Books(stats', rows', balances') /\ RexKept' /\ VKept' /\ Backed'
  BY <1>1 DEF RexKept, VKept, Backed, StakedV, Covered, tokenVars
<1> QED
  BY <1>8, <1>9, <1>10 DEF Covered

LEMMA ClaimRefundStep ==
  ASSUME Covered, NEW owner \in Users, ClaimRefund(owner)
  PROVE  Covered'
<1> DEFINE q == refunds[owner]
<1>1. /\ refunds' = [refunds EXCEPT ![owner] = 0]
      /\ Move(Legacy, StakeAccount, owner, q)
      /\ UNCHANGED <<delegated, pool, funds, shares, ram, staked>>
  BY DEF ClaimRefund
<1>2. /\ owner \in Accounts /\ Legacy \in Tokens
      /\ StakeAccount \in Accounts /\ RexAccount \in Accounts /\ Core \in Accounts
      /\ RexAccount \notin {owner, StakeAccount} /\ Core \notin {owner, StakeAccount}
      /\ V \in Tokens /\ V # Legacy
  BY Parties
<1>3. Tables /\ refunds \in [Accounts -> Nat] /\ q \in Nat
  BY <1>2 DEF Covered, Tables
<1>4. refunds' = Debit(refunds, owner, q) /\ q <= refunds[owner]
  <2>1. refunds[owner] - q = 0 /\ q <= refunds[owner]
    BY <1>3
  <2>2. refunds' = Debit(refunds, owner, q)
    BY <1>1, <2>1 DEF Debit
  <2> QED
    BY <2>1, <2>2
<1> HIDE DEF q
<1>5. /\ Books(stats', rows', balances') /\ stats' = stats
      /\ balances'[Legacy][StakeAccount] = balances[Legacy][StakeAccount] - q
      /\ balances'[Legacy][RexAccount] = balances[Legacy][RexAccount]
      /\ balances'[Legacy][Core] = balances[Legacy][Core]
      /\ balances'[V] = balances[V]
  BY <1>1, <1>2, <1>3, TransferStep DEF Covered, Move
<1>6. refunds' \in [Accounts -> Nat] /\ Total(refunds') = Total(refunds) - q
  BY <1>2, <1>3, <1>4, Debited
<1>7. Tables'
  <2>1. \A a \in Accounts \ Users : refunds'[a] = refunds[a]
    BY <1>1, <1>3
  <2> QED
    BY <1>1, <1>3, <1>6, <2>1 DEF Tables
<1>8. StakeKept'
  BY <1>1, <1>3, <1>5, <1>6, TableTotals DEF StakeKept, Covered, Delegations
<1>9. RexKept' /\ VKept' /\ Backed'
  BY <1>1, <1>5 DEF RexKept, VKept, Backed, StakedV, Covered
<1> QED
  BY <1>5, <1>7, <1>8, <1>9 DEF Covered

LEMMA DepositRexStep ==
  ASSUME Covered, NEW owner \in Users, NEW q \in Amounts \ {0}, DepositRex(owner, q)
  PROVE  Covered'
<1>1. /\ Move(Legacy, owner, RexAccount, q)
      /\ funds' = Credit(funds, owner, q)
      /\ pool' = [pool EXCEPT !.exists = TRUE]
      /\ UNCHANGED <<delegated, refunds, shares, ram, staked>>
  BY DEF DepositRex, Credit
<1>2. /\ owner \in Accounts /\ q \in Nat /\ Legacy \in Tokens
      /\ StakeAccount \in Accounts /\ RexAccount \in Accounts /\ Core \in Accounts
      /\ StakeAccount \notin {owner, RexAccount} /\ Core \notin {owner, RexAccount}
      /\ V \in Tokens /\ V # Legacy
  BY Parties
<1>3. /\ Tables /\ funds \in [Accounts -> Nat]
      /\ pool \in [exists : BOOLEAN, lendable : Nat, rex : Nat]
  BY DEF Covered, Tables
<1>4. /\ Books(stats', rows', balances') /\ stats' = stats
      /\ balances'[Legacy][RexAccount] = balances[Legacy][RexAccount] + q
      /\ balances'[Legacy][StakeAccount] = balances[Legacy][StakeAccount]
      /\ balances'[Legacy][Core] = balances[Legacy][Core]
      /\ balances'[V] = balances[V]
  BY <1>1, <1>2, TransferStep DEF Covered, Move
<1>5. funds' \in [Accounts -> Nat] /\ Total(funds') = Total(funds) + q
  BY <1>1, <1>2, <1>3, Credited
<1>6. /\ pool' \in [exists : BOOLEAN, lendable : Nat, rex : Nat]
      /\ pool'.exists /\ pool'.lendable = pool.lendable /\ pool'.rex = pool.rex
  BY <1>1, <1>3
<1>7. Tables'
  <2>1. \A a \in Accounts \ Users : funds'[a] = funds[a]
    BY <1>1, <1>3 DEF Credit
  <2> QED
    BY <1>1, <1>3, <1>5, <1>6, <2>1 DEF Tables
<1>8. RexKept'
  <2>1. Total(funds) \in Nat /\ pool.lendable \in Nat
    BY <1>3, TableTotals
  <2> QED
    BY <1>1, <1>2, <1>4, <1>5, <1>6, <2>1 DEF RexKept, Covered
<1>9. StakeKept' /\ VKept' /\ Backed'
  BY <1>1, <1>4 DEF StakeKept, VKept, Backed, StakedV, Delegations, Covered
<1> QED
  BY <1>4, <1>7, <1>8, <1>9 DEF Covered

LEMMA WithdrawRexStep ==
  ASSUME Covered, NEW owner \in Users, NEW q \in Amounts \ {0}, WithdrawRex(owner, q)
  PROVE  Covered'
<1>1. /\ Move(Legacy, RexAccount, owner, q) /\ funds[owner] >= q
      /\ funds' = Debit(funds, owner, q)
      /\ UNCHANGED <<delegated, refunds, pool, shares, ram, staked>>
  BY DEF WithdrawRex, Debit
<1>2. /\ owner \in Accounts /\ q \in Nat \ {0} /\ Legacy \in Tokens
      /\ StakeAccount \in Accounts /\ RexAccount \in Accounts /\ Core \in Accounts
      /\ StakeAccount \notin {owner, RexAccount} /\ Core \notin {owner, RexAccount}
      /\ V \in Tokens /\ V # Legacy
  BY Parties
<1>3. /\ Tables /\ funds \in [Accounts -> Nat]
      /\ pool \in [exists : BOOLEAN, lendable : Nat, rex : Nat]
  BY DEF Covered, Tables
<1>4. /\ Books(stats', rows', balances') /\ stats' = stats
      /\ balances'[Legacy][RexAccount] = balances[Legacy][RexAccount] - q
      /\ balances'[Legacy][StakeAccount] = balances[Legacy][StakeAccount]
      /\ balances'[Legacy][Core] = balances[Legacy][Core]
      /\ balances'[V] = balances[V]
  BY <1>1, <1>2, TransferStep DEF Covered, Move
<1>5. q <= funds[owner] /\ funds[owner] # 0
  BY <1>1, <1>2, <1>3
<1>6. funds' \in [Accounts -> Nat] /\ Total(funds') = Total(funds) - q
  BY <1>1, <1>2, <1>3, <1>5, Debited
<1>7. Tables'
  <2>1. \A a \in Accounts \ Users : funds'[a] = funds[a]
    BY <1>1, <1>3 DEF Debit
  <2> QED
    BY <1>1, <1>3, <1>6, <2>1 DEF Tables
<1>8. RexKept'
  <2>1. Total(funds) \in Nat /\ pool.lendable \in Nat
    BY <1>3, TableTotals
  <2>2. pool.exists
    BY <1>2, <1>5 DEF RexKept, Covered
  <2> QED
    BY <1>1, <1>2, <1>4, <1>6, <2>1, <2>2 DEF RexKept, Covered
<1>9. StakeKept' /\ VKept' /\ Backed'
  BY <1>1, <1>4 DEF StakeKept, VKept, Backed, StakedV, Delegations, Covered
<1> QED
  BY <1>4, <1>7, <1>8, <1>9 DEF Covered

\* A share of b that is at most the whole is at most b.
LEMMA ShareWithin ==
  ASSUME NEW a \in Nat, NEW b \in Nat, NEW c \in Nat \ {0}
  PROVE  /\ (a * b) \div c \in Nat
         /\ ((a * b) \div c) * c <= a * b
         /\ a <= c => (a * b) \div c <= b
<1> DEFINE n == a * b
           q == n \div c
<1>1. n \in Nat
  OBVIOUS
<1> HIDE DEF n
<1>2. n = c * q + (n % c) /\ n % c \in 0 .. (c - 1) /\ q \in Int
  BY <1>1, SMT
<1>3. q \in Nat
  BY <1>1, SMT
<1> HIDE DEF q
<1>4. q * c \in Nat /\ q * c <= n
  BY <1>1, <1>2, <1>3
<1>5. ASSUME a <= c, b < q PROVE FALSE
  <2>1. PICK d \in Nat : c = a + d
    <3>1. c - a \in Nat /\ c = a + (c - a)
      BY <1>5
    <3> QED
      BY <3>1
  <2>2. PICK e \in Nat : q = b + 1 + e
    <3>1. q - (b + 1) \in Nat /\ q = b + 1 + (q - (b + 1))
      BY <1>3, <1>5
    <3> QED
      BY <3>1
  <2>3. /\ q * c = b * c + c + e * c
        /\ b * c = b * a + b * d
        /\ b * a = n /\ b * d \in Nat /\ e * c \in Nat /\ b * c \in Nat
    BY <2>1, <2>2 DEF n
  <2> QED
    BY <1>1, <1>4, <2>3
<1> QED
  BY <1>3, <1>4, <1>5 DEF n, q

LEMMA BuyRexStep ==
  ASSUME Covered, NEW owner \in Users, NEW q \in Amounts \ {0}, BuyRex(owner, q)
  PROVE  Covered'
<1> DEFINE rex == IF pool.rex = 0 THEN q * RexRatio ELSE (q * pool.rex) \div pool.lendable
<1>1. /\ funds[owner] >= q /\ rex > 0
      /\ pool.rex # 0 => pool.lendable > 0
      /\ funds' = Debit(funds, owner, q)
      /\ pool' = [pool EXCEPT !.lendable = @ + q, !.rex = @ + rex]
      /\ shares' = Credit(shares, owner, rex)
      /\ UNCHANGED <<tokenVars, delegated, refunds, ram, staked>>
  BY DEF BuyRex, Credit, Debit
<1>2. owner \in Accounts /\ q \in Nat \ {0}
  BY Parties
<1>3. /\ Tables /\ funds \in [Accounts -> Nat] /\ shares \in [Accounts -> Nat]
      /\ pool \in [exists : BOOLEAN, lendable : Nat, rex : Nat]
  BY DEF Covered, Tables
<1>4. rex \in Nat
  <2>1. CASE pool.rex = 0
    BY <1>2, <2>1, SystemAssumption
  <2>2. CASE pool.rex # 0
    <3>1. pool.lendable \in Nat \ {0} /\ pool.rex \in Nat
      BY <1>1, <1>3, <2>2
    <3>2. (q * pool.rex) \div pool.lendable \in Nat
      BY <1>2, <3>1, ShareWithin
    <3> QED
      BY <2>2, <3>2
  <2> QED
    BY <2>1, <2>2
<1> HIDE DEF rex
<1>5. q <= funds[owner] /\ funds[owner] # 0
  BY <1>1, <1>2, <1>3
<1>6. funds' \in [Accounts -> Nat] /\ Total(funds') = Total(funds) - q
  BY <1>1, <1>2, <1>3, <1>5, Debited
<1>7. shares' \in [Accounts -> Nat] /\ Total(shares') = Total(shares) + rex
  BY <1>1, <1>2, <1>3, <1>4, Credited
<1>8. /\ pool' \in [exists : BOOLEAN, lendable : Nat, rex : Nat]
      /\ pool'.exists = pool.exists
      /\ pool'.lendable = pool.lendable + q /\ pool'.rex = pool.rex + rex
  <2>1. /\ pool' = [pool EXCEPT !.lendable = pool.lendable + q, !.rex = pool.rex + rex]
        /\ pool.lendable + q \in Nat /\ pool.rex + rex \in Nat
    BY <1>1, <1>2, <1>3, <1>4
  <2> QED
    BY <1>3, <2>1
<1>9. Tables'
  <2>1. \A a \in Accounts \ Users : funds'[a] = funds[a]
    BY <1>1, <1>3 DEF Debit
  <2> QED
    BY <1>1, <1>3, <1>6, <1>7, <1>8, <2>1 DEF Tables
<1>10. RexKept'
  <2>1. Total(funds) \in Nat /\ Total(shares) \in Nat /\ pool.lendable \in Nat /\ pool.rex \in Nat
    BY <1>3, TableTotals
  <2>2. pool.exists
    BY <1>2, <1>5 DEF RexKept, Covered
  <2>3. balances' = balances
    BY <1>1 DEF tokenVars
  <2> QED
    BY <1>2, <1>4, <1>6, <1>7, <1>8, <2>1, <2>2, <2>3 DEF RexKept, Covered
<1>11. Books(stats', rows', balances') /\ StakeKept' /\ VKept' /\ Backed'
  BY <1>1 DEF StakeKept, VKept, Backed, StakedV, Delegations, Covered, tokenVars
<1> QED
  BY <1>9, <1>10, <1>11 DEF Covered

LEMMA SellRexStep ==
  ASSUME Covered, NEW owner \in Users, NEW rex \in 1 .. shares[owner], SellRex(owner, rex)
  PROVE  Covered'
<1> DEFINE q == (rex * pool.lendable) \div pool.rex
<1>1. /\ funds' = Credit(funds, owner, q)
      /\ pool' = [pool EXCEPT !.lendable = @ - q, !.rex = @ - rex]
      /\ shares' = Debit(shares, owner, rex)
      /\ UNCHANGED <<tokenVars, delegated, refunds, ram, staked>>
  BY DEF SellRex, Credit, Debit
<1>2. owner \in Accounts
  BY Parties
<1>3. /\ Tables /\ funds \in [Accounts -> Nat] /\ shares \in [Accounts -> Nat]
      /\ pool \in [exists : BOOLEAN, lendable : Nat, rex : Nat]
  BY DEF Covered, Tables
<1>4. /\ rex \in Nat \ {0} /\ rex <= shares[owner] /\ rex <= pool.rex
      /\ pool.rex \in Nat \ {0} /\ pool.lendable \in Nat
  <2>1. shares[owner] \in Nat /\ rex \in Nat \ {0} /\ rex <= shares[owner]
    BY <1>2, <1>3
  <2>2. shares[owner] <= pool.rex /\ pool.rex \in Nat /\ pool.lendable \in Nat
    BY <1>2, <1>3, Counted DEF RexKept, Covered
  <2> QED
    BY <2>1, <2>2
<1>5. q \in Nat /\ q <= pool.lendable
  BY <1>4, ShareWithin
<1> HIDE DEF q
<1>6. funds' \in [Accounts -> Nat] /\ Total(funds') = Total(funds) + q
  BY <1>1, <1>2, <1>3, <1>5, Credited
<1>7. shares' \in [Accounts -> Nat] /\ Total(shares') = Total(shares) - rex
  BY <1>1, <1>2, <1>3, <1>4, Debited
<1>8. /\ pool' \in [exists : BOOLEAN, lendable : Nat, rex : Nat]
      /\ pool'.exists = pool.exists
      /\ pool'.lendable = pool.lendable - q /\ pool'.rex = pool.rex - rex
  <2>1. /\ pool' = [pool EXCEPT !.lendable = pool.lendable - q, !.rex = pool.rex - rex]
        /\ pool.lendable - q \in Nat /\ pool.rex - rex \in Nat
    BY <1>1, <1>3, <1>4, <1>5
  <2> QED
    BY <1>3, <2>1
<1>9. Tables'
  <2>1. \A a \in Accounts \ Users : funds'[a] = funds[a]
    BY <1>1, <1>3 DEF Credit
  <2> QED
    BY <1>1, <1>3, <1>6, <1>7, <1>8, <2>1 DEF Tables
<1>10. RexKept'
  <2>1. Total(funds) \in Nat /\ Total(shares) \in Nat
    BY <1>3, TableTotals
  <2>2. pool.exists
    BY <1>3, <1>4 DEF RexKept, Covered
  <2>3. balances' = balances
    BY <1>1 DEF tokenVars
  <2> QED
    BY <1>4, <1>5, <1>6, <1>7, <1>8, <2>1, <2>2, <2>3 DEF RexKept, Covered
<1>11. Books(stats', rows', balances') /\ StakeKept' /\ VKept' /\ Backed'
  BY <1>1 DEF StakeKept, VKept, Backed, StakedV, Delegations, Covered, tokenVars
<1> QED
  BY <1>9, <1>10, <1>11 DEF Covered

LEMMA RentRexStep ==
  ASSUME Covered, NEW payer \in Users, NEW q \in Amounts \ {0}, RentRex(payer, q)
  PROVE  Covered'
<1>1. /\ Move(Legacy, payer, RexAccount, q) /\ pool.rex > 0
      /\ pool' = [pool EXCEPT !.lendable = @ + q]
      /\ UNCHANGED <<delegated, refunds, funds, shares, ram, staked>>
  BY DEF RentRex
<1>2. /\ payer \in Accounts /\ q \in Nat /\ Legacy \in Tokens
      /\ StakeAccount \in Accounts /\ RexAccount \in Accounts /\ Core \in Accounts
      /\ StakeAccount \notin {payer, RexAccount} /\ Core \notin {payer, RexAccount}
      /\ V \in Tokens /\ V # Legacy
  BY Parties
<1>3. Tables /\ pool \in [exists : BOOLEAN, lendable : Nat, rex : Nat]
  BY DEF Covered, Tables
<1>4. /\ Books(stats', rows', balances') /\ stats' = stats
      /\ balances'[Legacy][RexAccount] = balances[Legacy][RexAccount] + q
      /\ balances'[Legacy][StakeAccount] = balances[Legacy][StakeAccount]
      /\ balances'[Legacy][Core] = balances[Legacy][Core]
      /\ balances'[V] = balances[V]
  BY <1>1, <1>2, TransferStep DEF Covered, Move
<1>5. /\ pool' \in [exists : BOOLEAN, lendable : Nat, rex : Nat]
      /\ pool'.exists = pool.exists
      /\ pool'.lendable = pool.lendable + q /\ pool'.rex = pool.rex
  BY <1>1, <1>2, <1>3
<1>6. Tables'
  BY <1>1, <1>3, <1>5 DEF Tables
<1>7. RexKept'
  <2>1. Total(funds) \in Nat /\ pool.lendable \in Nat
    BY <1>3, TableTotals
  <2>2. pool.exists
    BY <1>1, <1>3 DEF RexKept, Covered
  <2> QED
    BY <1>1, <1>2, <1>4, <1>5, <2>1, <2>2 DEF RexKept, Covered
<1>8. StakeKept' /\ VKept' /\ Backed'
  BY <1>1, <1>4 DEF StakeKept, VKept, Backed, StakedV, Delegations, Covered
<1> QED
  BY <1>4, <1>6, <1>7, <1>8 DEF Covered

\* A token of which something may still be issued is there.
LEMMA MayIssue ==
  ASSUME Books(stats, rows, balances), NEW t \in Tokens, NEW q \in Nat \ {0},
         q <= stats[t].max - stats[t].supply
  PROVE  stats[t] # NoStat
BY DEF NoStat

LEMMA SwapCoreStep ==
  ASSUME Covered, NEW owner \in Users, NEW q \in Amounts \ {0}, SwapCore(owner, q)
  PROVE  Covered'
<1> DEFINE b == [balances EXCEPT ![Legacy] = Credit(Debit(@, owner, q), Core, q)]
           r == [rows EXCEPT ![Legacy] = @ \cup {Core}]
<1>1. /\ CanSub(Legacy, owner, q)
      /\ q <= stats[Vaulta].max - stats[Vaulta].supply
      /\ stats' = [stats EXCEPT ![Vaulta].supply = @ + q]
      /\ balances' = [balances EXCEPT ![Legacy] = Credit(Debit(@, owner, q), Core, q),
                                      ![Vaulta] = Credit(@, owner, q)]
      /\ rows' = [rows EXCEPT ![Legacy] = @ \cup {Core}, ![Vaulta] = @ \cup {owner}]
      /\ UNCHANGED systemVars
  BY DEF SwapCore
<1>2. /\ owner \in Accounts /\ q \in Nat \ {0} /\ Core \in Accounts /\ Core # owner
      /\ StakeAccount \in Accounts \ {owner, Core} /\ RexAccount \in Accounts \ {owner, Core}
      /\ {Legacy, Vaulta, V, Wram} \subseteq Tokens
      /\ Legacy # Vaulta /\ V \notin {Legacy, Vaulta} /\ Wram # Vaulta
  BY Parties
<1>3. /\ Books(stats, rows, balances) /\ Tables
      /\ balances \in [Tokens -> [Accounts -> Amounts]]
      /\ rows \in [Tokens -> SUBSET Accounts] /\ stats \in [Tokens -> Stats \cup {NoStat}]
      /\ balances[Legacy] \in [Accounts -> Amounts]
  BY <1>2 DEF Covered, Books
<1>4. q <= balances[Legacy][owner]
  <2>1. balances[Legacy][owner] \in Nat /\ balances[Legacy][owner] >= q
    BY <1>1, <1>2, <1>3, Parties DEF CanSub
  <2> QED
    BY <1>2, <2>1
<1>5. Books(stats, r, b)
  BY <1>2, <1>3, <1>4, BooksTransfer
<1>6. /\ balances' = [b EXCEPT ![Vaulta] = Credit(@, owner, q)]
      /\ rows' = [r EXCEPT ![Vaulta] = @ \cup {owner}]
  BY <1>1, <1>2, <1>3
<1>7. b[Legacy] = Credit(Debit(balances[Legacy], owner, q), Core, q) /\ b[V] = balances[V]
  BY <1>2, <1>3
<1>8. b \in [Tokens -> [Accounts -> Amounts]]
  BY <1>5 DEF Books
<1> HIDE DEF b, r
<1>9. Books(stats', rows', balances')
  <2>1. stats[Vaulta] # NoStat
    BY <1>1, <1>2, <1>3, MayIssue
  <2>2. q \in Nat /\ Vaulta \in Tokens /\ owner \in Accounts
        /\ q <= stats[Vaulta].max - stats[Vaulta].supply
    BY <1>1, <1>2
  <2>3. Books([stats EXCEPT ![Vaulta].supply = @ + q], [r EXCEPT ![Vaulta] = @ \cup {owner}],
              [b EXCEPT ![Vaulta] = Credit(@, owner, q)])
    BY <1>5, <2>1, <2>2, BooksIssue
  <2> QED
    BY <1>1, <1>6, <2>3
<1>10. balances'[Legacy] = b[Legacy] /\ balances'[V] = balances[V]
  BY <1>2, <1>6, <1>7, <1>8
<1>11. /\ balances'[Legacy][StakeAccount] = balances[Legacy][StakeAccount]
       /\ balances'[Legacy][RexAccount] = balances[Legacy][RexAccount]
       /\ balances'[Legacy][Core] = balances[Legacy][Core] + q
  BY <1>2, <1>3, <1>7, <1>10 DEF Credit, Debit
<1>12. stats'[Vaulta].supply = stats[Vaulta].supply + q /\ stats'[Wram] = stats[Wram]
  <2>1. stats[Vaulta] = NoStat \/ stats[Vaulta] \in Stats
    BY <1>2, <1>3
  <2> QED
    BY <1>1, <1>2, <1>3, <2>1 DEF Stats, NoStat
<1>13. Backed'
  <2>1. stats[Vaulta].supply \in Nat /\ balances[Legacy][Core] \in Nat
    BY <1>2, <1>3, BalanceWithin
  <2> QED
    BY <1>1, <1>2, <1>11, <1>12, <2>1 DEF Backed, Covered, systemVars
<1>14. Tables' /\ StakeKept' /\ RexKept' /\ VKept'
  BY <1>1, <1>10, <1>11
     DEF Tables, StakeKept, RexKept, VKept, StakedV, Delegations, Covered, systemVars
<1> QED
  BY <1>9, <1>13, <1>14 DEF Covered

LEMMA WrapRamStep ==
  ASSUME Covered, NEW owner \in Wrappers, NEW q \in Amounts \ {0}, WrapRam(owner, q)
  PROVE  Covered'
<1>1. /\ ram[owner] >= q
      /\ ram' = [ram EXCEPT ![owner] = @ - q, ![WramContract] = @ + q]
      /\ q <= stats[Wram].max - stats[Wram].supply
      /\ stats' = [stats EXCEPT ![Wram].supply = @ + q]
      /\ balances' = [balances EXCEPT ![Wram] = Credit(@, owner, q)]
      /\ rows' = [rows EXCEPT ![Wram] = @ \cup {owner}]
      /\ UNCHANGED <<delegated, refunds, pool, funds, shares, staked>>
  BY DEF WrapRam
<1>2. /\ owner \in Accounts /\ q \in Nat \ {0} /\ WramContract \in Accounts \ {owner}
      /\ {Legacy, Vaulta, V, Wram} \subseteq Tokens
      /\ Wram \notin {Legacy, Vaulta, V}
  BY Parties
<1>3. /\ Books(stats, rows, balances) /\ Tables /\ ram \in [Accounts -> Nat]
      /\ balances \in [Tokens -> [Accounts -> Amounts]]
      /\ stats \in [Tokens -> Stats \cup {NoStat}]
  BY DEF Covered, Books, Tables
<1>4. Books(stats', rows', balances')
  <2>1. stats[Wram] # NoStat
    BY <1>1, <1>2, <1>3, MayIssue
  <2> QED
    BY <1>1, <1>2, <1>3, <2>1, BooksIssue
<1>5. balances'[Legacy] = balances[Legacy] /\ balances'[V] = balances[V]
  BY <1>1, <1>2, <1>3
<1>6. stats'[Wram].supply = stats[Wram].supply + q /\ stats'[Vaulta] = stats[Vaulta]
  <2>1. stats[Wram] = NoStat \/ stats[Wram] \in Stats
    BY <1>2, <1>3
  <2> QED
    BY <1>1, <1>2, <1>3, <2>1 DEF Stats, NoStat
<1>7. ram' \in [Accounts -> Nat] /\ ram'[WramContract] = ram[WramContract] + q
  <2>1. ram[owner] - q \in Nat /\ ram[WramContract] + q \in Nat
    BY <1>1, <1>2, <1>3
  <2> QED
    BY <1>1, <1>2, <1>3, <2>1
<1>8. Backed'
  <2>1. stats[Wram].supply \in Nat /\ ram[WramContract] \in Nat
    BY <1>2, <1>3, BalanceWithin
  <2> QED
    BY <1>2, <1>5, <1>6, <1>7, <2>1 DEF Backed, Covered
<1>9. Tables'
  BY <1>1, <1>3, <1>7 DEF Tables
<1>10. StakeKept' /\ RexKept' /\ VKept'
  BY <1>1, <1>5 DEF StakeKept, RexKept, VKept, StakedV, Delegations, Covered
<1> QED
  BY <1>4, <1>8, <1>9, <1>10 DEF Covered

LEMMA StakeVStep ==
  ASSUME Covered, NEW owner \in Wrappers, NEW q \in Amounts \ {0}, StakeV(owner, q)
  PROVE  Covered'
<1>1. /\ Move(V, owner, VStakeContract, q)
      /\ staked' = [staked EXCEPT ![owner].amount = @ + q]
      /\ UNCHANGED <<delegated, refunds, pool, funds, shares, ram>>
  BY DEF StakeV
<1>2. /\ owner \in Accounts /\ q \in Nat /\ VStakeContract \in Accounts
      /\ {Legacy, V} \subseteq Tokens /\ V # Legacy
  BY Parties
<1>3. Tables /\ staked \in [Accounts -> [amount : Nat, unstaking : Nat]]
  BY DEF Covered, Tables
<1>4. /\ Books(stats', rows', balances') /\ stats' = stats
      /\ balances'[V][VStakeContract] = balances[V][VStakeContract] + q
      /\ balances'[Legacy] = balances[Legacy]
  BY <1>1, <1>2, TransferStep DEF Covered, Move
<1>5. staked[owner] \in [amount : Nat, unstaking : Nat]
  BY <1>2, <1>3
<1>6. /\ staked' \in [Accounts -> [amount : Nat, unstaking : Nat]]
      /\ StakedV' = Credit(StakedV, owner, q)
  <2>1. /\ staked'[owner].amount = staked[owner].amount + q
        /\ staked'[owner].unstaking = staked[owner].unstaking
        /\ staked' \in [Accounts -> [amount : Nat, unstaking : Nat]]
        /\ \A a \in Accounts \ {owner} : staked'[a] = staked[a]
    BY <1>1, <1>2, <1>3, <1>5
  <2>2. /\ staked'[owner].amount + staked'[owner].unstaking = StakedV[owner] + q
        /\ StakedV[owner] \in Nat
    BY <1>2, <1>5, <2>1 DEF StakedV
  <2>3. StakedV' = Credit(StakedV, owner, q)
    BY <1>2, <2>1, <2>2 DEF StakedV, Credit
  <2> QED
    BY <2>1, <2>3
<1>7. Total(StakedV') = Total(StakedV) + q /\ Total(StakedV) \in Nat
  BY <1>2, <1>3, <1>6, TableTotals, Credited
<1>8. VKept'
  <2>1. balances[V][VStakeContract] \in Nat
    BY <1>2, BalanceWithin DEF Covered
  <2> QED
    BY <1>2, <1>4, <1>7, <2>1 DEF VKept, Covered
<1>9. Tables'
  BY <1>1, <1>3, <1>6 DEF Tables
<1>10. StakeKept' /\ RexKept' /\ Backed'
  BY <1>1, <1>4 DEF StakeKept, RexKept, Backed, Delegations, Covered
<1> QED
  BY <1>4, <1>8, <1>9, <1>10 DEF Covered

LEMMA UnstakeVStep ==
  ASSUME Covered, NEW owner \in Wrappers, NEW q \in Amounts \ {0}, UnstakeV(owner, q)
  PROVE  Covered'
<1>1. /\ staked[owner].amount >= q
      /\ staked' = [staked EXCEPT ![owner].amount = @ - q, ![owner].unstaking = @ + q]
      /\ UNCHANGED <<tokenVars, delegated, refunds, pool, funds, shares, ram>>
  BY DEF UnstakeV
<1>2. owner \in Accounts /\ q \in Nat
  BY Parties
<1>3. Tables /\ staked \in [Accounts -> [amount : Nat, unstaking : Nat]]
  BY DEF Covered, Tables
<1>4. staked[owner] \in [amount : Nat, unstaking : Nat]
  BY <1>2, <1>3
<1>5. /\ staked'[owner].amount = staked[owner].amount - q
      /\ staked'[owner].unstaking = staked[owner].unstaking + q
      /\ staked' \in [Accounts -> [amount : Nat, unstaking : Nat]]
      /\ \A a \in Accounts \ {owner} : staked'[a] = staked[a]
  <2>1. staked[owner].amount - q \in Nat /\ staked[owner].unstaking + q \in Nat
    BY <1>1, <1>2, <1>4
  <2> QED
    BY <1>1, <1>2, <1>3, <1>4, <2>1
<1>6. StakedV' = StakedV
  BY <1>2, <1>4, <1>5 DEF StakedV
<1>7. Tables'
  BY <1>1, <1>3, <1>5 DEF Tables
<1>8. /\ Books(stats', rows', balances')
      /\ StakeKept' /\ RexKept' /\ VKept' /\ Backed'
  BY <1>1, <1>6 DEF StakeKept, RexKept, VKept, Backed, Delegations, Covered, tokenVars
<1> QED
  BY <1>7, <1>8 DEF Covered

LEMMA ClaimVStep ==
  ASSUME Covered, NEW owner \in Wrappers, ClaimV(owner)
  PROVE  Covered'
<1> DEFINE q == staked[owner].unstaking
<1>1. /\ Move(V, VStakeContract, owner, q)
      /\ staked' = [staked EXCEPT ![owner].unstaking = 0]
      /\ UNCHANGED <<delegated, refunds, pool, funds, shares, ram>>
  BY DEF ClaimV
<1>2. /\ owner \in Accounts /\ VStakeContract \in Accounts
      /\ {Legacy, V} \subseteq Tokens /\ V # Legacy
  BY Parties
<1>3. Tables /\ staked \in [Accounts -> [amount : Nat, unstaking : Nat]]
  BY DEF Covered, Tables
<1>4. staked[owner] \in [amount : Nat, unstaking : Nat] /\ q \in Nat
  BY <1>2, <1>3
<1>5. /\ staked' \in [Accounts -> [amount : Nat, unstaking : Nat]]
      /\ staked'[owner].amount = staked[owner].amount /\ staked'[owner].unstaking = 0
      /\ \A a \in Accounts \ {owner} : staked'[a] = staked[a]
  BY <1>1, <1>2, <1>3, <1>4
<1>6. StakedV' = Debit(StakedV, owner, q) /\ q <= StakedV[owner]
  <2>1. /\ StakedV[owner] = staked[owner].amount + q /\ q <= StakedV[owner]
        /\ StakedV[owner] - q = staked'[owner].amount + staked'[owner].unstaking
    BY <1>2, <1>4, <1>5 DEF StakedV
  <2> HIDE DEF q
  <2>2. StakedV' = Debit(StakedV, owner, q)
    BY <1>2, <1>5, <2>1 DEF StakedV, Debit
  <2> QED
    BY <2>1, <2>2
<1> HIDE DEF q
<1>7. /\ Books(stats', rows', balances') /\ stats' = stats
      /\ balances'[V][VStakeContract] = balances[V][VStakeContract] - q
      /\ q <= balances[V][VStakeContract]
      /\ balances'[Legacy] = balances[Legacy]
  BY <1>1, <1>2, <1>4, TransferStep DEF Covered, Move
<1>8. Total(StakedV') = Total(StakedV) - q /\ Total(StakedV) \in Nat
  BY <1>2, <1>3, <1>4, <1>6, TableTotals, Debited
<1>9. VKept'
  <2>1. balances[V][VStakeContract] \in Nat
    BY <1>2, BalanceWithin DEF Covered
  <2> QED
    BY <1>4, <1>7, <1>8, <2>1 DEF VKept, Covered
<1>10. Tables'
  BY <1>1, <1>3, <1>5 DEF Tables
<1>11. StakeKept' /\ RexKept' /\ Backed'
  BY <1>1, <1>7 DEF StakeKept, RexKept, Backed, Delegations, Covered
<1> QED
  BY <1>7, <1>9, <1>10, <1>11 DEF Covered

LEMMA SystemStep == Covered /\ SystemNext => Covered'
<1> SUFFICES ASSUME Covered, SystemNext PROVE Covered'
  OBVIOUS
<1>1. ASSUME NEW owner \in Users, NEW q \in Amounts \ {0},
             \/ \E to \in Users : Delegate(owner, to, q) \/ Undelegate(owner, to, q)
             \/ DepositRex(owner, q) \/ WithdrawRex(owner, q) \/ BuyRex(owner, q)
             \/ RentRex(owner, q)
             \/ SwapCore(owner, q)
      PROVE  Covered'
  BY <1>1, DelegateStep, UndelegateStep, DepositRexStep, WithdrawRexStep, BuyRexStep,
     RentRexStep, SwapCoreStep
<1>2. ASSUME NEW owner \in Users,
             ClaimRefund(owner) \/ \E rex \in 1 .. shares[owner] : SellRex(owner, rex)
      PROVE  Covered'
  BY <1>2, ClaimRefundStep, SellRexStep
<1>3. ASSUME NEW owner \in Wrappers,
             \/ \E q \in Amounts \ {0} : WrapRam(owner, q) \/ StakeV(owner, q) \/ UnstakeV(owner, q)
             \/ ClaimV(owner)
      PROVE  Covered'
  BY <1>3, WrapRamStep, StakeVStep, UnstakeVStep, ClaimVStep
<1> QED
  BY <1>1, <1>2, <1>3 DEF SystemNext

\* Nothing that the books rest on is a plain token's to move.
LEMMA PlainStep ==
  ASSUME Covered, TokenNext \/ CloseNext, UNCHANGED systemVars
  PROVE  Covered'
<1>1. Books(stats', rows', balances') /\ Undisturbed
  BY TokenStep, CloseStep DEF Covered
<1>2. /\ {Legacy, Vaulta, Wram} \cap Plain = {} /\ {Legacy, Vaulta, Wram, V} \subseteq Tokens
      /\ VStakeContract \in Accounts \ Users
      /\ V \in Plain => VStakeContract \notin {System, V.contract}
  BY Parties, QueriesAssumption
<1>3. /\ balances'[Legacy] = balances[Legacy]
      /\ stats'[Vaulta] = stats[Vaulta] /\ stats'[Wram] = stats[Wram]
  BY <1>1, <1>2 DEF Undisturbed
<1>4. balances'[V][VStakeContract] = balances[V][VStakeContract]
  <2>1. CASE V \in Plain
    <3>1. VStakeContract \in Accounts \ (Users \cup {System, V.contract})
      BY <1>2, <2>1
    <3> QED
      BY <1>1, <1>2, <3>1 DEF Undisturbed
  <2>2. CASE V \notin Plain
    BY <1>1, <1>2, <2>2 DEF Undisturbed
  <2> QED
    BY <2>1, <2>2
<1> QED
  BY <1>1, <1>3, <1>4
     DEF Covered, Tables, StakeKept, RexKept, VKept, Backed, StakedV, Delegations, systemVars

LEMMA InitInv == Init => Inv
<1> SUFFICES ASSUME NEW b \in Beginnings, SystemInit(b), ApiInit(b), MetricsInit(b) PROVE Inv
  BY DEF Init
<1>1. /\ stats = b.stats /\ balances = b.balances
      /\ rows = [t \in Tokens |-> {a \in Accounts : b.balances[t][a] > 0}]
      /\ delegated = [a \in Accounts |-> [c \in Accounts |-> 0]]
      /\ refunds = [a \in Accounts |-> 0]
      /\ pool = [exists |-> FALSE, lendable |-> 0, rex |-> 0]
      /\ funds = [a \in Accounts |-> 0] /\ shares = [a \in Accounts |-> 0]
      /\ ram = b.ram
      /\ staked = [a \in Accounts |-> [amount |-> 0, unstaking |-> 0]]
  BY DEF SystemInit, TokenInit, NoPool
<1>2. /\ b.stats \in [Tokens -> Stats \cup {NoStat}]
      /\ b.balances \in [Tokens -> [Accounts -> Amounts]]
      /\ \A t \in Tokens : /\ Total(b.balances[t]) = b.stats[t].supply
                           /\ b.stats[t].supply <= b.stats[t].max
  BY EosioTokenAssumption
<1>3. Books(stats, rows, balances)
  <2>1. rows \in [Tokens -> SUBSET Accounts]
    BY <1>1
  <2>2. \A t \in Tokens, a \in Accounts : a \notin rows[t] => balances[t][a] = 0
    BY <1>1, <1>2, MaxAmountAssumption DEF Amounts
  <2> QED
    BY <1>1, <1>2, <2>1, <2>2 DEF Books
<1>4. Tables
  BY <1>1, SystemAssumption DEF Tables
<1>5. Total(refunds) = 0 /\ Total(funds) = 0 /\ Total(shares) = 0
  BY <1>1, TotalZero
<1>6. Total(Delegations) = 0 /\ Total(StakedV) = 0
  <2>1. \A a \in Accounts : Total(delegated[a]) = 0
    BY <1>1, TotalZero
  <2>2. Delegations = [a \in Accounts |-> 0] /\ StakedV = [a \in Accounts |-> 0]
    BY <1>1, <2>1 DEF Delegations, StakedV
  <2> QED
    BY <2>2, TotalZero
<1>7. StakeKept /\ RexKept /\ Backed
  BY <1>1, <1>5, <1>6, SystemAssumption DEF StakeKept, RexKept, Backed
<1>8. VKept
  <2>1. balances[V][VStakeContract] \in Nat
    BY <1>3, BalanceWithin, Parties
  <2> QED
    BY <1>6, <2>1 DEF VKept
<1>9. Configured
  BY ApiAssumption, MetricsAssumption DEF Configured, ApiInit, MetricsInit
<1> QED
  BY <1>3, <1>4, <1>7, <1>8, <1>9 DEF Inv, Covered

LEMMA NextInv == Inv /\ [Next]_vars => Inv'
<1> SUFFICES ASSUME Inv, [Next]_vars PROVE Inv'
  OBVIOUS
<1>1. ASSUME SystemNext, UNCHANGED <<apiConfig, metrics>> PROVE Inv'
  BY <1>1, SystemStep DEF Inv, Configured
<1>2. ASSUME TokenNext \/ CloseNext, UNCHANGED <<systemVars, apiConfig, metrics>> PROVE Inv'
  BY <1>2, PlainStep DEF Inv, Configured
<1>3. ASSUME UNCHANGED chainVars PROVE Covered'
  BY <1>3 DEF Inv, Covered, Tables, StakeKept, RexKept, VKept, Backed, StakedV, Delegations,
              chainVars, tokenVars, systemVars
<1>4. ASSUME NEW new \in ApiConfigs, SetConfig(new), UNCHANGED <<chainVars, metrics>> PROVE Inv'
  <2>1. apiConfig' \in ConfigRows
    BY <1>4, ApiAssumption DEF SetConfig
  <2> QED
    BY <1>3, <1>4, <2>1 DEF Inv, Configured
<1>5. ASSUME NEW new \in MetricsConfigs, SetMetricsConfig(new), UNCHANGED <<chainVars, apiConfig>>
      PROVE  Inv'
  <2>1. metrics' \in MetricsRows
    BY <1>5, MetricsAssumption DEF SetMetricsConfig
  <2> QED
    BY <1>3, <1>5, <2>1 DEF Inv, Configured
<1>6. ASSUME UNCHANGED vars PROVE Inv'
  BY <1>3, <1>6 DEF Inv, Configured, vars
<1> QED
  BY <1>1, <1>2, <1>4, <1>5, <1>6 DEF Next

THEOREM InvAlways == Spec => []Inv
BY InitInv, NextInv, PTL DEF Spec

----
(* Types. *)

\* What is recorded is kept by someone, so every record is an amount.
LEMMA InvTypes == Inv => TypeOK
<1> SUFFICES ASSUME Inv PROVE TypeOK
  OBVIOUS
<1>1. /\ Books(stats, rows, balances) /\ Tables
      /\ delegated \in [Accounts -> [Accounts -> Nat]]
      /\ refunds \in [Accounts -> Nat] /\ funds \in [Accounts -> Nat]
      /\ pool \in [exists : BOOLEAN, lendable : Nat, rex : Nat]
      /\ staked \in [Accounts -> [amount : Nat, unstaking : Nat]]
  BY DEF Inv, Covered, Tables
<1>2. /\ Delegations \in [Accounts -> Nat] /\ Total(Delegations) \in Nat
      /\ StakedV \in [Accounts -> Nat] /\ Total(StakedV) \in Nat
      /\ Total(refunds) \in Nat /\ Total(funds) \in Nat /\ pool.lendable \in Nat
  BY <1>1, TableTotals
<1>3. \A t \in Tokens, a \in Accounts : balances[t][a] \in Nat /\ balances[t][a] <= MaxAmount
  <2> SUFFICES ASSUME NEW t \in Tokens, NEW a \in Accounts
               PROVE  balances[t][a] \in Nat /\ balances[t][a] <= MaxAmount
    OBVIOUS
  <2>1. balances[t][a] \in Amounts
    BY <1>1 DEF Books
  <2> QED
    BY <2>1, MaxAmountAssumption DEF Amounts
<1>4. /\ Total(Delegations) <= MaxAmount /\ Total(refunds) <= MaxAmount
      /\ Total(funds) <= MaxAmount /\ pool.lendable <= MaxAmount
      /\ Total(StakedV) <= MaxAmount
  <2>1. /\ Total(Delegations) + Total(refunds) <= MaxAmount
        /\ Total(funds) + pool.lendable <= MaxAmount
    BY <1>3, Parties DEF Inv, Covered, StakeKept, RexKept
  <2>2. Total(StakedV) <= balances[V][VStakeContract] /\ balances[V][VStakeContract] \in Nat
        /\ balances[V][VStakeContract] <= MaxAmount
    BY <1>3, Parties DEF Inv, Covered, VKept
  <2> QED
    BY <1>2, <2>1, <2>2, MaxAmountAssumption
<1>5. delegated \in DelegatedBandwidths
  <2> SUFFICES ASSUME NEW a \in Accounts, NEW b \in Accounts PROVE delegated[a][b] \in Amounts
    BY <1>1 DEF DelegatedBandwidths
  <2>1. delegated[a] \in [Accounts -> Nat] /\ delegated[a][b] \in Nat
    BY <1>1
  <2>2. delegated[a][b] <= Total(delegated[a]) /\ Total(delegated[a]) \in Nat
    BY <2>1, Counted
  <2>3. Total(delegated[a]) <= Total(Delegations)
    <3>1. Delegations[a] <= Total(Delegations)
      BY <1>2, Counted
    <3> QED
      BY <3>1 DEF Delegations
  <2> QED
    BY <1>2, <1>4, <2>1, <2>2, <2>3, MaxAmountAssumption DEF Amounts
<1>6. refunds \in RefundRequests
  <2> SUFFICES ASSUME NEW a \in Accounts PROVE refunds[a] \in Amounts
    BY <1>1 DEF RefundRequests
  <2>1. refunds[a] \in Nat /\ refunds[a] <= Total(refunds)
    BY <1>1, Counted
  <2> QED
    BY <1>2, <1>4, <2>1, MaxAmountAssumption DEF Amounts
<1>7. funds \in RexFunds
  <2> SUFFICES ASSUME NEW a \in Accounts PROVE funds[a] \in Amounts
    BY <1>1 DEF RexFunds
  <2>1. funds[a] \in Nat /\ funds[a] <= Total(funds)
    BY <1>1, Counted
  <2> QED
    BY <1>2, <1>4, <2>1, MaxAmountAssumption DEF Amounts
<1>8. pool \in RexPools
  <2>1. pool.lendable \in Amounts
    BY <1>2, <1>4, MaxAmountAssumption DEF Amounts
  <2> QED
    BY <1>1, <2>1 DEF RexPools
<1>9. staked \in [Accounts -> [amount : Amounts, unstaking : Amounts]]
  <2> SUFFICES ASSUME NEW a \in Accounts
               PROVE  staked[a] \in [amount : Amounts, unstaking : Amounts]
    BY <1>1
  <2>1. staked[a] \in [amount : Nat, unstaking : Nat]
    BY <1>1
  <2>2. StakedV[a] = staked[a].amount + staked[a].unstaking /\ StakedV[a] <= Total(StakedV)
    BY <1>2, Counted DEF StakedV
  <2>3. staked[a].amount \in Amounts /\ staked[a].unstaking \in Amounts
    BY <1>2, <1>4, <2>1, <2>2, MaxAmountAssumption DEF Amounts
  <2> QED
    BY <2>1, <2>3
<1> QED
  BY <1>1, <1>5, <1>6, <1>7, <1>8, <1>9
     DEF TypeOK, TokenTypeOK, Books, Inv, Covered, Configured, Tables, RexBalances, UserResources

\* Every row of every table keeps its type, through any staking, lending,
\* wrapping and transferring: in particular no sum outgrows an asset.
THEOREM TypeCorrect == Spec => []TypeOK
BY InvAlways, InvTypes, PTL

----
(* The distribution of a token. *)

LEMMA TotalOfPair ==
  ASSUME NEW x, NEW y, NEW f \in [{x, y} -> Nat]
  PROVE  Total(f) = f[x] + (IF x # y THEN f[y] ELSE 0)
<1> DEFINE S == {x, y}
           zero == [z \in S |-> 0]
           g == Credit(zero, x, f[x])
<1>1. IsFiniteSet(S)
  <2>1. S = {x} \cup {y} /\ IsFiniteSet({x})
    BY FS_Singleton
  <2>2. IsFiniteSet({x} \cup {y})
    BY <2>1, FS_AddElement
  <2> QED
    BY <2>1, <2>2
<1>2. /\ x \in S /\ y \in S /\ \A z \in S : z = x \/ z = y
      /\ f \in [S -> Nat] /\ f[x] \in Nat /\ f[y] \in Nat
  OBVIOUS
<1> HIDE DEF S
<1>3. zero \in [S -> Nat] /\ \A z \in S : zero[z] = 0
  OBVIOUS
<1>4. Total(zero) = 0
  BY TotalZero
<1> HIDE DEF zero
<1>5. g \in [S -> Nat] /\ Total(g) = Total(zero) + f[x]
  <2> DEFINE n == f[x]
  <2>1. zero \in [S -> Nat] /\ n \in Nat /\ x \in S /\ IsFiniteSet(S)
    BY <1>1, <1>2, <1>3
  <2> HIDE DEF n
  <2>2. Credit(zero, x, n) \in [S -> Nat]
    BY <2>1, CreditAdds
  <2>3. Total(Credit(zero, x, n)) = Total(zero) + n
    BY <2>1, CreditAdds
  <2> QED
    BY <2>2, <2>3 DEF n
<1>6. g[x] = f[x] /\ \A z \in S : z # x => g[z] = 0
  BY <1>2, <1>3 DEF Credit
<1> HIDE DEF g
<1>7. CASE x = y
  <2>1. f = g
    BY <1>2, <1>5, <1>6, <1>7
  <2> QED
    BY <1>2, <1>4, <1>5, <1>7, <2>1
<1>8. CASE x # y
  <2>1. g[y] = 0
    BY <1>2, <1>6, <1>8
  <2>2. f = Credit(g, y, f[y])
    BY <1>2, <1>5, <1>6, <1>8, <2>1 DEF Credit
  <2> DEFINE n == f[y]
  <2>3. g \in [S -> Nat] /\ n \in Nat /\ y \in S /\ IsFiniteSet(S)
    BY <1>1, <1>2, <1>5
  <2> HIDE DEF n
  <2>4. Total(Credit(g, y, n)) = Total(g) + n
    BY <2>3, CreditAdds
  <2> QED
    BY <1>2, <1>4, <1>5, <1>8, <2>2, <2>4 DEF n
<1> QED
  BY <1>7, <1>8

\* What all but two accounts have, who may be one.
LEMMA AllBut ==
  ASSUME NEW f \in [Accounts -> Nat], NEW x \in Accounts, NEW y \in Accounts
  PROVE  /\ Total([a \in Accounts \ {x, y} |-> f[a]]) \in Nat
         /\ Total(f) = Total([a \in Accounts \ {x, y} |-> f[a]])
                         + (f[x] + (IF x # y THEN f[y] ELSE 0))
<1> DEFINE A == Accounts \ {x, y}
           B == {x, y}
           g == [a \in A |-> f[a]]
           h == [a \in B |-> f[a]]
<1>1. IsFiniteSet(A) /\ IsFiniteSet(B) /\ A \cap B = {} /\ A \cup B = Accounts
  <2>1. A \subseteq Accounts /\ B \subseteq Accounts
    OBVIOUS
  <2> QED
    BY <2>1, FiniteAccounts, FS_Subset
<1>2. g = Restrict(f, A) /\ h = Restrict(f, B)
  BY DEF Restrict
<1>3. g \in [A -> Nat] /\ h \in [{x, y} -> Nat] /\ f \in [A \cup B -> Nat]
  BY <1>1
<1>4. h[x] = f[x] /\ h[y] = f[y]
  OBVIOUS
<1> HIDE DEF A, g, h
<1>5. Total(h) = f[x] + (IF x # y THEN f[y] ELSE 0)
  BY <1>3, <1>4, TotalOfPair
<1> HIDE DEF B
<1>6. Total(f) = Total(g) + Total(h)
  BY <1>1, <1>2, <1>3, SplitAdds
<1>7. Total(g) \in Nat
  BY <1>1, <1>3, TotalIsNumber
<1> QED
  BY <1>5, <1>6, <1>7 DEF A, g

\* What is found in an accounts table is the balance.
LEMMA HeldIsBalance ==
  ASSUME Books(stats, rows, balances), NEW t \in Tokens, NEW a \in Accounts
  PROVE  Held(t, a) = balances[t][a] /\ balances[t][a] \in Nat
BY Parties DEF Held, HasRow, Books

LEMMA InvCirculating == Inv => CirculatingIsElsewhere
<1> SUFFICES ASSUME Inv, NEW t \in Tokens, Exists(t)
             PROVE  LET def == [contract |-> t.contract, code |-> t.code,
                                precision |-> stats[t].precision]
                        elsewhere == Accounts \ {apiConfig.system, apiConfig.contract}
                    IN  \A answer \in Distribution(def) :
                          answer.circulating = Total([a \in elsewhere |-> balances[t][a]])
  BY DEF CirculatingIsElsewhere
<1> DEFINE def == [contract |-> t.contract, code |-> t.code, precision |-> stats[t].precision]
           x == apiConfig.system
           y == apiConfig.contract
           rest == Total([a \in Accounts \ {x, y} |-> balances[t][a]])
<1>1. Books(stats, rows, balances) /\ x \in Accounts /\ y \in Accounts
  BY DEF Inv, Covered, Configured, ConfigRows
<1>2. Id(def) = t
  <2>1. t \in [contract : Accounts, code : STRING]
    BY EosioTokenAssumption
  <2> QED
    BY <2>1 DEF Id
<1>3. balances[t] \in [Accounts -> Nat] /\ Total(balances[t]) = stats[t].supply
      /\ balances[t][x] \in Nat /\ balances[t][y] \in Nat
  BY <1>1, BalanceWithin, AmountTables
<1> HIDE DEF x, y
<1>4. rest \in Nat
      /\ Total(balances[t]) = rest + (balances[t][x] + (IF x # y THEN balances[t][y] ELSE 0))
  BY <1>1, <1>3, AllBut
<1> HIDE DEF rest, def
<1>5. Locked(def) = balances[t][x] + (IF x # y THEN balances[t][y] ELSE 0)
  BY <1>1, <1>2, HeldIsBalance DEF Locked, x, y
<1>6. StatOf(def) = stats[t]
  BY <1>2 DEF StatOf
<1>7. \A answer \in Distribution(def) : answer.circulating = stats[t].supply - Locked(def)
  BY <1>6 DEF Distribution
<1>8. stats[t].supply - Locked(def) = rest
  BY <1>3, <1>4, <1>5
<1> QED
  BY <1>7, <1>8 DEF def, rest, x, y

\* The circulating supply that is answered for a token is exactly what accounts
\* other than the system's and the token's contract hold, for any configuration.
THEOREM CirculationIsElsewhere == Spec => []CirculatingIsElsewhere
BY InvAlways, InvCirculating, PTL

----
(* What accounts add up to. *)

\* The rows answered of an account's delegations hold all that it delegates.
LEMMA DelegationRows ==
  ASSUME AtSystem, Tables, NEW a \in Accounts
  PROVE  Total([d \in DelegatedBandwidth(a) |-> d.amount]) = Delegations[a]
<1> DEFINE e == delegated[a]
           P == {b \in Accounts : e[b] > 0}
           R == DelegatedBandwidth(a)
           f == Restrict(e, P)
           g == [d \in R |-> d.amount]
           h == [b \in P |-> [to |-> b, amount |-> e[b]]]
<1>1. e \in [Accounts -> Nat] /\ Delegations[a] = Total(e)
  BY DEF Tables, Delegations
<1>2. R = {[to |-> b, amount |-> e[b]] : b \in P}
  BY DEF DelegatedBandwidth
<1> HIDE DEF e, R
<1>3. h \in Bijection(P, R)
  <2>1. h \in [P -> R]
    BY <1>2
  <2>2. \A b, c \in P : h[b] = h[c] => b = c
    <3> SUFFICES ASSUME NEW b \in P, NEW c \in P, h[b] = h[c] PROVE b = c
      OBVIOUS
    <3>1. h[b].to = b /\ h[c].to = c
      OBVIOUS
    <3> QED
      BY <3>1
  <2>3. \A d \in R : \E b \in P : h[b] = d
    BY <1>2
  <2> HIDE DEF h
  <2> QED
    BY <2>1, <2>2, <2>3 DEF Bijection, Injection, Surjection, IsInjective
<1>4. /\ IsFiniteSet(P) /\ IsFiniteSet(Accounts \ P)
      /\ P \cap (Accounts \ P) = {} /\ P \cup (Accounts \ P) = Accounts
  <2>1. P \subseteq Accounts /\ Accounts \ P \subseteq Accounts
    OBVIOUS
  <2> QED
    BY <2>1, FiniteAccounts, FS_Subset
<1>5. /\ f = [b \in P |-> e[b]] /\ f \in [P -> Nat] /\ g \in [R -> Nat]
      /\ \A b \in P : g[h[b]] = f[b]
  <2>1. f = [b \in P |-> e[b]] /\ f \in [P -> Nat]
    BY <1>1 DEF Restrict
  <2>2. g \in [R -> Nat]
    BY <1>1, <1>2
  <2>3. \A b \in P : g[h[b]] = f[b]
    BY <1>1, <1>2, <2>1
  <2> QED
    BY <2>1, <2>2, <2>3
<1> HIDE DEF f, g, h
<1>6. Total(f) = Total(g)
  BY <1>3, <1>4, <1>5, TotalRenamed
<1>7. Total(Restrict(e, Accounts \ P)) = 0
  <2>1. Restrict(e, Accounts \ P) = [b \in Accounts \ P |-> 0]
    BY <1>1 DEF Restrict
  <2> QED
    BY <2>1, TotalZero
<1> HIDE DEF P
<1>8. Total(e) = Total(f) + Total(Restrict(e, Accounts \ P))
  BY <1>1, <1>4, SplitAdds DEF f
<1>9. Total(f) \in Nat
  BY <1>4, <1>5, TotalIsNumber
<1> QED
  BY <1>1, <1>6, <1>7, <1>8, <1>9 DEF g, R

\* Four tables of the same accounts.
LEMMA TotalOfFour ==
  ASSUME NEW S, IsFiniteSet(S), NEW f \in [S -> Nat], NEW g \in [S -> Nat],
         NEW h \in [S -> Nat], NEW k \in [S -> Nat]
  PROVE  /\ [x \in S |-> f[x] + g[x] + h[x] + k[x]] \in [S -> Nat]
         /\ Total([x \in S |-> f[x] + g[x] + h[x] + k[x]])
              = Total(f) + Total(g) + Total(h) + Total(k)
<1> DEFINE m == [x \in S |-> f[x] + g[x]]
           n == [x \in S |-> m[x] + h[x]]
           o == [x \in S |-> n[x] + k[x]]
<1>1. m \in [S -> Nat] /\ Total(m) = Total(f) + Total(g)
  BY TotalOfSums
<1>2. o = [x \in S |-> f[x] + g[x] + h[x] + k[x]]
  OBVIOUS
<1> HIDE DEF m
<1>3. n \in [S -> Nat] /\ Total(n) = Total(m) + Total(h)
  BY <1>1, TotalOfSums
<1> HIDE DEF n
<1>4. o \in [S -> Nat] /\ Total(o) = Total(n) + Total(k)
  BY <1>3, TotalOfSums
<1> HIDE DEF o
<1>5. Total(o) = Total(f) + Total(g) + Total(h) + Total(k)
  BY <1>1, <1>3, <1>4
<1> QED
  BY <1>2, <1>4, <1>5

LEMMA InvAddsUp == Inv => AccountsAddUp
<1> SUFFICES ASSUME Inv, AtSystem, Id(SystemToken) = Legacy
             PROVE  Total([a \in Accounts \ {StakeAccount, RexAccount} |-> Answered(TheAnswer(a))])
                      + RexPool.lendable = stats[Legacy].supply
  BY DEF AccountsAddUp
<1> DEFINE O == Accounts \ {StakeAccount, RexAccount}
           b == [a \in O |-> balances[Legacy][a]]
           r == [a \in O |-> refunds[a]]
           u == [a \in O |-> funds[a]]
           d == [a \in O |-> Delegations[a]]
<1>1. /\ Books(stats, rows, balances) /\ Tables /\ StakeKept /\ RexKept
      /\ Legacy \in Tokens
      /\ StakeAccount \in Accounts \ Users /\ RexAccount \in Accounts \ Users
      /\ StakeAccount # RexAccount
  BY Parties DEF Inv, Covered
<1>2. /\ balances[Legacy] \in [Accounts -> Nat] /\ Total(balances[Legacy]) = stats[Legacy].supply
      /\ refunds \in [Accounts -> Nat] /\ funds \in [Accounts -> Nat]
      /\ Delegations \in [Accounts -> Nat]
      /\ Total(refunds) \in Nat /\ Total(funds) \in Nat /\ Total(Delegations) \in Nat
      /\ pool.lendable \in Nat
  BY <1>1, BalanceWithin, AmountTables, TableTotals DEF Tables
<1>3. IsFiniteSet(O) /\ O \subseteq Accounts
  <2>1. O \subseteq Accounts
    OBVIOUS
  <2> QED
    BY <2>1, FiniteAccounts, FS_Subset
<1>4. \A a \in O : Answered(TheAnswer(a)) = b[a] + r[a] + u[a] + d[a]
  <2> SUFFICES ASSUME NEW a \in O
               PROVE  Answered(TheAnswer(a))
                        = balances[Legacy][a] + refunds[a] + funds[a] + Delegations[a]
    OBVIOUS
  <2>1. a \in Accounts
    OBVIOUS
  <2>2. PICK contents : Account(a, <<>>, TRUE) =
          {[account      |-> a,
            balance      |-> SystemTokenBalance(a),
            balances     |-> contents.balances,
            contracthash |-> contents.contracthash,
            delegations  |-> DelegatedBandwidth(a),
            giftedram    |-> contents.giftedram,
            proposals    |-> contents.proposals,
            refund       |-> RefundRequest(a),
            rexbal       |-> contents.rexbal,
            rexfund      |-> RexFund(a),
            vote         |-> contents.vote]}
    <3> DEFINE contents == [balances     |-> Balances(a, <<>>, TRUE),
                            contracthash |-> ContractHash(a),
                            giftedram    |-> GiftedRam(a),
                            proposals    |-> MsigProposals(a),
                            rexbal       |-> RexBalance(a),
                            vote         |-> VoterInfo(a)]
    <3> WITNESS contents
    <3> QED
      BY <2>1 DEF Account, Available
  <2>3. /\ TheAnswer(a).balance = SystemTokenBalance(a)
        /\ TheAnswer(a).refund = RefundRequest(a)
        /\ TheAnswer(a).rexfund = RexFund(a)
        /\ TheAnswer(a).delegations = DelegatedBandwidth(a)
    <3> DEFINE answer == [account      |-> a,
                          balance      |-> SystemTokenBalance(a),
                          balances     |-> contents.balances,
                          contracthash |-> contents.contracthash,
                          delegations  |-> DelegatedBandwidth(a),
                          giftedram    |-> contents.giftedram,
                          proposals    |-> contents.proposals,
                          refund       |-> RefundRequest(a),
                          rexbal       |-> contents.rexbal,
                          rexfund      |-> RexFund(a),
                          vote         |-> contents.vote]
    <3>1. /\ answer.balance = SystemTokenBalance(a)
          /\ answer.refund = RefundRequest(a)
          /\ answer.rexfund = RexFund(a)
          /\ answer.delegations = DelegatedBandwidth(a)
      OBVIOUS
    <3>2. Account(a, <<>>, TRUE) = {answer}
      BY <2>2, Zenon
    <3> HIDE DEF answer
    <3>3. TheAnswer(a) = answer
      BY <3>2, Zenon DEF TheAnswer
    <3> QED
      BY <3>1, <3>3, Zenon
  <2>4. TheAnswer(a).balance.amount = balances[Legacy][a]
    BY <1>1, <2>1, <2>3, HeldIsBalance DEF SystemTokenBalance, Found
  <2>5. TheAnswer(a).refund = refunds[a]
    BY <2>3 DEF RefundRequest
  <2>6. TheAnswer(a).rexfund = funds[a]
    BY <1>1, <2>1, <2>3 DEF RexFund, RexInitialized, RexKept
  <2>7. Total([x \in TheAnswer(a).delegations |-> x.amount]) = Delegations[a]
    BY <1>1, <2>1, <2>3, DelegationRows
  <2>8. /\ balances[Legacy][a] \in Nat /\ refunds[a] \in Nat /\ funds[a] \in Nat
        /\ Delegations[a] \in Nat
    BY <1>2, <2>1
  <2> QED
    BY <2>4, <2>5, <2>6, <2>7, <2>8 DEF Answered
<1>5. b \in [O -> Nat] /\ r \in [O -> Nat] /\ u \in [O -> Nat] /\ d \in [O -> Nat]
  BY <1>2, <1>3
<1>6. /\ Total(balances[Legacy])
           = Total(b) + (balances[Legacy][StakeAccount] + balances[Legacy][RexAccount])
      /\ Total(refunds) = Total(r) + (refunds[StakeAccount] + refunds[RexAccount])
      /\ Total(funds) = Total(u) + (funds[StakeAccount] + funds[RexAccount])
      /\ Total(Delegations) = Total(d) + (Delegations[StakeAccount] + Delegations[RexAccount])
  <2>1. ASSUME NEW f \in [Accounts -> Nat]
        PROVE  Total(f) = Total([a \in O |-> f[a]]) + (f[StakeAccount] + f[RexAccount])
    <3>1. StakeAccount \in Accounts /\ RexAccount \in Accounts
      BY <1>1
    <3>2. Total(f) = Total([a \in Accounts \ {StakeAccount, RexAccount} |-> f[a]])
                       + (f[StakeAccount] + (IF StakeAccount # RexAccount THEN f[RexAccount] ELSE 0))
      BY <3>1, AllBut
    <3> QED
      BY <1>1, <3>2
  <2> QED
    BY <1>2, <2>1
<1>7. /\ refunds[StakeAccount] = 0 /\ refunds[RexAccount] = 0
      /\ funds[StakeAccount] = 0 /\ funds[RexAccount] = 0
      /\ Delegations[StakeAccount] = 0 /\ Delegations[RexAccount] = 0
  <2>1. ASSUME NEW a \in Accounts \ Users
        PROVE  refunds[a] = 0 /\ funds[a] = 0 /\ Delegations[a] = 0
    <3>1. delegated[a] = [c \in Accounts |-> 0]
      BY <1>1 DEF Tables
    <3>2. Total(delegated[a]) = 0
      BY <3>1, TotalZero
    <3> QED
      BY <1>1, <3>2 DEF Tables, Delegations
  <2> QED
    BY <1>1, <2>1
<1>8. [a \in O |-> Answered(TheAnswer(a))] = [a \in O |-> b[a] + r[a] + u[a] + d[a]]
  BY <1>4
<1> HIDE DEF O, b, r, u, d
<1>9. Total([a \in O |-> b[a] + r[a] + u[a] + d[a]]) = Total(b) + Total(r) + Total(u) + Total(d)
  BY <1>3, <1>5, TotalOfFour
<1>10. Total(b) \in Nat /\ Total(r) \in Nat /\ Total(u) \in Nat /\ Total(d) \in Nat
  BY <1>3, <1>5, TotalIsNumber
<1>11. RexPool.lendable = pool.lendable
  BY DEF RexPool
<1>12. /\ balances[Legacy][StakeAccount] = Total(Delegations) + Total(refunds)
       /\ balances[Legacy][RexAccount] = Total(funds) + pool.lendable
  BY <1>1 DEF StakeKept, RexKept
<1>13. Total(b) + Total(r) + Total(u) + Total(d) + RexPool.lendable = stats[Legacy].supply
  BY <1>2, <1>6, <1>7, <1>10, <1>11, <1>12
<1> QED
  BY <1>8, <1>9, <1>13 DEF O

\* What the account query answers, added up over everybody but the keepers of
\* stakes and REX, with what REX can lend, is the supply of the legacy token.
THEOREM AnswersAddUp == Spec => []AccountsAddUp
BY InvAlways, InvAddsUp, PTL

----
(* What voters weigh. *)

\* A table with one account's entry taken out.
LEMMA Aside ==
  ASSUME NEW f \in [Accounts -> Nat], NEW x \in Accounts
  PROVE  \E g \in [Accounts -> Nat] :
           /\ Total(g) \in Nat /\ f[x] \in Nat /\ Total(f) = Total(g) + f[x]
           /\ \A a \in Accounts : a # x => g[a] = f[a]
<1> DEFINE n == f[x]
           g == Debit(f, x, n)
<1>1. n \in Nat /\ n <= f[x]
  OBVIOUS
<1>2. \A a \in Accounts : a # x => g[a] = f[a]
  BY DEF Debit
<1> HIDE DEF n
<1>3. g \in [Accounts -> Nat] /\ Total(f) \in Nat /\ Total(g) = Total(f) - n
  BY <1>1, Debited
<1> HIDE DEF g
<1>4. Total(g) \in Nat
  BY <1>3, Counted
<1>5. Total(f) = Total(g) + n
  BY <1>1, <1>3, <1>4
<1> QED
  BY <1>1, <1>2, <1>3, <1>4, <1>5 DEF n

\* What some accounts have of a table.
LEMMA SomeHave ==
  ASSUME NEW f \in [Accounts -> Nat], NEW some \in SUBSET Accounts
  PROVE  /\ [v \in some |-> f[v]] \in [some -> Nat]
         /\ Total([v \in some |-> f[v]]) \in Nat
         /\ Total([v \in some |-> f[v]]) <= Total(f)
<1>1. Restrict(f, some) = [v \in some |-> f[v]]
  BY DEF Restrict
<1>2. Total(Restrict(f, some)) \in Nat /\ Total(Restrict(f, some)) <= Total(f)
  BY FiniteAccounts, PartWithin
<1>3. [v \in some |-> f[v]] \in [some -> Nat]
  OBVIOUS
<1> QED
  BY <1>1, <1>2, <1>3

\* And with what another has of it.
LEMMA SomeAndOne ==
  ASSUME NEW f \in [Accounts -> Nat], NEW some \in SUBSET Accounts, NEW x \in Accounts \ some
  PROVE  Total([v \in some |-> f[v]]) + f[x] <= Total(f)
<1>1. PICK g \in [Accounts -> Nat] :
        /\ Total(g) \in Nat /\ f[x] \in Nat /\ Total(f) = Total(g) + f[x]
        /\ \A a \in Accounts : a # x => g[a] = f[a]
  BY Aside
<1>2. [v \in some |-> f[v]] = [v \in some |-> g[v]]
  BY <1>1
<1>3. Total([v \in some |-> g[v]]) \in Nat /\ Total([v \in some |-> g[v]]) <= Total(g)
  BY SomeHave
<1> QED
  BY <1>1, <1>2, <1>3

LEMMA SomeAndThree ==
  ASSUME NEW f \in [Accounts -> Nat], NEW some \in SUBSET Accounts,
         NEW x \in Accounts \ some, NEW y \in Accounts \ some, NEW z \in Accounts \ some,
         x # y, x # z, y # z
  PROVE  Total([v \in some |-> f[v]]) + f[x] + f[y] + f[z] <= Total(f)
<1>1. PICK g \in [Accounts -> Nat] :
        /\ Total(g) \in Nat /\ f[x] \in Nat /\ Total(f) = Total(g) + f[x]
        /\ \A a \in Accounts : a # x => g[a] = f[a]
  BY Aside
<1>2. PICK h \in [Accounts -> Nat] :
        /\ Total(h) \in Nat /\ g[y] \in Nat /\ Total(g) = Total(h) + g[y]
        /\ \A a \in Accounts : a # y => h[a] = g[a]
  BY Aside
<1>3. Total([v \in some |-> h[v]]) + h[z] <= Total(h)
  BY SomeAndOne
<1>4. Total([v \in some |-> h[v]]) \in Nat
  BY SomeHave
<1>5. [v \in some |-> f[v]] = [v \in some |-> h[v]]
  BY <1>1, <1>2
<1>6. g[y] = f[y] /\ h[z] = f[z] /\ h[z] \in Nat
  BY <1>1, <1>2
<1> QED
  BY <1>1, <1>2, <1>3, <1>4, <1>5, <1>6

\* Voters together own no more of the pool than it can lend, as each one's
\* share is rounded down.
LEMMA SharesWithin ==
  ASSUME Tables, RexKept, NEW voters \in SUBSET Voters
  PROVE  /\ [v \in voters |-> RexValue(PoolState, v)] \in [voters -> Nat]
         /\ Total([v \in voters |-> RexValue(PoolState, v)]) \in Nat
         /\ Total([v \in voters |-> RexValue(PoolState, v)]) <= pool.lendable
<1>1. /\ voters \subseteq Accounts /\ IsFiniteSet(voters)
      /\ shares \in [Accounts -> Nat] /\ pool.lendable \in Nat /\ pool.rex \in Nat
      /\ Total(shares) = pool.rex
  <2>1. voters \subseteq Accounts
    BY Parties, MetricsAssumption
  <2>2. IsFiniteSet(voters)
    BY <2>1, FiniteAccounts, FS_Subset
  <2> QED
    BY <2>1, <2>2 DEF Tables, RexKept
<1> DEFINE g == [v \in voters |-> RexValue(PoolState, v)]
<1>2. CASE ~ (FromSystem /\ pool.rex > 0)
  <2>1. \A v \in voters : RexValue(PoolState, v) = 0
    BY <1>2 DEF RexValue, PoolState, NoPool
  <2>2. g = [v \in voters |-> 0]
    BY <2>1
  <2>3. Total([v \in voters |-> 0]) = 0
    BY TotalZero
  <2> QED
    BY <1>1, <2>2, <2>3
<1>3. CASE FromSystem /\ pool.rex > 0
  <2> DEFINE a == pool.lendable
             b == pool.rex
             f == [v \in voters |-> shares[v]]
  <2>1. /\ a \in Nat /\ b \in Nat \ {0} /\ Total(shares) = b
        /\ f \in [voters -> Nat] /\ Total(f) \in Nat /\ Total(f) <= b
    <3>1. f \in [voters -> Nat] /\ Total(f) \in Nat /\ Total(f) <= Total(shares)
      BY <1>1, SomeHave
    <3> QED
      BY <1>1, <1>3, <3>1
  <2>2. \A v \in voters : g[v] = (f[v] * a) \div b
    BY <1>3 DEF RexValue, PoolState
  <2>3. DOMAIN g = voters /\ g = [v \in voters |-> g[v]]
    OBVIOUS
  <2> HIDE DEF a, b, f, g
  <2>4. ASSUME NEW v \in voters PROVE g[v] \in Nat /\ g[v] * b <= f[v] * a
    <3> DEFINE n == f[v]
    <3>1. n \in Nat /\ g[v] = (n * a) \div b
      BY <2>1, <2>2
    <3> HIDE DEF n
    <3>2. (n * a) \div b \in Nat /\ ((n * a) \div b) * b <= n * a
      BY <2>1, <3>1, ShareWithin
    <3> QED
      BY <3>1, <3>2 DEF n
  <2>5. g \in [voters -> Nat]
    BY <2>3, <2>4
  <2>6. Total(g) \in Nat
    BY <1>1, <2>5, TotalIsNumber
  <2>7. Total(g) * b <= Total(f) * a
    BY <1>1, <2>1, <2>4, <2>5, TotalScaled
  <2>8. Total(g) <= a
    <3> DEFINE m == Total(g)
               n == Total(f)
    <3>1. m \in Nat /\ n \in Nat /\ n <= b /\ m * b <= n * a
      BY <2>1, <2>6, <2>7
    <3> HIDE DEF m, n
    <3>2. n * a <= b * a
      BY <2>1, <3>1
    <3>3. m * b <= a * b
      BY <2>1, <3>1, <3>2
    <3> QED
      BY <2>1, <3>1, <3>3 DEF m
  <2> QED
    BY <2>5, <2>6, <2>8 DEF a, g
<1> QED
  BY <1>2, <1>3

\* What a voter's metrics are made of, when the tokens are configured for what
\* they are.
Own(v) == IF FromSystem THEN delegated[v][v] ELSE 0
OwnRam(v) == IF FromSystem THEN ram[v] ELSE 0
OwnV(v) == IF metrics.v_stake_contract = VStakeContract THEN StakedV[v] ELSE 0

LEMMA Weighed ==
  ASSUME Inv, MetricsSound, NEW voters \in SUBSET Voters, NEW answer \in AllMetrics(voters),
         NEW v \in voters
  PROVE  /\ answer[v].system_staked = Own(v) + RexValue(PoolState, v)
         /\ answer[v].system_liquid = balances[Vaulta][v] + balances[Legacy][v]
         /\ answer[v].ram_bytes = OwnRam(v) + balances[Wram][v]
         /\ answer[v].v_staked = OwnV(v)
         /\ answer[v].v_liquid = balances[V][v]
<1>1. v \in Accounts
  BY Parties, MetricsAssumption
<1>2. answer[v] = Metrics(PoolState, v)
  BY DEF AllMetrics
<1>3. /\ Held(Vaulta, v) = balances[Vaulta][v] /\ Held(Legacy, v) = balances[Legacy][v]
      /\ Held(Wram, v) = balances[Wram][v] /\ Held(V, v) = balances[V][v]
  <2>1. Vaulta \in Tokens /\ Legacy \in Tokens /\ Wram \in Tokens /\ V \in Tokens
    BY Parties
  <2>2. Books(stats, rows, balances)
    BY DEF Inv, Covered
  <2> QED
    BY <1>1, <2>1, <2>2, HeldIsBalance
<1>4. /\ metrics.system_token = Vaulta /\ metrics.legacy_token = Legacy
      /\ metrics.wram_token = Wram /\ metrics.v_token = V
  BY DEF MetricsSound
<1>5. /\ Metrics(PoolState, v).system_staked = Own(v) + RexValue(PoolState, v)
      /\ Metrics(PoolState, v).system_liquid
           = Held(metrics.system_token, v) + Held(metrics.legacy_token, v)
      /\ Metrics(PoolState, v).ram_bytes = OwnRam(v) + Held(metrics.wram_token, v)
      /\ Metrics(PoolState, v).v_staked = OwnV(v)
      /\ Metrics(PoolState, v).v_liquid = Held(metrics.v_token, v)
  BY <1>1 DEF Metrics, Own, OwnRam, OwnV, StakedV
<1> QED
  BY <1>2, <1>3, <1>4, <1>5

\* Tokens: what voters staked, lent and hold, of either kind, is the legacy
\* token's, with three accounts that keep it for them.
LEMMA TokensOnce ==
  ASSUME Inv, MetricsSound, NEW voters \in SUBSET Voters, NEW answer \in AllMetrics(voters)
  PROVE  Total([v \in voters |-> answer[v].system_staked + answer[v].system_liquid])
           <= stats[Legacy].supply
<1> DEFINE f == [v \in voters |-> Own(v)]
           g == [v \in voters |-> RexValue(PoolState, v)]
           h == [v \in voters |-> balances[Vaulta][v]]
           k == [v \in voters |-> balances[Legacy][v]]
           d == [v \in voters |-> Delegations[v]]
<1>1. /\ Books(stats, rows, balances) /\ Tables /\ StakeKept /\ RexKept /\ Backed
      /\ voters \subseteq Users /\ voters \subseteq Accounts /\ IsFiniteSet(voters)
  <2>1. voters \subseteq Users /\ voters \subseteq Accounts
    BY Parties, MetricsAssumption
  <2>2. IsFiniteSet(voters)
    BY <2>1, FiniteAccounts, FS_Subset
  <2> QED
    BY <2>1, <2>2 DEF Inv, Covered
<1>2. /\ balances[Legacy] \in [Accounts -> Nat] /\ Total(balances[Legacy]) = stats[Legacy].supply
      /\ balances[Vaulta] \in [Accounts -> Nat] /\ Total(balances[Vaulta]) = stats[Vaulta].supply
      /\ Delegations \in [Accounts -> Nat] /\ Total(Delegations) \in Nat
      /\ Total(refunds) \in Nat /\ Total(funds) \in Nat /\ pool.lendable \in Nat
      /\ stats[Vaulta].supply \in Nat /\ stats[Legacy].supply \in Nat
  <2>1. Legacy \in Tokens /\ Vaulta \in Tokens
    BY Parties
  <2>2. balances[Legacy] \in [Accounts -> Amounts] /\ balances[Vaulta] \in [Accounts -> Amounts]
        /\ Total(balances[Legacy]) = stats[Legacy].supply
        /\ Total(balances[Vaulta]) = stats[Vaulta].supply
        /\ stats[Vaulta].supply \in Nat /\ stats[Legacy].supply \in Nat
    BY <1>1, <2>1, BalanceWithin
  <2>3. balances[Legacy] \in [Accounts -> Nat] /\ balances[Vaulta] \in [Accounts -> Nat]
    BY <2>2, AmountTables
  <2>4. pool.lendable \in Nat
    BY <1>1 DEF Tables
  <2> QED
    BY <1>1, <2>2, <2>3, <2>4, TableTotals
<1>3. /\ g \in [voters -> Nat] /\ Total(g) \in Nat /\ Total(g) <= pool.lendable
  BY <1>1, SharesWithin
<1>4. /\ h \in [voters -> Nat] /\ Total(h) \in Nat /\ Total(h) <= stats[Vaulta].supply
  BY <1>1, <1>2, SomeHave
<1>5. /\ k \in [voters -> Nat] /\ Total(k) \in Nat
      /\ Total(k) + balances[Legacy][StakeAccount] + balances[Legacy][RexAccount]
           + balances[Legacy][Core] <= stats[Legacy].supply
  <2>1. /\ StakeAccount \in Accounts \ voters /\ RexAccount \in Accounts \ voters
        /\ Core \in Accounts \ voters
        /\ StakeAccount # RexAccount /\ StakeAccount # Core /\ RexAccount # Core
    BY <1>1, Parties
  <2>2. Total(k) + balances[Legacy][StakeAccount] + balances[Legacy][RexAccount]
           + balances[Legacy][Core] <= Total(balances[Legacy])
    BY <1>1, <1>2, <2>1, SomeAndThree
  <2>3. k \in [voters -> Nat] /\ Total(k) \in Nat
    BY <1>1, <1>2, SomeHave
  <2> QED
    BY <1>2, <2>2, <2>3
<1>6. f \in [voters -> Nat] /\ Total(f) \in Nat /\ Total(f) <= Total(Delegations)
  <2>1. d \in [voters -> Nat] /\ Total(d) \in Nat /\ Total(d) <= Total(Delegations)
    BY <1>1, <1>2, SomeHave
  <2>2. ASSUME NEW v \in voters PROVE Own(v) \in Nat /\ Own(v) <= Delegations[v]
    <3>1. v \in Accounts /\ delegated[v] \in [Accounts -> Nat]
      BY <1>1 DEF Tables
    <3>2. Total(delegated[v]) \in Nat /\ delegated[v][v] <= Total(delegated[v])
      BY <3>1, Counted
    <3> QED
      BY <3>1, <3>2 DEF Own, Delegations
  <2>3. f \in [voters -> Nat] /\ \A v \in voters : f[v] <= d[v]
    BY <2>2
  <2> HIDE DEF f, d
  <2>4. Total(f) \in Nat /\ Total(f) <= Total(d)
    BY <1>1, <2>1, <2>3, TotalIsNumber, TotalGrows
  <2> QED
    BY <1>2, <2>1, <2>3, <2>4
<1>7. [v \in voters |-> answer[v].system_staked + answer[v].system_liquid]
        = [v \in voters |-> f[v] + g[v] + h[v] + k[v]]
  <2> SUFFICES ASSUME NEW v \in voters
               PROVE  answer[v].system_staked + answer[v].system_liquid = f[v] + g[v] + h[v] + k[v]
    OBVIOUS
  <2>1. /\ answer[v].system_staked = f[v] + g[v]
        /\ answer[v].system_liquid = h[v] + k[v]
    BY Weighed
  <2>2. f[v] \in Nat /\ g[v] \in Nat /\ h[v] \in Nat /\ k[v] \in Nat
    BY <1>3, <1>4, <1>5, <1>6
  <2> HIDE DEF f, g, h, k
  <2> QED
    BY <2>1, <2>2
<1>8. balances[Legacy][StakeAccount] = Total(Delegations) + Total(refunds)
      /\ balances[Legacy][RexAccount] = Total(funds) + pool.lendable
      /\ stats[Vaulta].supply <= balances[Legacy][Core]
      /\ balances[Legacy][Core] \in Nat
  BY <1>1, <1>2, Parties DEF StakeKept, RexKept, Backed
<1> HIDE DEF f, g, h, k
<1>9. Total([v \in voters |-> f[v] + g[v] + h[v] + k[v]]) = Total(f) + Total(g) + Total(h) + Total(k)
  BY <1>1, <1>3, <1>4, <1>5, <1>6, TotalOfFour
<1>10. Total(f) + Total(g) + Total(h) + Total(k) <= stats[Legacy].supply
  BY <1>2, <1>3, <1>4, <1>5, <1>6, <1>8
<1> QED
  BY <1>7, <1>9, <1>10

\* Two tables, one of which is kept by an account that is no voter.
LEMMA KeptElsewhere ==
  ASSUME NEW voters \in SUBSET Accounts, NEW x \in Accounts \ voters,
         NEW f \in [Accounts -> Nat], NEW g \in [Accounts -> Nat], Total(g) <= f[x],
         NEW m \in [voters -> Nat], NEW n \in [voters -> Nat],
         \A v \in voters : m[v] <= f[v] /\ n[v] <= g[v]
  PROVE  Total([v \in voters |-> m[v] + n[v]]) <= Total(f)
<1> DEFINE p == [v \in voters |-> f[v]]
           q == [v \in voters |-> g[v]]
<1>1. IsFiniteSet(voters)
  BY FiniteAccounts, FS_Subset
<1>2. p \in [voters -> Nat] /\ Total(p) \in Nat /\ Total(p) + f[x] <= Total(f)
  BY SomeHave, SomeAndOne
<1>3. q \in [voters -> Nat] /\ Total(q) \in Nat /\ Total(q) <= Total(g)
  BY SomeHave
<1>4. \A v \in voters : m[v] <= p[v] /\ n[v] <= q[v]
  OBVIOUS
<1>5. f[x] \in Nat /\ Total(g) \in Nat /\ Total(f) \in Nat
  BY Counted
<1> HIDE DEF p, q
<1>6. Total(m) \in Nat /\ Total(m) <= Total(p)
  BY <1>1, <1>2, <1>4, TotalIsNumber, TotalGrows
<1>7. Total(n) \in Nat /\ Total(n) <= Total(q)
  BY <1>1, <1>3, <1>4, TotalIsNumber, TotalGrows
<1>8. Total([v \in voters |-> m[v] + n[v]]) = Total(m) + Total(n)
  BY <1>1, TotalOfSums
<1> QED
  BY <1>2, <1>3, <1>5, <1>6, <1>7, <1>8

\* RAM: the bytes behind what is wrapped are the contract's that wrapped them.
LEMMA RamOnce ==
  ASSUME Inv, MetricsSound, NEW voters \in SUBSET Voters, NEW answer \in AllMetrics(voters)
  PROVE  Total([v \in voters |-> answer[v].ram_bytes]) <= Total(ram)
<1> DEFINE m == [v \in voters |-> OwnRam(v)]
           n == [v \in voters |-> balances[Wram][v]]
<1>1. /\ voters \in SUBSET Accounts /\ WramContract \in Accounts \ voters /\ Wram \in Tokens
      /\ Books(stats, rows, balances) /\ ram \in [Accounts -> Nat]
      /\ stats[Wram].supply <= ram[WramContract]
  BY Parties, MetricsAssumption DEF Inv, Covered, Tables, Backed
<1>2. balances[Wram] \in [Accounts -> Nat] /\ Total(balances[Wram]) = stats[Wram].supply
  BY <1>1, BalanceWithin, AmountTables
<1>3. /\ m \in [voters -> Nat] /\ n \in [voters -> Nat]
      /\ \A v \in voters : m[v] <= ram[v] /\ n[v] <= balances[Wram][v]
  BY <1>1, <1>2 DEF OwnRam
<1>4. [v \in voters |-> answer[v].ram_bytes] = [v \in voters |-> m[v] + n[v]]
  BY Weighed
<1> HIDE DEF m, n
<1>5. Total([v \in voters |-> m[v] + n[v]]) <= Total(ram)
  BY <1>1, <1>2, <1>3, KeptElsewhere
<1> QED
  BY <1>4, <1>5

\* V: what is staked is the staking contract's.
LEMMA VOnce ==
  ASSUME Inv, MetricsSound, NEW voters \in SUBSET Voters, NEW answer \in AllMetrics(voters)
  PROVE  Total([v \in voters |-> answer[v].v_staked + answer[v].v_liquid]) <= stats[V].supply
<1> DEFINE m == [v \in voters |-> balances[V][v]]
           n == [v \in voters |-> OwnV(v)]
<1>1. /\ voters \in SUBSET Accounts /\ VStakeContract \in Accounts \ voters /\ V \in Tokens
      /\ Books(stats, rows, balances) /\ Tables
      /\ Total(StakedV) <= balances[V][VStakeContract]
  BY Parties, MetricsAssumption DEF Inv, Covered, VKept
<1>2. balances[V] \in [Accounts -> Nat] /\ Total(balances[V]) = stats[V].supply
      /\ StakedV \in [Accounts -> Nat]
  BY <1>1, BalanceWithin, AmountTables, TableTotals
<1>3. /\ m \in [voters -> Nat] /\ n \in [voters -> Nat]
      /\ \A v \in voters : m[v] <= balances[V][v] /\ n[v] <= StakedV[v]
  BY <1>1, <1>2 DEF OwnV
<1>4. [v \in voters |-> answer[v].v_staked + answer[v].v_liquid] = [v \in voters |-> m[v] + n[v]]
  <2> SUFFICES ASSUME NEW v \in voters
               PROVE  answer[v].v_staked + answer[v].v_liquid = m[v] + n[v]
    OBVIOUS
  <2>1. answer[v].v_staked = n[v] /\ answer[v].v_liquid = m[v]
    BY Weighed
  <2> HIDE DEF m, n
  <2> QED
    BY <1>3, <2>1
<1> HIDE DEF m, n
<1>5. Total([v \in voters |-> m[v] + n[v]]) <= Total(balances[V])
  BY <1>1, <1>2, <1>3, KeptElsewhere
<1> QED
  BY <1>2, <1>4, <1>5

\* A voter's weight is what the voter delegated, which eosio.stake has.
LEMMA WeightOnce ==
  ASSUME Inv, NEW voters \in SUBSET Voters
  PROVE  Total([v \in voters |-> VoterWeight(v)]) <= stats[Legacy].supply
<1> DEFINE w == [v \in voters |-> VoterWeight(v)]
           d == [v \in voters |-> Delegations[v]]
<1>1. /\ voters \in SUBSET Accounts /\ IsFiniteSet(voters) /\ Legacy \in Tokens
      /\ StakeAccount \in Accounts
      /\ Books(stats, rows, balances) /\ Tables /\ StakeKept
  <2>1. voters \in SUBSET Accounts /\ Legacy \in Tokens /\ StakeAccount \in Accounts
    BY Parties, MetricsAssumption
  <2>2. IsFiniteSet(voters)
    BY <2>1, FiniteAccounts, FS_Subset
  <2> QED
    BY <2>1, <2>2 DEF Inv, Covered
<1>2. /\ balances[Legacy][StakeAccount] <= stats[Legacy].supply /\ stats[Legacy].supply \in Nat
      /\ Delegations \in [Accounts -> Nat] /\ Total(Delegations) \in Nat /\ Total(refunds) \in Nat
      /\ balances[Legacy][StakeAccount] = Total(Delegations) + Total(refunds)
  BY <1>1, BalanceWithin, TableTotals DEF StakeKept
<1>3. d \in [voters -> Nat] /\ Total(d) \in Nat /\ Total(d) <= Total(Delegations)
  BY <1>1, <1>2, SomeHave
<1>4. w \in [voters -> Nat] /\ \A v \in voters : w[v] <= d[v]
  <2> SUFFICES ASSUME NEW v \in voters
               PROVE  VoterWeight(v) \in Nat /\ VoterWeight(v) <= Delegations[v]
    OBVIOUS
  <2>1. v \in Accounts /\ Delegations[v] \in Nat /\ Delegations[v] = Total(delegated[v])
    BY <1>1, <1>2 DEF Delegations
  <2> QED
    BY <2>1 DEF VoterWeight
<1> HIDE DEF w, d
<1>5. Total(w) \in Nat /\ Total(w) <= Total(d)
  BY <1>1, <1>3, <1>4, TotalIsNumber, TotalGrows
<1>6. Total(w) <= stats[Legacy].supply
  BY <1>2, <1>3, <1>5
<1> QED
  BY <1>6 DEF w

LEMMA InvCountsOnce == Inv => NothingCountsTwice
BY TokensOnce, RamOnce, VOnce, WeightOnce DEF NothingCountsTwice

\* Voters together weigh at most the tokens, the RAM and the V there are, for
\* any set of them and whatever has been staked, lent, refunded or wrapped.
THEOREM NothingIsCountedTwice == Spec => []NothingCountsTwice
BY InvAlways, InvCountsOnce, PTL
================================================================================
