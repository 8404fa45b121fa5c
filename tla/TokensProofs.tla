------------------------------ MODULE TokensProofs ------------------------------
(******************************************************************************)
(* Proofs about the tokens contract, for any accounts, tickers, receiving     *)
(* contracts and amounts: its ledgers add up at every point of every          *)
(* transaction (Inv); a distribution that commits has delivered what was      *)
(* allocated, whatever the notified contracts did (Delivery), and no more     *)
(* where none acts but the forwarders (ExactlyDeliverable); one to ordinary   *)
(* receivers that was accepted cannot fail (Accepted); and without reacting   *)
(* contracts no row is left to a contract to pay for (Billed).                *)
(******************************************************************************)
EXTENDS Tokens, AssetTotalsProofs, SequenceTheorems

\* A well-formed ledger that adds up.
Sound(L) == L \in Ledgers /\ AddsUp(L)

\* The inductive invariant.
Inv == TypeOK /\ SupplyConserved

----
(* Ledgers. *)

LEMMA AmountsAreNumbers == Amounts \subseteq Nat /\ 0 \in Amounts
BY MaxAmountAssumption DEF Amounts

LEMMA LedgerFields ==
  ASSUME NEW L \in Ledgers
  PROVE  /\ L.balance \in [Accounts -> Amounts]
         /\ L.payer \in [Accounts -> Accounts \cup {NoAccount}]
         /\ L.supply \in Nat /\ L.maxSupply \in Amounts
         /\ L.issuer \in Accounts \cup {NoAccount}
BY AmountsAreNumbers DEF Ledgers

\* What sub_balance and add_balance leave in a ledger.
LEMMA SubBalanceFields ==
  ASSUME NEW L \in Ledgers, NEW a \in Accounts, NEW q \in Amounts, CanSub(L, a, q),
         NEW p \in Accounts
  PROVE  LET N == SubBalance(L, a, q, p) IN
           /\ N \in Ledgers
           /\ N.balance = Debit(L.balance, a, q)
           /\ N.payer = [L.payer EXCEPT ![a] = p]
           /\ N.supply = L.supply /\ N.maxSupply = L.maxSupply
<1>1. L.balance \in [Accounts -> Amounts] /\ q \in Nat /\ q <= L.balance[a]
  BY LedgerFields, AmountsAreNumbers DEF CanSub
<1>2. Debit(L.balance, a, q) \in [Accounts -> Amounts]
  BY <1>1, TotalDebit, TokensAssumption
<1>3. [L.payer EXCEPT ![a] = p] \in [Accounts -> Accounts \cup {NoAccount}]
  BY LedgerFields
<1> QED
  BY <1>2, <1>3 DEF SubBalance, Ledgers

LEMMA AddBalanceFields ==
  ASSUME NEW L \in Ledgers, NEW a \in Accounts, NEW q \in Amounts, CanAdd(L, a, q),
         NEW p \in Accounts
  PROVE  LET N == AddBalance(L, a, q, p) IN
           /\ N \in Ledgers
           /\ N.balance = Credit(L.balance, a, q)
           /\ N.payer = [L.payer EXCEPT ![a] = IF HasRow(L, a) THEN @ ELSE p]
           /\ N.supply = L.supply /\ N.maxSupply = L.maxSupply
<1>1. L.balance \in [Accounts -> Amounts] /\ q \in Nat /\ L.balance[a] + q <= MaxAmount
  BY LedgerFields, AmountsAreNumbers DEF CanAdd
<1>2. Credit(L.balance, a, q) \in [Accounts -> Amounts]
  BY <1>1, TotalCredit, TokensAssumption
<1> DEFINE P == [L.payer EXCEPT ![a] = IF HasRow(L, a) THEN @ ELSE p]
<1>3. P \in [Accounts -> Accounts \cup {NoAccount}]
  BY LedgerFields
<1>4. AddBalance(L, a, q, p) = [L EXCEPT !.balance = Credit(L.balance, a, q), !.payer = P]
  BY DEF AddBalance, Ledgers
<1> QED
  BY <1>2, <1>3, <1>4 DEF Ledgers

\* Tokens moved from one account to another, whoever pays for the rows.
LEMMA MoveSound ==
  ASSUME NEW L, Sound(L), NEW from \in Accounts, NEW to \in Accounts, from # to,
         NEW q \in Amounts, CanSub(L, from, q), CanAdd(L, to, q),
         NEW p \in Accounts, NEW r \in Accounts
  PROVE  Sound(AddBalance(SubBalance(L, from, q, p), to, q, r))
<1> DEFINE S == SubBalance(L, from, q, p)
           N == AddBalance(S, to, q, r)
<1>1. L \in Ledgers /\ Total(L.balance) = L.supply /\ L.supply <= L.maxSupply
      /\ \A a \in Accounts : L.payer[a] = NoAccount => L.balance[a] = 0
  BY DEF Sound, AddsUp, HasRow
<1>2. /\ L.balance \in [Accounts -> Amounts] /\ q \in Nat /\ IsFiniteSet(Accounts)
      /\ L.payer \in [Accounts -> Accounts \cup {NoAccount}]
      /\ q <= L.balance[from] /\ L.balance[to] + q <= MaxAmount
      /\ NoAccount \notin Accounts
  BY <1>1, LedgerFields, AmountsAreNumbers, TokensAssumption DEF CanSub, CanAdd
<1>3. /\ S \in Ledgers
      /\ S.balance = Debit(L.balance, from, q)
      /\ S.payer = [L.payer EXCEPT ![from] = p]
      /\ S.supply = L.supply /\ S.maxSupply = L.maxSupply
  BY <1>1, SubBalanceFields
<1>4. CanAdd(S, to, q)
  BY <1>2, <1>3 DEF CanAdd, Debit
<1> HIDE DEF S
<1>5. /\ N \in Ledgers
      /\ N.balance = Credit(S.balance, to, q)
      /\ N.payer = [S.payer EXCEPT ![to] = IF HasRow(S, to) THEN @ ELSE r]
      /\ N.supply = S.supply /\ N.maxSupply = S.maxSupply
  BY <1>3, <1>4, AddBalanceFields
<1>6. Total(N.balance) = L.supply
  BY <1>1, <1>2, <1>3, <1>5, TotalMove
<1> HIDE DEF N
<1>7. \A a \in Accounts : N.payer[a] = NoAccount => N.balance[a] = 0
  <2> SUFFICES ASSUME NEW a \in Accounts, N.payer[a] = NoAccount PROVE N.balance[a] = 0
    OBVIOUS
  <2>1. a # to
    BY <1>2, <1>3, <1>5 DEF HasRow
  <2>2. a # from /\ L.payer[a] = NoAccount
    BY <1>2, <1>3, <1>5, <2>1
  <2> QED
    BY <1>1, <1>2, <1>3, <1>5, <2>1, <2>2 DEF Credit, Debit
<1>8. N \in Ledgers /\ AddsUp(N)
  BY <1>1, <1>3, <1>5, <1>6, <1>7 DEF AddsUp, HasRow
<1> QED
  BY <1>8 DEF Sound, N, S

\* Tokens that come into being with the supply.
LEMMA MintSound ==
  ASSUME NEW L, Sound(L), NEW to \in Accounts, NEW q \in Amounts, CanAdd(L, to, q),
         NEW r \in Accounts, NEW M \in Ledgers, M.supply = L.supply + q,
         M.balance = L.balance, M.payer = L.payer, M.supply <= M.maxSupply
  PROVE  Sound(AddBalance(M, to, q, r))
<1> DEFINE N == AddBalance(M, to, q, r)
<1>1. L \in Ledgers /\ Total(L.balance) = L.supply
      /\ \A a \in Accounts : L.payer[a] = NoAccount => L.balance[a] = 0
  BY DEF Sound, AddsUp, HasRow
<1>2. /\ L.balance \in [Accounts -> Amounts] /\ q \in Nat /\ IsFiniteSet(Accounts)
      /\ L.payer \in [Accounts -> Accounts \cup {NoAccount}]
      /\ L.balance[to] + q <= MaxAmount /\ NoAccount \notin Accounts
  BY <1>1, LedgerFields, AmountsAreNumbers, TokensAssumption DEF CanAdd
<1>3. /\ N \in Ledgers
      /\ N.balance = Credit(L.balance, to, q)
      /\ N.payer = [L.payer EXCEPT ![to] = IF HasRow(M, to) THEN @ ELSE r]
      /\ N.supply = M.supply /\ N.maxSupply = M.maxSupply
  BY AddBalanceFields DEF CanAdd
<1> HIDE DEF N
<1>4. Total(N.balance) = L.supply + q
  BY <1>1, <1>2, <1>3, TotalCredit
<1>5. \A a \in Accounts : N.payer[a] = NoAccount => N.balance[a] = 0
  BY <1>1, <1>2, <1>3 DEF Credit, HasRow
<1>6. N \in Ledgers /\ AddsUp(N)
  BY <1>3, <1>4, <1>5 DEF AddsUp, HasRow
<1> QED
  BY <1>6 DEF Sound, N

\* Tokens that go out of existence with the supply.
LEMMA BurnSound ==
  ASSUME NEW L, Sound(L), NEW from \in Accounts, NEW q \in Amounts, CanSub(L, from, q)
  PROVE  Sound(SubBalance([L EXCEPT !.supply = L.supply - q], from, q, from))
<1> DEFINE M == [L EXCEPT !.supply = L.supply - q]
           N == SubBalance(M, from, q, from)
<1>1. L \in Ledgers /\ Total(L.balance) = L.supply /\ L.supply <= L.maxSupply
      /\ \A a \in Accounts : L.payer[a] = NoAccount => L.balance[a] = 0
  BY DEF Sound, AddsUp, HasRow
<1>2. /\ L.balance \in [Accounts -> Amounts] /\ q \in Nat /\ IsFiniteSet(Accounts)
      /\ L.payer \in [Accounts -> Accounts \cup {NoAccount}]
      /\ q <= L.balance[from] /\ NoAccount \notin Accounts
      /\ L.supply \in Amounts /\ L.maxSupply \in Amounts
  BY <1>1, LedgerFields, AmountsAreNumbers, TokensAssumption DEF CanSub, Ledgers
<1>3. Total(Debit(L.balance, from, q)) = L.supply - q /\ Total(Debit(L.balance, from, q)) \in Nat
  BY <1>1, <1>2, TotalDebit, TotalType
<1>4. L.supply - q \in Amounts /\ L.supply - q <= L.maxSupply
  BY <1>1, <1>2, <1>3, MaxAmountAssumption DEF Amounts
<1>5. /\ M \in Ledgers /\ M.supply = L.supply - q /\ M.maxSupply = L.maxSupply
      /\ M.balance = L.balance /\ M.payer = L.payer
  BY <1>1, <1>4 DEF Ledgers
<1> HIDE DEF M
<1>6. /\ N \in Ledgers
      /\ N.balance = Debit(L.balance, from, q)
      /\ N.payer = [L.payer EXCEPT ![from] = from]
      /\ N.supply = M.supply /\ N.maxSupply = M.maxSupply
  BY <1>5, SubBalanceFields DEF CanSub, HasRow
<1> HIDE DEF N
<1>7. \A a \in Accounts : N.payer[a] = NoAccount => N.balance[a] = 0
  BY <1>1, <1>2, <1>6 DEF Debit
<1>8. N \in Ledgers /\ AddsUp(N)
  BY <1>3, <1>4, <1>5, <1>6, <1>7 DEF AddsUp, HasRow
<1> QED
  BY <1>8 DEF Sound, N, M

----
(* The queue. *)

LEMMA TickersSound ==
  ASSUME Inv, NEW t \in Tickers
  PROVE  Sound(tokens[t]) /\ Sound(committed[t]) /\ tokens[t] \in Ledgers
BY DEF Inv, TypeOK, SupplyConserved, Sound

\* Whatever it queues, an action that leaves sound ledgers preserves Inv.
LEMMA ContinueKeeps ==
  ASSUME Inv, NEW new \in [Tickers -> Ledgers], \A t \in Tickers : Sound(new[t]),
         NEW acts \in Seq(Actions), NEW rest \in Seq(Actions),
         Continue(new, acts, rest), launch' \in Launches
  PROVE  Inv'
<1>1. tokens' = new /\ todo' \in Seq(Actions) /\ committed' \in {new, committed}
      /\ UNCHANGED <<tokenRegistry, registered, forwards>>
  BY DEF Continue
<1>2. TypeOK'
  BY <1>1 DEF TypeOK, Inv
<1>3. SupplyConserved'
  BY <1>1 DEF SupplyConserved, Inv, Sound
<1> QED
  BY <1>2, <1>3 DEF Inv

LEMMA ContinueOne ==
  ASSUME Inv, NEW t \in Tickers, NEW L, Sound(L),
         NEW acts \in Seq(Actions), NEW rest \in Seq(Actions),
         Continue([tokens EXCEPT ![t] = L], acts, rest), launch' \in Launches
  PROVE  Inv'
<1> DEFINE new == [tokens EXCEPT ![t] = L]
<1>1. tokens \in [Tickers -> Ledgers] /\ L \in Ledgers
  BY DEF Inv, TypeOK, Sound
<1>2. new \in [Tickers -> Ledgers]
  BY <1>1
<1>3. \A u \in Tickers : Sound(new[u])
  BY <1>1, TickersSound
<1> HIDE DEF new
<1> QED
  BY <1>2, <1>3, ContinueKeeps DEF new

\* An action that keeps balances and rows and raises no supply keeps a ledger sound.
LEMMA SoundWithMaximum ==
  ASSUME NEW L, Sound(L), NEW m \in Amounts, L.supply <= m,
         NEW i \in Accounts \cup {NoAccount}
  PROVE  /\ Sound([L EXCEPT !.maxSupply = m, !.issuer = i])
         /\ Sound([L EXCEPT !.maxSupply = m])
BY DEF Sound, Ledgers, AddsUp, HasRow

LEMMA SoundWithRow ==
  ASSUME NEW L, Sound(L), NEW a \in Accounts, NEW p \in Accounts \cup {NoAccount},
         p = NoAccount => L.balance[a] = 0
  PROVE  Sound([L EXCEPT !.payer[a] = p])
<1> DEFINE N == [L EXCEPT !.payer[a] = p]
<1>1. L \in Ledgers /\ Total(L.balance) = L.supply /\ L.supply <= L.maxSupply
      /\ \A b \in Accounts : L.payer[b] = NoAccount => L.balance[b] = 0
  BY DEF Sound, AddsUp, HasRow
<1>2. [L.payer EXCEPT ![a] = p] \in [Accounts -> Accounts \cup {NoAccount}]
  BY <1>1, LedgerFields
<1>3. /\ N \in Ledgers /\ N.payer = [L.payer EXCEPT ![a] = p]
      /\ N.balance = L.balance /\ N.supply = L.supply /\ N.maxSupply = L.maxSupply
  BY <1>1, <1>2 DEF Ledgers
<1> HIDE DEF N
<1>4. AddsUp(N)
  BY <1>1, <1>3, LedgerFields DEF AddsUp, HasRow
<1> QED
  BY <1>3, <1>4 DEF Sound, N

----
(* What the actions queue. *)

LEMMA QueueTypes ==
  /\ <<>> \in Seq(Actions)
  /\ \A a \in Accounts : Reacts(a) \in Seq(Actions)
  /\ \A a \in Tickers : <<[act |-> "close", ticker |-> a]>> \in Seq(Actions)
<1>1. \A a \in Handlers : [act |-> "react", who |-> a] \in Actions
  BY DEF Actions
<1>2. \A t \in Tickers : [act |-> "close", ticker |-> t] \in Actions
  BY DEF Actions
<1> QED
  BY <1>1, <1>2 DEF Reacts

LEMMA TransferType ==
  ASSUME NEW act \in {"transfer", "transfer2"}, NEW from \in Accounts, NEW to \in Accounts,
         NEW t \in Tickers, NEW q \in Amounts
  PROVE  Transfer1(act, from, to, t, q) \in Actions
BY DEF Transfer1, Actions

\* The head of the queue says who acts on what.
LEMMA HeadTypes ==
  ASSUME Inv, ~ Idle
  PROVE  /\ todo \in Seq(Actions) /\ Tail(todo) \in Seq(Actions)
         /\ Head(todo).act \in {"transfer", "transfer2"} =>
              /\ Head(todo).from \in Accounts /\ Head(todo).to \in Accounts
              /\ Head(todo).ticker \in Tickers /\ Head(todo).quantity \in Amounts
         /\ Head(todo).act = "close" => Head(todo).ticker \in Tickers
         /\ Head(todo).act = "react" => Head(todo).who \in Handlers
<1>1. todo \in Seq(Actions) /\ todo # <<>>
  BY DEF Inv, TypeOK, Idle
<1>2. Head(todo) \in Actions /\ Tail(todo) \in Seq(Actions)
  BY <1>1
<1> QED
  BY <1>1, <1>2 DEF Actions

LEMMA ActiveIsAccount == Inv => Active \subseteq Accounts
<1> SUFFICES ASSUME Inv PROVE Active \subseteq Accounts
  OBVIOUS
<1>1. CASE Idle
  BY <1>1, TokensAssumption DEF Active
<1>2. CASE ~ Idle
  BY <1>2, HeadTypes, TokensAssumption DEF Active
<1> QED
  BY <1>1, <1>2

LEMMA LaunchSettles == ASSUME Inv, Settle PROVE launch' \in Launches
<1>1. NoLaunch \in Launches
  BY DEF Launches, NoLaunch
<1> QED
  BY <1>1 DEF Inv, TypeOK, Settle

----
(* Each action preserves Inv. *)

LEMMA TransferThenInv ==
  ASSUME Inv, NEW from \in Accounts, NEW to, NEW r \in Accounts, NEW t \in Tickers,
         NEW q \in Amounts, NEW rest \in Seq(Actions),
         TransferThen(from, to, r, t, q, rest), launch' \in Launches
  PROVE  Inv'
<1> DEFINE moved == AddBalance(SubBalance(tokens[t], from, q, from), to, q, r)
           acts  == Reacts(from) \o (IF to \in Forwarders THEN Forward(to, t, q) ELSE Reacts(to))
<1>1. /\ from # to /\ to \in Accounts
      /\ CanSub(tokens[t], from, q) /\ CanAdd(tokens[t], to, q)
      /\ to \in Forwarders => Accepts(to, from, moved)
      /\ Continue([tokens EXCEPT ![t] = moved], acts, rest)
  BY DEF TransferThen, CanTransfer
<1>2. Sound(moved)
  BY <1>1, TickersSound, MoveSound
<1>3. acts \in Seq(Actions)
  <2>1. CASE to \in Forwarders
    <3>1. forwards[to].destination \in Accounts
      BY <1>1, <2>1 DEF Accepts
    <3>2. Forward(to, t, q) \in Seq(Actions)
      BY <1>1, <3>1, TransferType DEF Forward
    <3> QED
      BY <2>1, <3>2, QueueTypes
  <2>2. CASE to \notin Forwarders
    BY <1>1, <2>2, QueueTypes
  <2> QED
    BY <2>1, <2>2
<1> HIDE DEF moved, acts
<1> QED
  BY <1>1, <1>2, <1>3, ContinueOne

LEMMA Transfer2ThenInv ==
  ASSUME Inv, NEW from \in Accounts, NEW to, NEW r \in Accounts, NEW t \in Tickers,
         NEW q \in Amounts, NEW rest \in Seq(Actions),
         Transfer2Then(from, to, r, t, q, rest), launch' \in Launches
  PROVE  Inv'
<1> DEFINE moved == AddBalance(SubBalance(tokens[t], from, q, tokens[t].payer[from]), to, q, r)
           acts  == Reacts(from) \o Reacts(to)
<1>1. /\ from # to /\ to \in Accounts
      /\ CanSub(tokens[t], from, q) /\ CanAdd(tokens[t], to, q)
      /\ Continue([tokens EXCEPT ![t] = moved], acts, rest)
  BY DEF Transfer2Then, CanTransfer
<1>2. tokens[t].payer[from] \in Accounts
  BY <1>1, TickersSound, LedgerFields DEF CanSub, HasRow
<1>3. Sound(moved)
  BY <1>1, <1>2, TickersSound, MoveSound
<1>4. acts \in Seq(Actions)
  BY <1>1, QueueTypes
<1> HIDE DEF moved, acts
<1> QED
  BY <1>1, <1>3, <1>4, ContinueOne

\* Actions that leave the ledgers as they are commit the same.
LEMMA ContinueUnchanged ==
  ASSUME Inv, NEW acts \in Seq(Actions), NEW rest \in Seq(Actions),
         Continue(tokens, acts, rest), launch' \in Launches
  PROVE  Inv'
<1>1. tokens \in [Tickers -> Ledgers] /\ \A t \in Tickers : Sound(tokens[t])
  BY TickersSound DEF Inv, TypeOK
<1> QED
  BY <1>1, ContinueKeeps

LEMMA SupplyActionsInv ==
  ASSUME Inv, NEW a \in Accounts, NEW t \in Tickers, NEW q,
         \/ q \in Amounts /\ Issue(a, t, q)
         \/ q \in Amounts /\ IssueFixed(a, t, q)
         \/ q \in Amounts /\ SetMaxSupply(a, t, q)
         \/ q \in Amounts /\ Retire(a, t, q)
         \/ q \in Amounts /\ Create(a, t, q)
         \/ q \in Amounts /\ SetSupply(a, t, q)
  PROVE  Inv'
<1> DEFINE L == tokens[t]
<1>1. Sound(L) /\ L \in Ledgers /\ launch \in Launches /\ todo \in Seq(Actions)
      /\ <<>> \in Seq(Actions)
  BY TickersSound, QueueTypes DEF Inv, TypeOK
<1>2. L.supply \in Amounts /\ L.maxSupply \in Amounts /\ L.supply <= L.maxSupply
      /\ L.supply \in Nat
  BY <1>1, AmountsAreNumbers DEF Sound, AddsUp, Ledgers
<1>3. ASSUME NEW n, Issue(a, t, n), n \in Int PROVE Inv'
  <2> DEFINE M == [L EXCEPT !.supply = L.supply + n]
  <2>1. n > 0 /\ n <= L.maxSupply - L.supply /\ CanAdd(L, a, n)
        /\ Continue([tokens EXCEPT ![t] = AddBalance(M, a, n, a)], <<>>, todo)
        /\ UNCHANGED launch
    BY <1>3 DEF Issue
  <2>2. n \in Amounts /\ L.supply + n \in Amounts /\ L.supply + n <= L.maxSupply
    BY <1>2, <1>3, <2>1, MaxAmountAssumption DEF Amounts
  <2>3. M \in Ledgers /\ M.supply = L.supply + n /\ M.balance = L.balance
        /\ M.payer = L.payer /\ M.supply <= M.maxSupply
    BY <1>1, <2>2 DEF Ledgers
  <2> HIDE DEF M, L
  <2>4. Sound(AddBalance(M, a, n, a))
    BY <1>1, <2>1, <2>2, <2>3, MintSound
  <2> QED
    BY <1>1, <2>1, <2>4, ContinueOne
<1>4. CASE q \in Amounts /\ Issue(a, t, q)
  BY <1>3, <1>4, AmountsAreNumbers
<1>5. CASE q \in Amounts /\ IssueFixed(a, t, q)
  <2>1. q - L.supply \in Int
    BY <1>2, <1>5, AmountsAreNumbers
  <2> QED
    BY <1>3, <1>5, <2>1 DEF IssueFixed
<1>6. CASE q \in Amounts /\ SetMaxSupply(a, t, q)
  <2>1. q >= L.supply /\ UNCHANGED launch
        /\ Continue([tokens EXCEPT ![t] = [L EXCEPT !.maxSupply = q]], <<>>, todo)
    BY <1>6 DEF SetMaxSupply
  <2>2. Sound([L EXCEPT !.maxSupply = q])
    BY <1>1, <1>2, <1>6, <2>1, SoundWithMaximum, AmountsAreNumbers
  <2> QED
    BY <1>1, <2>1, <2>2, ContinueOne
<1>7. CASE q \in Amounts /\ Retire(a, t, q)
  <2>1. CanSub(L, a, q) /\ UNCHANGED launch
        /\ Continue([tokens EXCEPT
                       ![t] = SubBalance([L EXCEPT !.supply = L.supply - q], a, q, a)], <<>>, todo)
    BY <1>7 DEF Retire
  <2>2. Sound(SubBalance([L EXCEPT !.supply = L.supply - q], a, q, a))
    BY <1>1, <1>7, <2>1, BurnSound
  <2> QED
    BY <1>1, <2>1, <2>2, ContinueOne
<1>8. CASE q \in Amounts /\ Create(a, t, q)
  <2>1. L.maxSupply = 0 /\ UNCHANGED launch
        /\ Continue([tokens EXCEPT ![t] = [L EXCEPT !.maxSupply = q, !.issuer = a]], <<>>, <<>>)
    BY <1>2, <1>8, AmountsAreNumbers DEF Create, Exists
  <2>2. L.supply <= q
    BY <1>2, <1>8, <2>1, AmountsAreNumbers
  <2>3. Sound([L EXCEPT !.maxSupply = q, !.issuer = a])
    BY <1>1, <1>8, <2>2, SoundWithMaximum
  <2> QED
    BY <1>1, <2>1, <2>3, ContinueOne
<1>9. CASE q \in Amounts /\ SetSupply(a, t, q)
  <2> DEFINE M == [L EXCEPT !.supply = q, !.maxSupply = q, !.issuer = tokenRegistry]
  <2>1. L.maxSupply = 0 /\ CanAdd(L, Self, q) /\ UNCHANGED launch
        /\ Continue([tokens EXCEPT ![t] = AddBalance(M, Self, q, a)], <<>>, todo)
        /\ tokenRegistry \in Accounts /\ Self \in Accounts
    BY <1>2, <1>9, AmountsAreNumbers, TokensAssumption DEF SetSupply, Exists, IsOurs
  <2>2. L.supply = 0 /\ q \in Nat
    BY <1>2, <1>9, <2>1, AmountsAreNumbers
  <2>3. M \in Ledgers /\ M.supply = L.supply + q /\ M.balance = L.balance
        /\ M.payer = L.payer /\ M.supply <= M.maxSupply
    <3>1. M \in Ledgers
      BY <1>1, <1>9, <2>1 DEF Ledgers
    <3>2. M.supply = q /\ M.maxSupply = q /\ M.balance = L.balance /\ M.payer = L.payer
      BY <1>1 DEF Ledgers
    <3> QED
      BY <2>2, <3>1, <3>2
  <2> HIDE DEF M, L
  <2>4. Sound(AddBalance(M, Self, q, a))
    BY <1>1, <1>9, <2>1, <2>3, MintSound
  <2> QED
    BY <1>1, <2>1, <2>4, ContinueOne
<1> QED
  BY <1>4, <1>5, <1>6, <1>7, <1>8, <1>9

LEMMA CloseThenInv ==
  ASSUME Inv, NEW a \in Accounts, NEW t \in Tickers, NEW rest \in Seq(Actions),
         CloseThen(a, t, rest), launch' \in Launches
  PROVE  Inv'
<1>1. tokens[t].balance[a] = 0
      /\ Continue([tokens EXCEPT ![t] = [tokens[t] EXCEPT !.payer[a] = NoAccount]], <<>>, rest)
  BY DEF CloseThen, CanClose
<1>2. Sound([tokens[t] EXCEPT !.payer[a] = NoAccount])
  BY <1>1, TickersSound, SoundWithRow
<1> QED
  BY <1>1, <1>2, ContinueOne, QueueTypes

LEMMA RowActionsInv ==
  ASSUME Inv, NEW a \in Accounts, NEW t \in Tickers,
         \/ Close(a, t)
         \/ \E owner \in Accounts : Open(owner, t, a)
  PROVE  Inv'
<1>1. launch \in Launches /\ todo \in Seq(Actions)
  BY DEF Inv, TypeOK
<1>2. CASE Close(a, t)
  BY <1>1, <1>2, CloseThenInv DEF Close
<1>3. ASSUME NEW owner \in Accounts, Open(owner, t, a) PROVE Inv'
  <2>1. UNCHANGED launch
        /\ Continue([tokens EXCEPT ![t] = [tokens[t] EXCEPT !.payer[owner] = a]], <<>>, todo)
    BY <1>3 DEF Open
  <2>2. Sound([tokens[t] EXCEPT !.payer[owner] = a])
    BY TickersSound, SoundWithRow, TokensAssumption
  <2> QED
    BY <1>1, <2>1, <2>2, ContinueOne, QueueTypes
<1> QED
  BY <1>2, <1>3

LEMMA DistributeInv ==
  ASSUME Inv, NEW a \in Accounts, NEW t \in Tickers, NEW n \in Nat,
         NEW allocations \in [1 .. n -> Allocations], Distribute(a, t, allocations)
  PROVE  Inv'
<1> DEFINE acts == [i \in 1 .. Len(allocations) |->
                      Transfer1("transfer", Self, allocations[i].receiver, t,
                                allocations[i].quantity)]
<1>1. allocations \in Seq(Allocations) /\ Len(allocations) = n
  OBVIOUS
<1>2. \A i \in 1 .. n : allocations[i].receiver \in Accounts /\ allocations[i].quantity \in Amounts
  BY DEF Allocations
<1>3. \A i \in 1 .. n :
        Transfer1("transfer", Self, allocations[i].receiver, t, allocations[i].quantity) \in Actions
  BY <1>2, TransferType, TokensAssumption
<1>4. acts \in Seq(Actions)
  BY <1>1, <1>3
<1>5. acts \o <<[act |-> "close", ticker |-> t]>> \in Seq(Actions)
  BY <1>4, QueueTypes
<1>6. Continue(tokens, acts \o <<[act |-> "close", ticker |-> t]>>, todo)
  BY DEF Distribute
<1>7. launch' \in Launches /\ todo \in Seq(Actions)
  BY <1>1 DEF Distribute, Launches, Inv, TypeOK
<1> HIDE DEF acts
<1> QED
  BY <1>5, <1>6, <1>7, ContinueUnchanged

LEMMA PendingInv == Inv /\ (Pending \/ Abort) => Inv'
<1> SUFFICES ASSUME Inv, Pending \/ Abort PROVE Inv'
  OBVIOUS
<1>1. CASE InlineTransfer
  <2>1. launch' \in Launches
    BY <1>1, LaunchSettles DEF InlineTransfer
  <2> QED
    BY <1>1, <2>1, HeadTypes, TransferThenInv DEF InlineTransfer
<1>2. CASE InlineTransfer2
  <2>1. launch' \in Launches
    BY <1>2, LaunchSettles DEF InlineTransfer2
  <2> QED
    BY <1>2, <2>1, HeadTypes, Transfer2ThenInv DEF InlineTransfer2
<1>3. CASE InlineClose
  <2>1. launch' \in Launches
    BY <1>3, LaunchSettles DEF InlineClose
  <2> QED
    BY <1>3, <2>1, HeadTypes, CloseThenInv, TokensAssumption DEF InlineClose
<1>4. CASE EndReaction
  <2>1. launch' \in Launches
    BY <1>4, LaunchSettles DEF EndReaction
  <2> QED
    BY <1>4, <2>1, HeadTypes, ContinueUnchanged, QueueTypes DEF EndReaction
<1>5. CASE Abort
  <2>1. launch' \in Launches /\ todo' \in Seq(Actions)
    BY <1>5, QueueTypes DEF Abort, Launches, NoLaunch
  <2> QED
    BY <1>5, <2>1 DEF Abort, Inv, TypeOK, SupplyConserved
<1> QED
  BY <1>1, <1>2, <1>3, <1>4, <1>5 DEF Pending

LEMMA ActionInv == ASSUME Inv, NEW a \in Accounts, ActionOf(a) PROVE Inv'
<1>1. launch \in Launches /\ todo \in Seq(Actions)
  BY DEF Inv, TypeOK
<1>2. ASSUME NEW t \in Tickers, NEW q \in Amounts, NEW to \in Accounts,
             Transfer(a, to, t, q) \/ Transfer2(a, to, t, q)
      PROVE  Inv'
  <2>1. Payers(a, to) \subseteq Accounts
    BY TokensAssumption DEF Payers
  <2>2. CASE Transfer(a, to, t, q)
    BY <1>1, <2>1, <2>2, TransferThenInv DEF Transfer
  <2>3. CASE Transfer2(a, to, t, q)
    BY <1>1, <2>1, <2>3, Transfer2ThenInv DEF Transfer2
  <2> QED
    BY <1>2, <2>2, <2>3
<1>3. ASSUME NEW n \in 1 .. MaxAllocations, NEW t \in Tickers,
             NEW allocations \in [1 .. n -> Allocations], Distribute(a, t, allocations)
      PROVE  Inv'
  BY <1>3, DistributeInv, TokensAssumption
<1> QED
  BY <1>2, <1>3, SupplyActionsInv, RowActionsInv DEF ActionOf

LEMMA SetupInv == Inv /\ Setup => Inv'
<1> SUFFICES ASSUME Inv, Setup PROVE Inv'
  OBVIOUS
<1>1. ASSUME NEW issuer \in Accounts, NEW t \in Tickers, NEW max \in Amounts,
             Create(issuer, t, max)
      PROVE  Inv'
  BY <1>1, SupplyActionsInv
<1>2. ASSUME NEW r \in {NoAccount, Registry}, SetConfig(r) PROVE Inv'
  BY <1>2 DEF SetConfig, Inv, TypeOK, SupplyConserved
<1>3. ASSUME NEW t \in Tickers, NEW row \in Registrations, RegistryChange(t, row) PROVE Inv'
  BY <1>3 DEF RegistryChange, Inv, TypeOK, SupplyConserved
<1>4. ASSUME NEW f \in Forwarders, NEW forward \in Forwards, SetForward(f, forward) PROVE Inv'
  BY <1>4 DEF SetForward, Inv, TypeOK, SupplyConserved
<1> QED
  BY <1>1, <1>2, <1>3, <1>4 DEF Setup

LEMMA InitInv == Init => Inv
<1> SUFFICES ASSUME Init PROVE Inv
  OBVIOUS
<1>1. NoLedger \in Ledgers
  BY AmountsAreNumbers DEF NoLedger, Ledgers
<1>2. AddsUp(NoLedger)
  BY TotalZero DEF NoLedger, AddsUp, HasRow
<1>3. /\ NoForward \in Forwards /\ Unregistered \in Registrations
      /\ NoLaunch \in Launches /\ todo \in Seq(Actions)
  BY QueueTypes DEF Init, NoForward, Forwards, Registrations, Launches, NoLaunch
<1> QED
  BY <1>1, <1>2, <1>3 DEF Init, Inv, TypeOK, SupplyConserved

LEMMA NextInv == Inv /\ [Next]_vars => Inv'
<1> SUFFICES ASSUME Inv, [Next]_vars PROVE Inv'
  OBVIOUS
<1>1. CASE UNCHANGED vars
  BY <1>1 DEF vars, Inv, TypeOK, SupplyConserved
<1>2. ASSUME NEW a \in Active, ActionOf(a) PROVE Inv'
  BY <1>2, ActiveIsAccount, ActionInv
<1> QED
  BY <1>1, <1>2, SetupInv, PendingInv DEF Next

LEMMA InvAlways == Spec => []Inv
BY InitInv, NextInv, PTL DEF Spec

----
(* The queue of a distribution.  Units and places as in a table's total, places *)
(* counted from the end of the queue, so that what is put in front moves none. *)

\* The units that the actions of X in a queue are to move.
UnitsOf(queue, X) ==
  {u \in (1 .. Len(queue)) \X (1 .. MaxAmount) :
     /\ queue[Len(queue) + 1 - u[1]] \in X
     /\ u[2] <= queue[Len(queue) + 1 - u[1]].quantity}

Amount(queue, X) == Cardinality(UnitsOf(queue, X))

\* The pending actions that bring tokens of t to a in the end, and those that
\* take some from it.  A payment to a forwarder is passed on to its destination.
Inflow(t, a) ==
  {x \in Actions : x.act = "transfer" /\ x.ticker = t /\ Destination(x.to) = a}
    \cup {x \in Actions : x.act = "transfer2" /\ x.ticker = t /\ x.to = a}
Outflow(t, a) == {x \in Actions : x.act = "transfer2" /\ x.ticker = t /\ x.from = a}

CloseOf(t) == [act |-> "close", ticker |-> t]

\* Only the contract's own transfers are pending, and a distribution ends with
\* the close of its ticker.
Ordered ==
  /\ \A i \in 1 .. Len(todo) : todo[i].act = "transfer" => todo[i].from = Self
  /\ Idle => launch = NoLaunch /\ committed = tokens
  /\ launch # NoLaunch => launch.ticker \in Tickers /\ todo[Len(todo)] = CloseOf(launch.ticker)

\* What an account has and is to get covers what it is due and is to pass on.
Deliverable ==
  launch # NoLaunch =>
    \A a \in Accounts \ ({Self} \cup Handlers) :
      tokens[launch.ticker].balance[a] + Amount(todo, Inflow(launch.ticker, a))
        >= committed[launch.ticker].balance[a] + Due(a)
             + Amount(todo, Outflow(launch.ticker, a))

\* While no notified contract acts but the forwarders, it is equal to it.
ExactlyDeliverable ==
  launch # NoLaunch =>
    \A a \in Accounts \ {Self} :
      tokens[launch.ticker].balance[a] + Amount(todo, Inflow(launch.ticker, a))
        = committed[launch.ticker].balance[a] + Due(a)
            + Amount(todo, Outflow(launch.ticker, a))

\* The contracts whose memory is at stake.
Contracts == {Self} \cup Forwarders

\* The contract's own payments of t.
Paying(t) == {x \in Actions : x.act = "transfer" /\ x.ticker = t}

\* What distribute has checked stays true of what is left of a distribution to
\* ordinary receivers: the contract holds exactly what is still to be paid, and
\* every payment goes to an open row of an account that queues nothing.
Accepted ==
  (launch # NoLaunch /\ OrdinaryReceivers) =>
    LET t == launch.ticker IN
      /\ Exists(t) /\ HasRow(tokens[t], Self)
      /\ tokens[t].balance[Self] = Amount(todo, Paying(t))
      /\ Len(todo) <= MaxPending
      /\ \A i \in 1 .. Len(todo) - 1 :
           /\ todo[i].act = "transfer" /\ todo[i].ticker = t /\ todo[i].quantity > 0
           /\ todo[i].to \notin Handlers \cup Contracts
           /\ HasRow(tokens[t], todo[i].to)

\* While no contract reacts: only the distribution's own row may be at the
\* contract's expense, until it is closed, and every pending payment finds the
\* row of its receiver.
Billed ==
  /\ \A t \in Tickers, a \in Accounts : committed[t].payer[a] \notin Contracts
  /\ \A t \in Tickers, a \in Accounts : tokens[t].payer[a] \in Contracts =>
        a = Self /\ launch # NoLaunch /\ t = launch.ticker
  /\ \A i \in 1 .. Len(todo) :
        /\ i < Len(todo) => todo[i].act \in {"transfer", "transfer2"}
        /\ launch = NoLaunch => todo[i].act = "transfer2"
        /\ todo[i].act = "transfer" => todo[i].ticker = launch.ticker
        /\ todo[i].act \in {"transfer", "transfer2"} =>
             HasRow(tokens[todo[i].ticker], todo[i].to)

----
(* Queues and the units in them. *)

LEMMA FrontOf ==
  ASSUME NEW acts \in Seq(Actions), NEW q \in Seq(Actions)
  PROVE  /\ acts \o q \in Seq(Actions) /\ Len(acts) \in Nat /\ Len(q) \in Nat
         /\ Len(acts \o q) = Len(acts) + Len(q)
         /\ \A i \in 1 .. Len(acts) : (acts \o q)[i] = acts[i]
         /\ \A i \in 1 .. Len(q) : (acts \o q)[Len(acts) + i] = q[i]
         /\ \A i \in 1 .. Len(acts) + Len(q) :
              i \in 1 .. Len(acts) \/ i - Len(acts) \in 1 .. Len(q)
         /\ q = <<>> <=> Len(q) = 0
<1> DEFINE p == acts \o q
<1>1. Len(acts) \in Nat /\ Len(q) \in Nat /\ (q = <<>> <=> Len(q) = 0)
  BY LenProperties, EmptySeq
<1>2. /\ p \in Seq(Actions) /\ Len(p) = Len(acts) + Len(q)
      /\ \A i \in 1 .. Len(acts) + Len(q) :
           p[i] = IF i <= Len(acts) THEN acts[i] ELSE q[i - Len(acts)]
  BY ConcatProperties
<1> HIDE DEF p
<1>3. \A i \in 1 .. Len(acts) : p[i] = acts[i]
  BY <1>1, <1>2
<1>4. \A i \in 1 .. Len(q) : p[Len(acts) + i] = q[i]
  <2> SUFFICES ASSUME NEW i \in 1 .. Len(q) PROVE p[Len(acts) + i] = q[i]
    OBVIOUS
  <2>1. Len(acts) + i \in 1 .. Len(acts) + Len(q) /\ ~ (Len(acts) + i <= Len(acts))
        /\ (Len(acts) + i) - Len(acts) = i
    BY <1>1
  <2> QED
    BY <1>2, <2>1
<1>5. \A i \in 1 .. Len(acts) + Len(q) :
        i \in 1 .. Len(acts) \/ i - Len(acts) \in 1 .. Len(q)
  BY <1>1
<1> QED
  BY <1>1, <1>2, <1>3, <1>4, <1>5 DEF p

LEMMA TailOf ==
  ASSUME NEW q \in Seq(Actions), q # <<>>
  PROVE  /\ Tail(q) \in Seq(Actions) /\ Len(q) \in Nat /\ Len(q) >= 1
         /\ Len(Tail(q)) = Len(q) - 1
         /\ Head(q) = q[1] /\ q[1] \in Actions
         /\ \A i \in 1 .. Len(q) - 1 : Tail(q)[i] = q[i + 1]
         /\ q = <<Head(q)>> \o Tail(q)
<1>1. Len(q) \in Nat /\ Len(q) >= 1 /\ Head(q) = q[1] /\ q[1] \in Actions
  BY HeadTailProperties, LenProperties, ElementOfSeq
<1>2. /\ Tail(q) \in Seq(Actions) /\ Len(Tail(q)) = Len(q) - 1
      /\ \A i \in 1 .. Len(q) - 1 : Tail(q)[i] = q[i + 1]
  BY HeadTailProperties
<1>3. q = <<Head(q)>> \o Tail(q)
  BY HeadTailProperties
<1> QED
  BY <1>1, <1>2, <1>3

LEMMA AmountType ==
  ASSUME NEW q \in Seq(Actions), NEW X
  PROVE  IsFiniteSet(UnitsOf(q, X)) /\ Amount(q, X) \in Nat
<1>1. IsFiniteSet(1 .. Len(q)) /\ IsFiniteSet(1 .. MaxAmount)
  BY FS_Interval, MaxAmountAssumption, LenProperties
<1>2. IsFiniteSet((1 .. Len(q)) \X (1 .. MaxAmount))
  BY <1>1, FS_Product
<1>3. UnitsOf(q, X) \subseteq (1 .. Len(q)) \X (1 .. MaxAmount)
  BY DEF UnitsOf
<1>4. IsFiniteSet(UnitsOf(q, X))
  BY <1>2, <1>3, FS_Subset
<1> QED
  BY <1>4, FS_CardinalityType DEF Amount

\* Actions put in front of a queue move no unit that is there, and those that are
\* not of X add none to X.
LEMMA AmountOfFront ==
  ASSUME NEW acts \in Seq(Actions), NEW q \in Seq(Actions), NEW X
  PROVE  /\ UnitsOf(q, X) \subseteq UnitsOf(acts \o q, X)
         /\ Amount(acts \o q, X) >= Amount(q, X)
         /\ (\A i \in 1 .. Len(acts) : acts[i] \notin X) => Amount(acts \o q, X) = Amount(q, X)
<1> DEFINE p == acts \o q
<1>1. /\ p \in Seq(Actions) /\ Len(acts) \in Nat /\ Len(q) \in Nat
      /\ Len(p) = Len(acts) + Len(q)
      /\ \A i \in 1 .. Len(acts) : p[i] = acts[i]
      /\ \A i \in 1 .. Len(q) : p[Len(acts) + i] = q[i]
  BY FrontOf
<1> HIDE DEF p
<1>2. \A k \in 1 .. Len(q) : k \in 1 .. Len(p) /\ p[Len(p) + 1 - k] = q[Len(q) + 1 - k]
  <2> SUFFICES ASSUME NEW k \in 1 .. Len(q)
               PROVE  k \in 1 .. Len(p) /\ p[Len(p) + 1 - k] = q[Len(q) + 1 - k]
    OBVIOUS
  <2>1. /\ Len(q) + 1 - k \in 1 .. Len(q) /\ k \in 1 .. Len(p)
        /\ Len(p) + 1 - k = Len(acts) + (Len(q) + 1 - k)
    BY <1>1
  <2>2. p[Len(acts) + (Len(q) + 1 - k)] = q[Len(q) + 1 - k]
    BY <1>1, <2>1, Zenon
  <2> QED
    BY <2>1, <2>2
<1>3. UnitsOf(q, X) \subseteq UnitsOf(p, X)
  <2> SUFFICES ASSUME NEW u \in UnitsOf(q, X) PROVE u \in UnitsOf(p, X)
    OBVIOUS
  <2>1. /\ u \in (1 .. Len(q)) \X (1 .. MaxAmount) /\ u[1] \in 1 .. Len(q)
        /\ q[Len(q) + 1 - u[1]] \in X /\ u[2] <= q[Len(q) + 1 - u[1]].quantity
    BY DEF UnitsOf
  <2>2. u \in (1 .. Len(p)) \X (1 .. MaxAmount)
    BY <1>2, <2>1
  <2>3. p[Len(p) + 1 - u[1]] = q[Len(q) + 1 - u[1]]
    BY <1>2, <2>1
  <2> QED
    BY <2>1, <2>2, <2>3 DEF UnitsOf
<1>4. IsFiniteSet(UnitsOf(p, X)) /\ Amount(p, X) \in Nat /\ Amount(q, X) \in Nat
  BY <1>1, AmountType
<1>5. Amount(p, X) >= Amount(q, X)
  BY <1>3, <1>4, FS_Subset DEF Amount
<1>6. ASSUME \A i \in 1 .. Len(acts) : acts[i] \notin X
      PROVE  UnitsOf(p, X) \subseteq UnitsOf(q, X)
  <2> SUFFICES ASSUME NEW u \in UnitsOf(p, X) PROVE u \in UnitsOf(q, X)
    OBVIOUS
  <2>1. /\ u \in (1 .. Len(p)) \X (1 .. MaxAmount) /\ u[1] \in 1 .. Len(p)
        /\ p[Len(p) + 1 - u[1]] \in X /\ u[2] <= p[Len(p) + 1 - u[1]].quantity
    BY DEF UnitsOf
  <2>2. u[1] \in 1 .. Len(q)
    <3> SUFFICES ASSUME u[1] \notin 1 .. Len(q) PROVE FALSE
      OBVIOUS
    <3>1. Len(p) + 1 - u[1] \in 1 .. Len(acts)
      BY <1>1, <2>1
    <3> QED
      BY <1>1, <1>6, <2>1, <3>1
  <2>3. u \in (1 .. Len(q)) \X (1 .. MaxAmount)
    BY <2>1, <2>2
  <2>4. p[Len(p) + 1 - u[1]] = q[Len(q) + 1 - u[1]]
    BY <1>2, <2>2
  <2> QED
    BY <2>1, <2>3, <2>4 DEF UnitsOf
<1>7. (\A i \in 1 .. Len(acts) : acts[i] \notin X) => Amount(p, X) = Amount(q, X)
  <2>1. ASSUME \A i \in 1 .. Len(acts) : acts[i] \notin X
        PROVE  UnitsOf(p, X) = UnitsOf(q, X)
    BY <1>3, <1>6, <2>1
  <2> QED
    BY <2>1 DEF Amount
<1> QED
  BY <1>3, <1>5, <1>7 DEF p

\* An action of X pushed in front of a queue adds its own units.
LEMMA AmountOfPush ==
  ASSUME NEW e \in Actions, NEW q \in Seq(Actions), NEW X, e \in X => e.quantity \in Amounts
  PROVE  Amount(<<e>> \o q, X) = Amount(q, X) + (IF e \in X THEN e.quantity ELSE 0)
<1> DEFINE a == <<e>>
           p == a \o q
           new == Column(Len(q) + 1, 0, e.quantity)
<1>0. a \in Seq(Actions) /\ Len(a) = 1 /\ a[1] = e
  OBVIOUS
<1> HIDE DEF a
<1>1. CASE e \notin X
  <2>1. \A i \in 1 .. Len(a) : a[i] \notin X
    BY <1>0, <1>1
  <2>2. Amount(a \o q, X) = Amount(q, X)
    BY <1>0, <2>1, AmountOfFront
  <2>3. Amount(q, X) \in Nat
    BY AmountType
  <2> QED
    BY <1>1, <2>2, <2>3 DEF a
<1>2. CASE e \in X
  <2>0. e.quantity \in Nat /\ e.quantity <= MaxAmount
    BY <1>2, MaxAmountAssumption DEF Amounts
  <2>2. UnitsOf(q, X) \subseteq UnitsOf(p, X)
    BY <1>0, AmountOfFront
  <2>a. /\ p \in Seq(Actions) /\ Len(q) \in Nat /\ Len(p) = Len(a) + Len(q)
        /\ \A i \in 1 .. Len(a) : p[i] = a[i]
        /\ \A i \in 1 .. Len(q) : p[Len(a) + i] = q[i]
    BY <1>0, FrontOf, Zenon
  <2> HIDE DEF p
  <2>1. /\ p \in Seq(Actions) /\ Len(q) \in Nat /\ Len(p) = Len(q) + 1
        /\ p[1] = e
        /\ \A i \in 1 .. Len(q) : p[1 + i] = q[i]
    BY <1>0, <2>a
  <2>3. new \subseteq UnitsOf(p, X)
    <3> SUFFICES ASSUME NEW u \in new PROVE u \in UnitsOf(p, X)
      OBVIOUS
    <3>1. u \in {Len(q) + 1} \X (1 .. e.quantity) /\ u[1] = Len(q) + 1 /\ u[2] \in 1 .. e.quantity
      BY <2>0 DEF Column
    <3>2. u \in (1 .. Len(p)) \X (1 .. MaxAmount)
      BY <2>0, <2>1, <3>1, MaxAmountAssumption
    <3>3. Len(p) + 1 - u[1] = 1
      BY <2>1, <3>1
    <3> QED
      BY <1>2, <2>0, <2>1, <3>1, <3>2, <3>3 DEF UnitsOf
  <2>4. UnitsOf(p, X) \subseteq UnitsOf(q, X) \cup new
    <3> SUFFICES ASSUME NEW u \in UnitsOf(p, X), u \notin new PROVE u \in UnitsOf(q, X)
      OBVIOUS
    <3>1. /\ u \in (1 .. Len(p)) \X (1 .. MaxAmount) /\ u[1] \in 1 .. Len(p)
          /\ u[2] \in 1 .. MaxAmount
          /\ p[Len(p) + 1 - u[1]] \in X /\ u[2] <= p[Len(p) + 1 - u[1]].quantity
      BY DEF UnitsOf
    <3>2. u[1] # Len(q) + 1
      <4> SUFFICES ASSUME u[1] = Len(q) + 1 PROVE FALSE
        OBVIOUS
      <4>1. Len(p) + 1 - u[1] = 1
        BY <2>1
      <4>2. u[2] \in 1 .. e.quantity
        BY <2>0, <2>1, <3>1, <4>1, MaxAmountAssumption
      <4>3. u \in {Len(q) + 1} \X (0+1 .. 0+e.quantity)
        BY <2>0, <3>1, <4>2
      <4> QED
        BY <4>3 DEF Column
    <3>3. u[1] \in 1 .. Len(q)
      BY <2>1, <3>1, <3>2
    <3>4. Len(q) + 1 - u[1] \in 1 .. Len(q) /\ Len(p) + 1 - u[1] = 1 + (Len(q) + 1 - u[1])
      BY <2>1, <3>3
    <3>5. p[Len(p) + 1 - u[1]] = q[Len(q) + 1 - u[1]]
      BY <2>1, <3>4
    <3>6. u \in (1 .. Len(q)) \X (1 .. MaxAmount)
      BY <3>1, <3>3
    <3> QED
      BY <3>1, <3>5, <3>6 DEF UnitsOf
  <2>5. UnitsOf(p, X) = UnitsOf(q, X) \cup new
    BY <2>2, <2>3, <2>4
  <2>6. UnitsOf(q, X) \cap new = {}
    BY <2>1 DEF UnitsOf, Column
  <2>7. IsFiniteSet(new) /\ Cardinality(new) = e.quantity
    BY <2>0, ColumnOfUnits
  <2>8. IsFiniteSet(UnitsOf(q, X)) /\ Cardinality(UnitsOf(q, X)) \in Nat
    BY AmountType DEF Amount
  <2>9. Cardinality(UnitsOf(p, X)) = Cardinality(UnitsOf(q, X)) + e.quantity - Cardinality({})
    BY <2>5, <2>6, <2>7, <2>8, FS_Union
  <2> QED
    BY <1>2, <2>0, <2>8, <2>9, FS_EmptySet DEF Amount, p, a
<1> QED
  BY <1>1, <1>2

LEMMA AmountOfTail ==
  ASSUME NEW q \in Seq(Actions), q # <<>>, NEW X, Head(q) \in X => Head(q).quantity \in Amounts
  PROVE  Amount(q, X) = Amount(Tail(q), X) + (IF Head(q) \in X THEN Head(q).quantity ELSE 0)
<1> DEFINE h == Head(q)
           t == Tail(q)
<1>1. /\ q = <<h>> \o t /\ h \in Actions /\ t \in Seq(Actions)
      /\ h \in X => h.quantity \in Amounts
  BY TailOf
<1> HIDE DEF h, t
<1>2. Amount(<<h>> \o t, X) = Amount(t, X) + (IF h \in X THEN h.quantity ELSE 0)
  BY <1>1, AmountOfPush
<1> QED
  BY <1>1, <1>2, Zenon DEF h, t

----
(* What the actions do to what is to be delivered. *)

Others == Accounts \ ({Self} \cup Handlers)

\* The inductive invariant of the delivery.
Delivery == Inv /\ Ordered /\ Deliverable

\* A step after which the distribution under way is no worse off.
NoWorse ==
  LET t == launch.ticker IN
    launch # NoLaunch =>
      \A a \in Others :
        tokens'[t].balance[a] + Amount(todo', Inflow(t, a)) + Amount(todo, Outflow(t, a))
          >= tokens[t].balance[a] + Amount(todo, Inflow(t, a)) + Amount(todo', Outflow(t, a))

\* A step after which no account but the contract's own is better or worse off.
Even ==
  LET t == launch.ticker IN
    launch # NoLaunch =>
      \A a \in Accounts \ {Self} :
        tokens'[t].balance[a] + Amount(todo', Inflow(t, a)) + Amount(todo, Outflow(t, a))
          = tokens[t].balance[a] + Amount(todo, Inflow(t, a)) + Amount(todo', Outflow(t, a))

\* The transfers among some actions, if any, are the contract's own.
OwnTransfers(acts) ==
  \A i \in 1 .. Len(acts) : acts[i].act = "transfer" => acts[i].from = Self

LEMMA FlowTypes ==
  ASSUME NEW t, NEW a, NEW x \in Inflow(t, a) \cup Outflow(t, a)
  PROVE  /\ x \in Actions /\ x.act \in {"transfer", "transfer2"}
         /\ x.quantity \in Amounts
BY DEF Inflow, Outflow, Actions

\* Which of the two a transfer is in.
LEMMA TransferFlows ==
  ASSUME NEW act \in {"transfer", "transfer2"}, NEW from \in Accounts, NEW to \in Accounts,
         NEW t \in Tickers, NEW q \in Amounts, NEW u, NEW a
  PROVE  LET x == Transfer1(act, from, to, t, q) IN
           /\ x \in Inflow(u, a) <=> t = u /\ (IF act = "transfer" THEN Destination(to) ELSE to) = a
           /\ x \in Outflow(u, a) <=> act = "transfer2" /\ t = u /\ from = a
<1> DEFINE x == Transfer1(act, from, to, t, q)
<1>1. x \in Actions
  BY TransferType
<1>2. x.act = act /\ x.from = from /\ x.to = to /\ x.ticker = t
  BY DEF Transfer1
<1> HIDE DEF x
<1>3. x \in Inflow(u, a) <=> t = u /\ (IF act = "transfer" THEN Destination(to) ELSE to) = a
  BY <1>1, <1>2 DEF Inflow
<1>4. x \in Outflow(u, a) <=> act = "transfer2" /\ t = u /\ from = a
  BY <1>1, <1>2 DEF Outflow
<1> QED
  BY <1>3, <1>4 DEF x

\* A pending transfer is made of its fields.
LEMMA TransferIsFields ==
  ASSUME NEW x \in Actions, x.act \in {"transfer", "transfer2"}
  PROVE  /\ x = Transfer1(x.act, x.from, x.to, x.ticker, x.quantity)
         /\ x.from \in Accounts /\ x.to \in Accounts /\ x.ticker \in Tickers
         /\ x.quantity \in Amounts
BY DEF Actions, Transfer1

LEMMA ReactsNothing ==
  ASSUME NEW a \in Accounts, NEW q \in Seq(Actions), NEW t, NEW b
  PROVE  /\ Reacts(a) \in Seq(Actions) /\ Reacts(a) \o q \in Seq(Actions)
         /\ Len(Reacts(a)) \in Nat
         /\ \A i \in 1 .. Len(Reacts(a)) : Reacts(a)[i].act = "react"
         /\ Amount(Reacts(a) \o q, Inflow(t, b)) = Amount(q, Inflow(t, b))
         /\ Amount(Reacts(a) \o q, Outflow(t, b)) = Amount(q, Outflow(t, b))
<1>1. Reacts(a) \in Seq(Actions)
  BY QueueTypes
<1>2. /\ Reacts(a) \o q \in Seq(Actions) /\ Len(Reacts(a)) \in Nat
  BY <1>1, FrontOf
<1>3. \A i \in 1 .. Len(Reacts(a)) : Reacts(a)[i].act = "react"
  BY DEF Reacts
<1>4. \A i \in 1 .. Len(Reacts(a)) :
        Reacts(a)[i] \notin Inflow(t, b) /\ Reacts(a)[i] \notin Outflow(t, b)
  BY <1>3, FlowTypes
<1>5. /\ Amount(Reacts(a) \o q, Inflow(t, b)) = Amount(q, Inflow(t, b))
      /\ Amount(Reacts(a) \o q, Outflow(t, b)) = Amount(q, Outflow(t, b))
  BY <1>1, <1>4, AmountOfFront
<1> QED
  BY <1>1, <1>2, <1>3, <1>5

LEMMA ReactsAddNothing ==
  \A a \in Accounts : \A q \in Seq(Actions) : \A t \in Tickers : \A b \in Accounts :
    /\ Amount(Reacts(a) \o q, Inflow(t, b)) = Amount(q, Inflow(t, b))
    /\ Amount(Reacts(a) \o q, Outflow(t, b)) = Amount(q, Outflow(t, b))
BY ReactsNothing

\* Who has what after a transfer of q, and who pays for the rows.
LEMMA MovedFields ==
  ASSUME NEW L \in Ledgers, NEW from \in Accounts, NEW to \in Accounts, from # to,
         NEW q \in Amounts, CanSub(L, from, q), CanAdd(L, to, q),
         NEW p \in Accounts, NEW r \in Accounts
  PROVE  LET N == AddBalance(SubBalance(L, from, q, p), to, q, r) IN
           /\ N \in Ledgers /\ N.maxSupply = L.maxSupply
           /\ \A a \in Accounts :
                N.balance[a] = IF a = from THEN L.balance[a] - q
                               ELSE IF a = to THEN L.balance[a] + q ELSE L.balance[a]
           /\ \A a \in Accounts :
                N.payer[a] = IF a = from THEN p
                             ELSE IF a = to /\ ~ HasRow(L, to) THEN r ELSE L.payer[a]
<1> DEFINE S == SubBalance(L, from, q, p)
           N == AddBalance(S, to, q, r)
<1>1. /\ L.balance \in [Accounts -> Amounts] /\ q \in Nat
      /\ L.payer \in [Accounts -> Accounts \cup {NoAccount}]
      /\ L.balance[to] + q <= MaxAmount
  BY LedgerFields, AmountsAreNumbers DEF CanAdd
<1>2. /\ S \in Ledgers /\ S.maxSupply = L.maxSupply
      /\ S.balance = Debit(L.balance, from, q)
      /\ S.payer = [L.payer EXCEPT ![from] = p]
  BY SubBalanceFields
<1>3. CanAdd(S, to, q)
  BY <1>1, <1>2 DEF CanAdd, Debit
<1> HIDE DEF S
<1>4. /\ N \in Ledgers /\ N.maxSupply = S.maxSupply
      /\ N.balance = Credit(S.balance, to, q)
      /\ N.payer = [S.payer EXCEPT ![to] = IF HasRow(S, to) THEN @ ELSE r]
  BY <1>2, <1>3, AddBalanceFields
<1> HIDE DEF N
<1>5. \A a \in Accounts : L.balance[a] \in Nat
  BY <1>1, AmountsAreNumbers
<1>6. \A a \in Accounts :
        N.balance[a] = IF a = from THEN L.balance[a] - q
                       ELSE IF a = to THEN L.balance[a] + q ELSE L.balance[a]
  BY <1>1, <1>2, <1>4, <1>5 DEF Credit, Debit
<1>7. HasRow(S, to) <=> HasRow(L, to)
  BY <1>1, <1>2 DEF HasRow
<1>8. \A a \in Accounts :
        N.payer[a] = IF a = from THEN p
                     ELSE IF a = to /\ ~ HasRow(L, to) THEN r ELSE L.payer[a]
  BY <1>1, <1>2, <1>4, <1>7
<1> QED
  BY <1>2, <1>4, <1>6, <1>8 DEF N, S

----
\* What transfer leaves: the ledger L of t, and acts in front of the queue.  A
\* payment of q to an account is q more that it has, or that a forwarder is to pass
\* on and its destination to get.
TransferOutcome(from, to, t, q, rest, L, acts) ==
  /\ Sound(L) /\ to \in Accounts /\ from # to
  /\ Continue([tokens EXCEPT ![t] = L], acts, rest)
  /\ OwnTransfers(acts)
  /\ \A u \in Tickers, a \in Accounts \ {from} :
       (IF u = t THEN L ELSE tokens[u]).balance[a] + Amount(acts \o rest, Inflow(u, a))
           + Amount(rest, Outflow(u, a))
         = tokens[u].balance[a] + Amount(rest, Inflow(u, a))
             + Amount(acts \o rest, Outflow(u, a))
             + (IF t = u /\ Destination(to) = a THEN q ELSE 0)

\* The same of transfer2, which nobody passes on.
Transfer2Outcome(from, to, t, q, rest, L, acts) ==
  /\ Sound(L) /\ to \in Accounts /\ from # to
  /\ Continue([tokens EXCEPT ![t] = L], acts, rest)
  /\ OwnTransfers(acts)
  /\ \A u \in Tickers, a \in Accounts :
       /\ Amount(acts \o rest, Inflow(u, a)) = Amount(rest, Inflow(u, a))
       /\ Amount(acts \o rest, Outflow(u, a)) = Amount(rest, Outflow(u, a))
       /\ (IF u = t THEN L ELSE tokens[u]).balance[a]
              + (IF u = t /\ from = a THEN q ELSE 0)
            = tokens[u].balance[a] + (IF u = t /\ to = a THEN q ELSE 0)

LEMMA TransferEffect ==
  ASSUME Inv, NEW from \in Accounts, NEW to, NEW r \in Accounts, NEW t \in Tickers,
         NEW q \in Amounts, NEW rest \in Seq(Actions), TransferThen(from, to, r, t, q, rest)
  PROVE  \E L \in Ledgers : \E acts \in Seq(Actions) :
           TransferOutcome(from, to, t, q, rest, L, acts)
<1> DEFINE L == tokens[t]
           moved == AddBalance(SubBalance(L, from, q, from), to, q, r)
           back == IF to \in Forwarders THEN Forward(to, t, q) ELSE Reacts(to)
           front == Reacts(from)
           x == Transfer1("transfer2", to, forwards[to].destination, t, q)
<1>1. /\ from # to /\ to \in Accounts
      /\ CanSub(L, from, q) /\ CanAdd(L, to, q)
      /\ to \in Forwarders => Accepts(to, from, moved)
      /\ Continue([tokens EXCEPT ![t] = moved], front \o back, rest)
  BY DEF TransferThen, CanTransfer
<1>2. L \in Ledgers /\ q \in Nat /\ Sound(L)
      /\ tokens \in [Tickers -> Ledgers]
  BY TickersSound, AmountsAreNumbers DEF Inv, TypeOK
<1>3. Sound(moved) /\ moved \in Ledgers
  BY <1>1, <1>2, MoveSound, MovedFields
<1>4. \A a \in Accounts \ {from} :
        moved.balance[a] = IF a = to THEN L.balance[a] + q ELSE L.balance[a]
  BY <1>1, <1>2, MovedFields
<1>5. front \in Seq(Actions) /\ \A i \in 1 .. Len(front) : front[i].act = "react"
  BY ReactsNothing
<1>6. /\ back \in Seq(Actions)
      /\ \A i \in 1 .. Len(back) : back[i].act # "transfer"
      /\ \A u \in Tickers, a \in Accounts :
           /\ Amount(back \o rest, Inflow(u, a))
                = Amount(rest, Inflow(u, a))
                    + (IF to \in Forwarders /\ t = u /\ Destination(to) = a THEN q ELSE 0)
           /\ Amount(back \o rest, Outflow(u, a))
                = Amount(rest, Outflow(u, a))
                    + (IF to \in Forwarders /\ t = u /\ to = a THEN q ELSE 0)
  <2>1. CASE to \in Forwarders
    <3>1. /\ forwards[to].destination \in Accounts
          /\ Destination(to) = forwards[to].destination
      BY <1>1, <2>1 DEF Accepts, Destination
    <3>2. back = <<x>> /\ x \in Actions /\ x.act = "transfer2" /\ x.quantity = q
      BY <1>1, <2>1, <3>1, TransferType DEF Forward, Transfer1
    <3>3. \A u \in Tickers, a \in Accounts :
            /\ x \in Inflow(u, a) <=> t = u /\ Destination(to) = a
            /\ x \in Outflow(u, a) <=> t = u /\ to = a
      BY <1>1, <3>1, TransferFlows
    <3> HIDE DEF x, back, L, moved
    <3>4. /\ back \in Seq(Actions)
          /\ \A i \in 1 .. Len(back) : back[i].act # "transfer"
      BY <3>2
    <3> SUFFICES ASSUME NEW u \in Tickers, NEW a \in Accounts
                 PROVE  /\ Amount(back \o rest, Inflow(u, a))
                             = Amount(rest, Inflow(u, a))
                                 + (IF t = u /\ Destination(to) = a THEN q ELSE 0)
                        /\ Amount(back \o rest, Outflow(u, a))
                             = Amount(rest, Outflow(u, a))
                                 + (IF t = u /\ to = a THEN q ELSE 0)
      BY <2>1, <3>4
    <3>5. /\ Amount(<<x>> \o rest, Inflow(u, a))
               = Amount(rest, Inflow(u, a)) + (IF x \in Inflow(u, a) THEN x.quantity ELSE 0)
          /\ Amount(<<x>> \o rest, Outflow(u, a))
               = Amount(rest, Outflow(u, a)) + (IF x \in Outflow(u, a) THEN x.quantity ELSE 0)
      BY <3>2, AmountOfPush
    <3>6. back \o rest = <<x>> \o rest
      BY <3>2, Zenon
    <3> QED
      BY <3>2, <3>3, <3>5, <3>6
  <2>2. CASE to \notin Forwarders
    <3>1. back = Reacts(to)
      BY <2>2
    <3> HIDE DEF back, x, L, moved
    <3>2. \A u \in Tickers, a \in Accounts :
            /\ Amount(Reacts(to) \o rest, Inflow(u, a)) = Amount(rest, Inflow(u, a))
            /\ Amount(Reacts(to) \o rest, Outflow(u, a)) = Amount(rest, Outflow(u, a))
            /\ Amount(rest, Inflow(u, a)) \in Nat
            /\ Amount(rest, Outflow(u, a)) \in Nat
      BY <1>1, ReactsNothing, AmountType
    <3>3. \A i \in 1 .. Len(Reacts(to)) : Reacts(to)[i].act = "react"
      BY <1>1, ReactsNothing
    <3>4. \A u \in Tickers, a \in Accounts :
            /\ Amount(back \o rest, Inflow(u, a)) = Amount(rest, Inflow(u, a)) + 0
            /\ Amount(back \o rest, Outflow(u, a)) = Amount(rest, Outflow(u, a)) + 0
      BY <3>1, <3>2
    <3>5. back \in Seq(Actions) /\ \A i \in 1 .. Len(back) : back[i].act # "transfer"
      BY <1>1, <3>1, <3>3, QueueTypes
    <3> QED
      BY <2>2, <3>4, <3>5, Zenon
  <2> QED
    BY <2>1, <2>2
<1> HIDE DEF x, back, front, L, moved
<1>7. front \o back \in Seq(Actions) /\ OwnTransfers(front \o back)
  <2>1. /\ front \o back \in Seq(Actions)
        /\ \A i \in 1 .. Len(front) : (front \o back)[i] = front[i]
        /\ \A i \in 1 .. Len(back) : (front \o back)[Len(front) + i] = back[i]
        /\ Len(front) \in Nat /\ Len(back) \in Nat
        /\ Len(front \o back) = Len(front) + Len(back)
    BY <1>5, <1>6, FrontOf
  <2>2. ASSUME NEW i \in 1 .. Len(front \o back) PROVE (front \o back)[i].act # "transfer"
    <3>1. CASE i \in 1 .. Len(front)
      BY <1>5, <2>1, <3>1
    <3>2. CASE i \notin 1 .. Len(front)
      <4>1. i - Len(front) \in 1 .. Len(back) /\ i = Len(front) + (i - Len(front))
        BY <2>1, <3>2
      <4> QED
        BY <1>6, <2>1, <4>1
    <3> QED
      BY <3>1, <3>2
  <2> QED
    BY <2>1, <2>2 DEF OwnTransfers
<1>8. \A u \in Tickers, a \in Accounts :
        /\ Amount((front \o back) \o rest, Inflow(u, a)) = Amount(back \o rest, Inflow(u, a))
        /\ Amount((front \o back) \o rest, Outflow(u, a)) = Amount(back \o rest, Outflow(u, a))
  <2>1. (front \o back) \o rest = front \o (back \o rest)
    BY <1>5, <1>6, ConcatAssociative
  <2>2. back \o rest \in Seq(Actions)
    BY <1>6, FrontOf
  <2>3. \A u \in Tickers, a \in Accounts :
          /\ Amount(front \o (back \o rest), Inflow(u, a)) = Amount(back \o rest, Inflow(u, a))
          /\ Amount(front \o (back \o rest), Outflow(u, a)) = Amount(back \o rest, Outflow(u, a))
    BY <2>2, ReactsAddNothing, Zenon DEF front
  <2> QED
    BY <2>1, <2>3, Zenon
<1>9. ASSUME NEW u \in Tickers, NEW a \in Accounts \ {from}
      PROVE  (IF u = t THEN moved ELSE tokens[u]).balance[a]
                 + Amount((front \o back) \o rest, Inflow(u, a)) + Amount(rest, Outflow(u, a))
               = tokens[u].balance[a] + Amount(rest, Inflow(u, a))
                   + Amount((front \o back) \o rest, Outflow(u, a))
                   + (IF t = u /\ Destination(to) = a THEN q ELSE 0)
  <2> DEFINE I0 == Amount(rest, Inflow(u, a))
             O0 == Amount(rest, Outflow(u, a))
             I1 == Amount((front \o back) \o rest, Inflow(u, a))
             O1 == Amount((front \o back) \o rest, Outflow(u, a))
             now == (IF u = t THEN moved ELSE tokens[u]).balance[a]
             was == tokens[u].balance[a]
  <2>1. I0 \in Nat /\ O0 \in Nat
    BY AmountType
  <2>2. /\ I1 = I0 + (IF to \in Forwarders /\ t = u /\ Destination(to) = a THEN q ELSE 0)
        /\ O1 = O0 + (IF to \in Forwarders /\ t = u /\ to = a THEN q ELSE 0)
    BY <1>6, <1>8
  <2>3. was \in Nat
    BY <1>2, LedgerFields, AmountsAreNumbers
  <2>4. now = was + (IF t = u /\ a = to THEN q ELSE 0)
    BY <1>2, <1>4, <2>3 DEF L
  <2>5. to \notin Forwarders => Destination(to) = to
    BY DEF Destination
  <2> HIDE DEF I0, O0, I1, O1, now, was
  <2>6. now + I1 + O0 = was + I0 + O1 + (IF t = u /\ Destination(to) = a THEN q ELSE 0)
    BY <1>2, <2>1, <2>2, <2>3, <2>4, <2>5
  <2> QED
    BY <2>6 DEF I0, O0, I1, O1, now, was
<1>10. \A u \in Tickers, a \in Accounts \ {from} :
         (IF u = t THEN moved ELSE tokens[u]).balance[a]
             + Amount((front \o back) \o rest, Inflow(u, a)) + Amount(rest, Outflow(u, a))
           = tokens[u].balance[a] + Amount(rest, Inflow(u, a))
               + Amount((front \o back) \o rest, Outflow(u, a))
               + (IF t = u /\ Destination(to) = a THEN q ELSE 0)
  BY <1>9, Zenon
<1> QED
  BY <1>1, <1>3, <1>7, <1>10, Zenon DEF TransferOutcome

LEMMA Transfer2Effect ==
  ASSUME Inv, NEW from \in Accounts, NEW to, NEW r \in Accounts, NEW t \in Tickers,
         NEW q \in Amounts, NEW rest \in Seq(Actions), Transfer2Then(from, to, r, t, q, rest)
  PROVE  \E L \in Ledgers : \E acts \in Seq(Actions) :
           Transfer2Outcome(from, to, t, q, rest, L, acts)
<1> DEFINE L == tokens[t]
           moved == AddBalance(SubBalance(L, from, q, L.payer[from]), to, q, r)
           front == Reacts(from)
           back == Reacts(to)
<1>1. /\ from # to /\ to \in Accounts
      /\ CanSub(L, from, q) /\ CanAdd(L, to, q)
      /\ Continue([tokens EXCEPT ![t] = moved], front \o back, rest)
  BY DEF Transfer2Then, CanTransfer
<1>2. L \in Ledgers /\ q \in Nat /\ Sound(L)
      /\ tokens \in [Tickers -> Ledgers] /\ L.payer[from] \in Accounts
  BY <1>1, TickersSound, LedgerFields, AmountsAreNumbers DEF Inv, TypeOK, CanSub, HasRow
<1>3. Sound(moved) /\ moved \in Ledgers
  BY <1>1, <1>2, MoveSound, MovedFields
<1>4. \A a \in Accounts :
        moved.balance[a] = IF a = from THEN L.balance[a] - q
                           ELSE IF a = to THEN L.balance[a] + q ELSE L.balance[a]
  BY <1>1, <1>2, MovedFields
<1>5. /\ front \in Seq(Actions) /\ \A i \in 1 .. Len(front) : front[i].act = "react"
      /\ back \in Seq(Actions) /\ \A i \in 1 .. Len(back) : back[i].act = "react"
  BY <1>1, ReactsNothing
<1> HIDE DEF L, moved
<1>6. \A u \in Tickers, a \in Accounts :
        /\ Amount((front \o back) \o rest, Inflow(u, a)) = Amount(rest, Inflow(u, a))
        /\ Amount((front \o back) \o rest, Outflow(u, a)) = Amount(rest, Outflow(u, a))
  <2>1. (front \o back) \o rest = front \o (back \o rest)
    BY <1>5, ConcatAssociative
  <2>2. back \o rest \in Seq(Actions)
    BY <1>1, ReactsNothing
  <2>3. \A u \in Tickers, a \in Accounts :
          /\ Amount(front \o (back \o rest), Inflow(u, a)) = Amount(back \o rest, Inflow(u, a))
          /\ Amount(front \o (back \o rest), Outflow(u, a)) = Amount(back \o rest, Outflow(u, a))
    BY <2>2, ReactsAddNothing, Zenon
  <2>4. \A u \in Tickers, a \in Accounts :
          /\ Amount(back \o rest, Inflow(u, a)) = Amount(rest, Inflow(u, a))
          /\ Amount(back \o rest, Outflow(u, a)) = Amount(rest, Outflow(u, a))
    BY <1>1, ReactsAddNothing, Zenon
  <2> HIDE DEF front, back
  <2> QED
    BY <2>1, <2>3, <2>4, ZenonT(60)
<1> HIDE DEF front, back
<1>7. front \o back \in Seq(Actions) /\ OwnTransfers(front \o back)
  <2>1. /\ front \o back \in Seq(Actions)
        /\ \A i \in 1 .. Len(front) : (front \o back)[i] = front[i]
        /\ \A i \in 1 .. Len(back) : (front \o back)[Len(front) + i] = back[i]
        /\ Len(front) \in Nat /\ Len(back) \in Nat
        /\ Len(front \o back) = Len(front) + Len(back)
    BY <1>5, FrontOf
  <2>2. ASSUME NEW i \in 1 .. Len(front \o back) PROVE (front \o back)[i].act # "transfer"
    <3>1. CASE i \in 1 .. Len(front)
      BY <1>5, <2>1, <3>1
    <3>2. CASE i \notin 1 .. Len(front)
      <4>1. i - Len(front) \in 1 .. Len(back) /\ i = Len(front) + (i - Len(front))
        BY <2>1, <3>2
      <4> QED
        BY <1>5, <2>1, <4>1
    <3> QED
      BY <3>1, <3>2
  <2> QED
    BY <2>1, <2>2 DEF OwnTransfers
<1>8. \A u \in Tickers, a \in Accounts :
        (IF u = t THEN moved ELSE tokens[u]).balance[a] + (IF u = t /\ from = a THEN q ELSE 0)
          = tokens[u].balance[a] + (IF u = t /\ to = a THEN q ELSE 0)
  <2> SUFFICES ASSUME NEW u \in Tickers, NEW a \in Accounts
               PROVE  (IF u = t THEN moved ELSE tokens[u]).balance[a]
                          + (IF u = t /\ from = a THEN q ELSE 0)
                        = tokens[u].balance[a] + (IF u = t /\ to = a THEN q ELSE 0)
    OBVIOUS
  <2>1. tokens[u].balance[a] \in Nat
    BY <1>2, LedgerFields, AmountsAreNumbers
  <2> QED
    BY <1>1, <1>2, <1>4, <2>1 DEF L
<1> QED
  BY <1>1, <1>3, <1>6, <1>7, <1>8, ZenonT(60) DEF Transfer2Outcome

----
\* What is left of the queue when an action's turn comes, and who queues it.
Rest(rest) == rest = todo \/ (~ Idle /\ rest = Tail(todo))

LEMMA RestType == ASSUME Inv, NEW rest, Rest(rest) PROVE rest \in Seq(Actions)
BY TailOf DEF Inv, TypeOK, Rest, Idle

\* The queue keeps its order and its last action.
LEMMA OrderedStep ==
  ASSUME Inv, Ordered, NEW new, NEW acts \in Seq(Actions), OwnTransfers(acts),
         NEW rest, Rest(rest), Continue(new, acts, rest), Settle,
         ~ Idle /\ Head(todo).act = "close" => acts = <<>>
  PROVE  Ordered'
<1>1. /\ todo \in Seq(Actions) /\ rest \in Seq(Actions)
      /\ todo' = acts \o rest /\ tokens' = new
      /\ committed' = IF todo' = <<>> THEN new ELSE committed
      /\ launch' = IF todo' = <<>> THEN NoLaunch ELSE launch
  BY RestType DEF Inv, TypeOK, Continue, Settle
<1>2. /\ todo' \in Seq(Actions) /\ Len(acts) \in Nat /\ Len(rest) \in Nat
      /\ Len(todo') = Len(acts) + Len(rest)
      /\ \A i \in 1 .. Len(acts) : todo'[i] = acts[i]
      /\ \A i \in 1 .. Len(rest) : todo'[Len(acts) + i] = rest[i]
      /\ \A i \in 1 .. Len(acts) + Len(rest) :
           i \in 1 .. Len(acts) \/ i - Len(acts) \in 1 .. Len(rest)
      /\ rest = <<>> <=> Len(rest) = 0
  BY <1>1, FrontOf
<1>3. /\ \A i \in 1 .. Len(rest) : rest[i].act = "transfer" => rest[i].from = Self
      /\ rest # <<>> => todo # <<>> /\ rest[Len(rest)] = todo[Len(todo)]
  <2>1. CASE rest = todo
    BY <2>1 DEF Ordered
  <2>2. CASE ~ Idle /\ rest = Tail(todo)
    <3>1. /\ Len(todo) \in Nat /\ Len(rest) = Len(todo) - 1 /\ todo # <<>>
          /\ \A i \in 1 .. Len(todo) - 1 : rest[i] = todo[i + 1]
      BY <1>1, <2>2, TailOf DEF Idle
    <3>2. \A i \in 1 .. Len(rest) : i + 1 \in 1 .. Len(todo) /\ rest[i] = todo[i + 1]
      BY <3>1
    <3>3. rest # <<>> => Len(rest) \in 1 .. Len(rest) /\ Len(rest) + 1 = Len(todo)
      BY <1>2, <3>1
    <3> QED
      BY <3>1, <3>2, <3>3 DEF Ordered
  <2> QED
    BY <2>1, <2>2 DEF Rest
<1>4. \A i \in 1 .. Len(todo') : todo'[i].act = "transfer" => todo'[i].from = Self
  <2> SUFFICES ASSUME NEW i \in 1 .. Len(todo'), todo'[i].act = "transfer"
               PROVE  todo'[i].from = Self
    OBVIOUS
  <2>1. CASE i \in 1 .. Len(acts)
    BY <1>2, <2>1 DEF OwnTransfers
  <2>2. CASE i - Len(acts) \in 1 .. Len(rest)
    <3>1. i = Len(acts) + (i - Len(acts))
      BY <1>2
    <3>2. todo'[i] = rest[i - Len(acts)]
      BY <1>2, <2>2, <3>1
    <3> QED
      BY <1>3, <2>2, <3>2
  <2> QED
    BY <1>2, <2>1, <2>2
<1>5. todo' = <<>> => launch' = NoLaunch /\ committed' = tokens'
  BY <1>1
<1>6. ASSUME launch' # NoLaunch, acts = <<>> \/ rest # <<>>
      PROVE  launch'.ticker \in Tickers /\ todo'[Len(todo')] = CloseOf(launch'.ticker)
  <2>1. todo' # <<>> /\ launch' = launch
    BY <1>1, <1>6
  <2>2. rest # <<>>
    <3>1. CASE acts = <<>>
      BY <1>1, <2>1, <3>1
    <3> QED
      BY <1>6, <3>1
  <2>3. Len(rest) \in 1 .. Len(rest)
    BY <1>2, <2>2
  <2>4. todo'[Len(todo')] = rest[Len(rest)]
    BY <1>2, <2>3
  <2> QED
    BY <1>3, <1>6, <2>1, <2>2, <2>4 DEF Ordered
<1>7. launch' # NoLaunch => acts = <<>> \/ rest # <<>>
  <2> SUFFICES ASSUME launch' # NoLaunch, rest = <<>> PROVE acts = <<>>
    OBVIOUS
  <2>1. launch = launch' /\ launch # NoLaunch
    BY <1>1
  <2>2. ~ Idle /\ rest = Tail(todo)
    BY <2>1 DEF Rest, Ordered, Idle
  <2>3. Len(todo) = 1 /\ Head(todo) = todo[1]
    <3>1. Len(rest) = Len(todo) - 1 /\ Len(todo) \in Nat /\ Head(todo) = todo[1]
      BY <1>1, <2>2, TailOf DEF Idle
    <3> QED
      BY <1>2, <3>1
  <2>4. Head(todo) = CloseOf(launch.ticker)
    BY <2>1, <2>3 DEF Ordered
  <2> QED
    BY <2>2, <2>4 DEF CloseOf
<1> QED
  BY <1>4, <1>5, <1>6, <1>7 DEF Ordered, Idle

\* What is due is a number.
LEMMA DueType == ASSUME Inv, NEW a PROVE Due(a) \in Nat
<1> DEFINE A == {r \in Accounts : Destination(r) = a}
           D == {j \in DOMAIN launch.allocations : launch.allocations[j].receiver \in A}
           f == [i \in D |-> launch.allocations[i].quantity]
<1>1. launch.allocations \in Seq(Allocations)
  <2>1. launch \in Launches /\ <<>> \in Seq(Allocations)
    BY EmptySeq DEF Inv, TypeOK
  <2>2. CASE launch \in [ticker : Tickers, allocations : Seq(Allocations)]
    BY <2>2
  <2>3. CASE launch = NoLaunch
    <3>1. launch.allocations = <<>>
      BY <2>3 DEF NoLaunch
    <3> QED
      BY <2>1, <3>1
  <2> QED
    BY <2>1, <2>2, <2>3 DEF Launches, NoLaunch
<1>2. /\ DOMAIN launch.allocations = 1 .. Len(launch.allocations)
      /\ Len(launch.allocations) \in Nat
      /\ \A i \in DOMAIN launch.allocations : launch.allocations[i] \in Allocations
  BY <1>1, LenProperties, ElementOfSeq
<1>3. IsFiniteSet(1 .. Len(launch.allocations)) /\ D \subseteq 1 .. Len(launch.allocations)
  BY <1>2, FS_Interval
<1>4. IsFiniteSet(D)
  BY <1>3, FS_Subset
<1>5. f \in [D -> Amounts]
  BY <1>2 DEF Allocations
<1>6. Total(f) \in Nat
  BY <1>4, <1>5, TotalType
<1> QED
  BY <1>6 DEF Due, AllottedTo

LEMMA DeliveryStep ==
  ASSUME Delivery, Inv', NEW new, NEW acts \in Seq(Actions), OwnTransfers(acts),
         NEW rest, Rest(rest), Continue(new, acts, rest), Settle,
         ~ Idle /\ Head(todo).act = "close" => acts = <<>>,
         NoWorse
  PROVE  Delivery'
<1>1. Ordered'
  BY OrderedStep DEF Delivery
<1>2. /\ forwards' = forwards
      /\ launch' = (IF todo' = <<>> THEN NoLaunch ELSE launch)
      /\ todo' # <<>> => committed' = committed
  BY DEF Continue, Settle
<1>3. Deliverable'
  <2> SUFFICES ASSUME launch' # NoLaunch, NEW a \in Others
               PROVE  (tokens[launch.ticker].balance[a] + Amount(todo, Inflow(launch.ticker, a))
                         >= committed[launch.ticker].balance[a] + Due(a)
                              + Amount(todo, Outflow(launch.ticker, a)))'
    BY DEF Deliverable, Others
  <2>1. launch' = launch /\ committed' = committed /\ launch # NoLaunch
    BY <1>2
  <2>2. Due(a)' = Due(a)
    BY <1>2, <2>1 DEF Due, Destination
  <2> DEFINE t == launch.ticker
  <2>3. /\ Inflow(launch.ticker, a)' = Inflow(t, a)
        /\ Outflow(launch.ticker, a)' = Outflow(t, a)
    BY <1>2, <2>1 DEF Inflow, Outflow, Destination
  <2>4. t \in Tickers
    BY <2>1 DEF Delivery, Ordered
  <2> DEFINE now  == tokens'[t].balance[a]
             was  == tokens[t].balance[a]
             owed == committed[t].balance[a]
             due  == Due(a)
             I1 == Amount(todo', Inflow(t, a))
             I0 == Amount(todo, Inflow(t, a))
             O1 == Amount(todo', Outflow(t, a))
             O0 == Amount(todo, Outflow(t, a))
  <2>5. now + I1 + O0 >= was + I0 + O1
    BY <2>1 DEF NoWorse
  <2>6. was + I0 >= owed + due + O0
    BY <2>1 DEF Delivery, Deliverable, Others
  <2>7. I1 \in Nat /\ I0 \in Nat /\ O1 \in Nat /\ O0 \in Nat
    BY AmountType DEF Delivery, Inv, TypeOK
  <2>8. now \in Nat /\ was \in Nat /\ owed \in Nat
    <3>1. tokens[t] \in Ledgers /\ tokens'[t] \in Ledgers /\ committed[t] \in Ledgers
      BY <2>4 DEF Delivery, Inv, TypeOK
    <3>2. a \in Accounts
      BY DEF Others
    <3> QED
      BY <3>1, <3>2, LedgerFields, AmountsAreNumbers
  <2>9. due \in Nat
    BY <2>1, DueType DEF Delivery
  <2> HIDE DEF now, was, owed, due, I0, I1, O0, O1
  <2>10. now + I1 >= owed + due + O1
    BY <2>5, <2>6, <2>7, <2>8, <2>9
  <2> QED
    BY <2>1, <2>2, <2>3, <2>10 DEF now, owed, due, I1, O1
<1> QED
  BY <1>1, <1>3 DEF Delivery

\* What a turn takes off the queue, and what it leaves.
LEMMA TurnAmounts ==
  ASSUME Inv, ~ Idle, NEW t, NEW a
  PROVE  LET x == Head(todo) IN
           /\ x \in Actions /\ Tail(todo) \in Seq(Actions)
           /\ Amount(todo, Inflow(t, a))
                = Amount(Tail(todo), Inflow(t, a)) + (IF x \in Inflow(t, a) THEN x.quantity ELSE 0)
           /\ Amount(todo, Outflow(t, a))
                = Amount(Tail(todo), Outflow(t, a)) + (IF x \in Outflow(t, a) THEN x.quantity ELSE 0)
           /\ Amount(Tail(todo), Inflow(t, a)) \in Nat
           /\ Amount(Tail(todo), Outflow(t, a)) \in Nat
           /\ Amount(todo, Inflow(t, a)) \in Nat
           /\ Amount(todo, Outflow(t, a)) \in Nat
<1>1. todo \in Seq(Actions) /\ todo # <<>>
  BY DEF Inv, TypeOK, Idle
<1>2. Head(todo) \in Actions /\ Tail(todo) \in Seq(Actions)
  BY <1>1, TailOf
<1>3. Head(todo) \in Inflow(t, a) \/ Head(todo) \in Outflow(t, a)
        => Head(todo).quantity \in Amounts
  BY FlowTypes
<1>4. /\ Amount(todo, Inflow(t, a)) = Amount(Tail(todo), Inflow(t, a))
           + (IF Head(todo) \in Inflow(t, a) THEN Head(todo).quantity ELSE 0)
      /\ Amount(todo, Outflow(t, a)) = Amount(Tail(todo), Outflow(t, a))
           + (IF Head(todo) \in Outflow(t, a) THEN Head(todo).quantity ELSE 0)
  BY <1>1, <1>3, AmountOfTail
<1> QED
  BY <1>1, <1>2, <1>4, AmountType

\* An action that moves nothing and takes nothing from the other accounts.
LEMMA QuietStep ==
  ASSUME Delivery, Inv', NEW new, NEW rest, Rest(rest), Continue(new, <<>>, rest), Settle,
         rest = todo \/ Head(todo).act \notin {"transfer", "transfer2"},
         ~ Idle => \A t \in Tickers, a \in Others : tokens'[t].balance[a] >= tokens[t].balance[a]
  PROVE  Delivery'
<1>1. rest \in Seq(Actions) /\ <<>> \in Seq(Actions) /\ OwnTransfers(<<>>)
  BY RestType, EmptySeq DEF Delivery, OwnTransfers
<1>2. todo' = rest
  <2>1. <<>> \o rest = rest
    BY <1>1, ConcatEmptySeq
  <2> QED
    BY <2>1 DEF Continue
<1>3. NoWorse
  <2> DEFINE t == launch.ticker
  <2> SUFFICES ASSUME launch # NoLaunch, NEW a \in Others
               PROVE  tokens'[t].balance[a] + Amount(todo', Inflow(t, a)) + Amount(todo, Outflow(t, a))
                        >= tokens[t].balance[a] + Amount(todo, Inflow(t, a))
                             + Amount(todo', Outflow(t, a))
    BY DEF NoWorse
  <2>1. ~ Idle /\ t \in Tickers
    BY DEF Delivery, Ordered
  <2>2. /\ Amount(todo', Inflow(t, a)) = Amount(todo, Inflow(t, a))
        /\ Amount(todo', Outflow(t, a)) = Amount(todo, Outflow(t, a))
        /\ Amount(todo, Inflow(t, a)) \in Nat /\ Amount(todo, Outflow(t, a)) \in Nat
    <3>1. Amount(todo, Inflow(t, a)) \in Nat /\ Amount(todo, Outflow(t, a)) \in Nat
      BY AmountType DEF Delivery, Inv, TypeOK
    <3>2. CASE rest = todo
      BY <1>2, <3>1, <3>2
    <3>3. CASE rest # todo
      <4>1. rest = Tail(todo) /\ Head(todo) \notin Inflow(t, a) /\ Head(todo) \notin Outflow(t, a)
        BY <3>3, FlowTypes DEF Rest
      <4> QED
        BY <1>2, <2>1, <3>1, <4>1, TurnAmounts DEF Delivery
    <3> QED
      BY <3>2, <3>3
  <2>3. tokens'[t].balance[a] \in Nat /\ tokens[t].balance[a] \in Nat
    <3>1. tokens[t] \in Ledgers /\ tokens'[t] \in Ledgers
      BY <2>1 DEF Delivery, Inv, TypeOK
    <3>2. a \in Accounts
      BY DEF Others
    <3> QED
      BY <3>1, <3>2, LedgerFields, AmountsAreNumbers
  <2>4. tokens'[t].balance[a] >= tokens[t].balance[a]
    BY <2>1
  <2> HIDE DEF t
  <2> QED
    BY <2>2, <2>3, <2>4
<1> DEFINE acts == <<>>
<1>4. /\ acts \in Seq(Actions) /\ OwnTransfers(acts) /\ Continue(new, acts, rest)
      /\ ~ Idle /\ Head(todo).act = "close" => acts = <<>>
  BY <1>1
<1> HIDE DEF acts
<1> QED
  BY <1>3, <1>4, DeliveryStep

\* Whoever acts while a transaction runs is a contract that was notified.
LEMMA ActiveReacts == ASSUME Inv, NEW a \in Active PROVE a \in Accounts /\ (~ Idle => a \in Handlers)
<1>1. a \in Accounts
  BY ActiveIsAccount
<1>2. ASSUME ~ Idle PROVE a \in Handlers
  BY <1>2, HeadTypes DEF Active
<1> QED
  BY <1>1, <1>2

\* An action that leaves launch as it is settles it.
LEMMA UnchangedSettles ==
  ASSUME Delivery, NEW new, NEW acts \in Seq(Actions), Continue(new, acts, todo), UNCHANGED launch
  PROVE  Settle /\ Rest(todo)
<1>1. todo \in Seq(Actions) /\ todo' = acts \o todo
  BY DEF Delivery, Inv, TypeOK, Continue
<1>2. todo' = <<>> => todo = <<>>
  <2>1. /\ Len(acts \o todo) = Len(acts) + Len(todo)
        /\ Len(acts) \in Nat /\ Len(todo) \in Nat
        /\ todo = <<>> <=> Len(todo) = 0
    BY <1>1, FrontOf
  <2>2. ASSUME todo' = <<>> PROVE Len(acts \o todo) = 0
    BY <1>1, <2>2, EmptySeq
  <2> QED
    BY <2>1, <2>2
<1>3. todo = <<>> => launch = NoLaunch
  BY DEF Delivery, Ordered, Idle
<1> QED
  BY <1>2, <1>3 DEF Settle, Rest

----
(* Each action preserves the delivery. *)

LEMMA SupplyActionsDelivery ==
  ASSUME Delivery, NEW a \in Active, NEW t \in Tickers, NEW q \in Amounts,
         \/ Issue(a, t, q) \/ IssueFixed(a, t, q) \/ SetMaxSupply(a, t, q) \/ Retire(a, t, q)
         \/ SetSupply(a, t, q)
  PROVE  Delivery'
<1> DEFINE L == tokens[t]
<1>1. Inv /\ a \in Accounts /\ (~ Idle => a \in Handlers) /\ L \in Ledgers
      /\ tokens \in [Tickers -> Ledgers]
  BY ActiveReacts DEF Delivery, Inv, TypeOK
<1>2. Inv'
  BY <1>1, SupplyActionsInv
<1>3. \E N : /\ Continue([tokens EXCEPT ![t] = N], <<>>, todo)
             /\ \A b \in Accounts \ {a, Self} : N.balance[b] = L.balance[b]
  <2>1. ASSUME NEW n, Issue(a, t, n)
        PROVE  \E N : /\ Continue([tokens EXCEPT ![t] = N], <<>>, todo)
                      /\ \A b \in Accounts \ {a, Self} : N.balance[b] = L.balance[b]
    <3> DEFINE N == AddBalance([L EXCEPT !.supply = L.supply + n], a, n, a)
    <3>1. Continue([tokens EXCEPT ![t] = N], <<>>, todo)
      BY <2>1 DEF Issue
    <3>2. N.balance = Credit(L.balance, a, n)
      BY <1>1 DEF AddBalance, Ledgers
    <3>3. \A b \in Accounts \ {a, Self} : N.balance[b] = L.balance[b]
      BY <1>1, <3>2, LedgerFields DEF Credit
    <3> HIDE DEF N
    <3> QED
      BY <3>1, <3>3
  <2>2. CASE Issue(a, t, q) \/ IssueFixed(a, t, q)
    BY <2>1, <2>2 DEF IssueFixed
  <2>3. CASE SetMaxSupply(a, t, q)
    <3> DEFINE N == [L EXCEPT !.maxSupply = q]
    <3>1. Continue([tokens EXCEPT ![t] = N], <<>>, todo)
      BY <2>3 DEF SetMaxSupply
    <3>2. N.balance = L.balance
      BY <1>1 DEF Ledgers
    <3> HIDE DEF N
    <3> QED
      BY <3>1, <3>2
  <2>4. CASE Retire(a, t, q)
    <3> DEFINE N == SubBalance([L EXCEPT !.supply = L.supply - q], a, q, a)
    <3>1. Continue([tokens EXCEPT ![t] = N], <<>>, todo)
      BY <2>4 DEF Retire
    <3>2. N.balance = Debit(L.balance, a, q)
      BY <1>1 DEF SubBalance, Ledgers
    <3>3. \A b \in Accounts \ {a, Self} : N.balance[b] = L.balance[b]
      BY <1>1, <3>2, LedgerFields DEF Debit
    <3> HIDE DEF N
    <3> QED
      BY <3>1, <3>3
  <2>5. CASE SetSupply(a, t, q)
    <3> DEFINE N == AddBalance([L EXCEPT !.supply = q, !.maxSupply = q,
                                         !.issuer = tokenRegistry], Self, q, a)
    <3>1. Continue([tokens EXCEPT ![t] = N], <<>>, todo)
      BY <2>5 DEF SetSupply
    <3>2. N.balance = Credit(L.balance, Self, q)
      BY <1>1 DEF AddBalance, Ledgers
    <3>3. \A b \in Accounts \ {a, Self} : N.balance[b] = L.balance[b]
      BY <1>1, <3>2, LedgerFields DEF Credit
    <3> HIDE DEF N
    <3> QED
      BY <3>1, <3>3
  <2> QED
    BY <2>2, <2>3, <2>4, <2>5
<1>4. UNCHANGED launch
  BY DEF Issue, IssueFixed, SetMaxSupply, Retire, SetSupply
<1>5. PICK N : /\ Continue([tokens EXCEPT ![t] = N], <<>>, todo)
               /\ \A b \in Accounts \ {a, Self} : N.balance[b] = L.balance[b]
  BY <1>3
<1>6. tokens' = [tokens EXCEPT ![t] = N]
  BY <1>5 DEF Continue
<1>7. ~ Idle => \A u \in Tickers, b \in Others : tokens'[u].balance[b] >= tokens[u].balance[b]
  <2> SUFFICES ASSUME ~ Idle, NEW u \in Tickers, NEW b \in Others
               PROVE  tokens'[u].balance[b] >= tokens[u].balance[b]
    OBVIOUS
  <2>1. b \in Accounts \ {a, Self}
    BY <1>1 DEF Others
  <2>2. tokens[u].balance[b] \in Nat
    BY <1>1, <2>1, LedgerFields, AmountsAreNumbers
  <2>3. tokens'[u].balance[b] = tokens[u].balance[b]
    BY <1>1, <1>5, <1>6, <2>1
  <2> QED
    BY <2>2, <2>3
<1> DEFINE new == [tokens EXCEPT ![t] = N]
<1>8. Settle /\ Rest(todo)
  BY <1>4, <1>5, UnchangedSettles, QueueTypes
<1>9. Continue(new, <<>>, todo)
  BY <1>5
<1> HIDE DEF new
<1> QED
  BY <1>2, <1>7, <1>8, <1>9, QuietStep

LEMMA RowActionsDelivery ==
  ASSUME Delivery, NEW a \in Active, NEW t \in Tickers,
         \/ Close(a, t)
         \/ \E owner \in Accounts : Open(owner, t, a)
  PROVE  Delivery'
<1> DEFINE L == tokens[t]
<1>1. Inv /\ a \in Accounts /\ L \in Ledgers /\ tokens \in [Tickers -> Ledgers]
  BY ActiveReacts DEF Delivery, Inv, TypeOK
<1>2. Inv'
  BY <1>1, RowActionsInv
<1>3. PICK o \in Accounts, p \in Accounts \cup {NoAccount} :
        Continue([tokens EXCEPT ![t] = [L EXCEPT !.payer[o] = p]], <<>>, todo)
  BY <1>1, TokensAssumption DEF Close, CloseThen, CanClose, Open
<1>4. UNCHANGED launch
  BY DEF Close, Open
<1> DEFINE N == [L EXCEPT !.payer[o] = p]
           new == [tokens EXCEPT ![t] = N]
<1>5. N.balance = L.balance
  BY <1>1 DEF Ledgers
<1>6. tokens' = [tokens EXCEPT ![t] = N] /\ Continue(new, <<>>, todo)
  BY <1>3 DEF Continue
<1> HIDE DEF N
<1>7. \A u \in Tickers, b \in Others : tokens'[u].balance[b] >= tokens[u].balance[b]
  <2> SUFFICES ASSUME NEW u \in Tickers, NEW b \in Others
               PROVE  tokens'[u].balance[b] >= tokens[u].balance[b]
    OBVIOUS
  <2>1. tokens[u].balance[b] \in Nat
    BY <1>1, LedgerFields, AmountsAreNumbers DEF Others
  <2>2. tokens'[u].balance[b] = tokens[u].balance[b]
    BY <1>1, <1>5, <1>6
  <2> QED
    BY <2>1, <2>2
<1>8. Settle /\ Rest(todo)
  BY <1>4, <1>6, UnchangedSettles, QueueTypes
<1> HIDE DEF new
<1> QED
  BY <1>2, <1>6, <1>7, <1>8, QuietStep

LEMMA CloseDelivery ==
  ASSUME Delivery, InlineClose \/ EndReaction
  PROVE  Delivery'
<1>1. /\ Inv /\ tokens \in [Tickers -> Ledgers] /\ Self \in Accounts
      /\ ~ Idle /\ Settle /\ Rest(Tail(todo))
      /\ Head(todo).act \notin {"transfer", "transfer2"}
  BY TokensAssumption DEF Delivery, Inv, TypeOK, InlineClose, EndReaction, Rest
<1>2. Inv'
  BY <1>1, PendingInv DEF Pending
<1>3. \A u \in Tickers, b \in Others : tokens[u].balance[b] \in Nat
  BY <1>1, LedgerFields, AmountsAreNumbers DEF Others
<1>4. CASE InlineClose
  <2> DEFINE t == Head(todo).ticker
             N == [tokens[t] EXCEPT !.payer[Self] = NoAccount]
             new == [tokens EXCEPT ![t] = N]
  <2>1. t \in Tickers /\ Continue(new, <<>>, Tail(todo))
    BY <1>1, <1>4, HeadTypes DEF InlineClose, CloseThen, CanClose
  <2>2. N.balance = tokens[t].balance
    BY <1>1, <2>1 DEF Ledgers
  <2>3. tokens' = [tokens EXCEPT ![t] = N]
    BY <2>1 DEF Continue
  <2> HIDE DEF N, t
  <2>4. \A u \in Tickers, b \in Others : tokens'[u].balance[b] = tokens[u].balance[b]
    BY <1>1, <2>1, <2>2, <2>3
  <2>5. \A u \in Tickers, b \in Others : tokens'[u].balance[b] >= tokens[u].balance[b]
    BY <1>3, <2>4
  <2> HIDE DEF new
  <2> QED
    BY <1>1, <1>2, <2>1, <2>5, QuietStep
<1>5. CASE EndReaction
  <2>1. Continue(tokens, <<>>, Tail(todo)) /\ tokens' = tokens
    BY <1>5 DEF EndReaction, Continue
  <2>2. \A u \in Tickers, b \in Others : tokens'[u].balance[b] >= tokens[u].balance[b]
    BY <1>3, <2>1
  <2> QED
    BY <1>1, <1>2, <2>1, <2>2, QuietStep
<1> QED
  BY <1>4, <1>5

\* A step that moves tokens of one ticker.
LEMMA MoveStep ==
  ASSUME Delivery, Inv', NEW t \in Tickers, NEW L, NEW acts \in Seq(Actions), OwnTransfers(acts),
         NEW rest, Rest(rest), Continue([tokens EXCEPT ![t] = L], acts, rest), Settle,
         ~ Idle => Head(todo).act # "close",
         ~ Idle =>
           \A u \in Tickers, b \in Others :
             (IF u = t THEN L ELSE tokens[u]).balance[b] + Amount(acts \o rest, Inflow(u, b))
                 + Amount(todo, Outflow(u, b))
               >= tokens[u].balance[b] + Amount(todo, Inflow(u, b))
                    + Amount(acts \o rest, Outflow(u, b))
  PROVE  Delivery'
<1>1. todo' = acts \o rest /\ tokens' = [tokens EXCEPT ![t] = L]
      /\ tokens \in [Tickers -> Ledgers]
  BY DEF Continue, Delivery, Inv, TypeOK
<1>2. \A u \in Tickers : tokens'[u] = IF u = t THEN L ELSE tokens[u]
  BY <1>1
<1>3. launch # NoLaunch => ~ Idle /\ launch.ticker \in Tickers
  BY DEF Delivery, Ordered
<1>4. NoWorse
  BY <1>1, <1>2, <1>3, Zenon DEF NoWorse
<1> DEFINE new == [tokens EXCEPT ![t] = L]
<1>5. Continue(new, acts, rest) /\ (~ Idle /\ Head(todo).act = "close" => acts = <<>>)
  OBVIOUS
<1> HIDE DEF new
<1> QED
  BY <1>4, <1>5, DeliveryStep

\* A turn that leaves the ledger L of t and this queue does so.
EvenTurn(t, L, queue) ==
  \A u \in Tickers, b \in Accounts \ {Self} :
    (IF u = t THEN L ELSE tokens[u]).balance[b] + Amount(queue, Inflow(u, b))
        + Amount(todo, Outflow(u, b))
      = tokens[u].balance[b] + Amount(todo, Inflow(u, b)) + Amount(queue, Outflow(u, b))

LEMMA MoveEven ==
  ASSUME Delivery, NEW t \in Tickers, NEW L, NEW acts, NEW rest,
         Continue([tokens EXCEPT ![t] = L], acts, rest), EvenTurn(t, L, acts \o rest)
  PROVE  Even
<1>1. todo' = acts \o rest /\ tokens' = [tokens EXCEPT ![t] = L]
      /\ tokens \in [Tickers -> Ledgers]
  BY DEF Continue, Delivery, Inv, TypeOK
<1>2. \A u \in Tickers : tokens'[u] = IF u = t THEN L ELSE tokens[u]
  BY <1>1
<1>3. launch # NoLaunch => launch.ticker \in Tickers
  BY DEF Delivery, Ordered
<1> QED
  BY <1>1, <1>2, <1>3, Zenon DEF Even, EvenTurn

\* A turn of the queue that puts acts in its place.
Turns ==
  \E t \in Tickers : \E L \in Ledgers, acts \in Seq(Actions) :
    OwnTransfers(acts) /\ Continue([tokens EXCEPT ![t] = L], acts, Tail(todo))

LEMMA InlineTransferEven == ASSUME Delivery, InlineTransfer PROVE Turns /\ Even
<1> DEFINE x == Head(todo)
           rest == Tail(todo)
<1>1. /\ Inv /\ ~ Idle /\ x.act = "transfer"
      /\ TransferThen(x.from, x.to, x.from, x.ticker, x.quantity, rest)
  BY DEF Delivery, InlineTransfer
<1>2. /\ x \in Actions /\ rest \in Seq(Actions)
      /\ x.from \in Accounts /\ x.to \in Accounts /\ x.ticker \in Tickers
      /\ x.quantity \in Amounts
      /\ x = Transfer1("transfer", x.from, x.to, x.ticker, x.quantity)
  BY <1>1, TurnAmounts, TransferIsFields
<1>3. x.from = Self
  <2>1. todo \in Seq(Actions) /\ todo # <<>>
    BY <1>1 DEF Inv, TypeOK, Idle
  <2>2. Head(todo) = todo[1] /\ 1 \in 1 .. Len(todo)
    BY <2>1, TailOf
  <2> QED
    BY <1>1, <2>2 DEF Delivery, Ordered
<1> DEFINE from == x.from
           to   == x.to
           t    == x.ticker
           q    == x.quantity
<1>5. \A u \in Tickers, b \in Accounts :
        /\ Amount(todo, Inflow(u, b))
             = Amount(rest, Inflow(u, b)) + (IF t = u /\ Destination(to) = b THEN q ELSE 0)
        /\ Amount(todo, Outflow(u, b)) = Amount(rest, Outflow(u, b))
  <2> SUFFICES ASSUME NEW u \in Tickers, NEW b \in Accounts
               PROVE  /\ Amount(todo, Inflow(u, b)) = Amount(rest, Inflow(u, b))
                           + (IF t = u /\ Destination(to) = b THEN q ELSE 0)
                      /\ Amount(todo, Outflow(u, b)) = Amount(rest, Outflow(u, b))
    OBVIOUS
  <2>1. /\ x \in Inflow(u, b) <=> t = u /\ Destination(to) = b
        /\ x \notin Outflow(u, b)
    <3> DEFINE y == Transfer1("transfer", x.from, x.to, x.ticker, x.quantity)
    <3>1. /\ y \in Inflow(u, b) <=> t = u /\ Destination(to) = b
          /\ y \notin Outflow(u, b)
      BY <1>2, TransferFlows
    <3> QED
      BY <1>2, <3>1
  <2>2. /\ Amount(todo, Inflow(u, b))
             = Amount(rest, Inflow(u, b)) + (IF x \in Inflow(u, b) THEN q ELSE 0)
        /\ Amount(todo, Outflow(u, b))
             = Amount(rest, Outflow(u, b)) + (IF x \in Outflow(u, b) THEN q ELSE 0)
        /\ Amount(rest, Outflow(u, b)) \in Nat
    BY <1>1, TurnAmounts
  <2> HIDE DEF x, rest
  <2> QED
    BY <2>1, <2>2
<1> HIDE DEF x, rest
<1> HIDE DEF from, to, t, q
<1>6. PICK L \in Ledgers, acts \in Seq(Actions) : TransferOutcome(from, to, t, q, rest, L, acts)
  BY <1>1, <1>2, TransferEffect DEF from, to, t, q
<1>7. /\ acts \in Seq(Actions) /\ OwnTransfers(acts)
      /\ Continue([tokens EXCEPT ![t] = L], acts, rest)
      /\ \A u \in Tickers, a \in Accounts \ {from} :
           (IF u = t THEN L ELSE tokens[u]).balance[a] + Amount(acts \o rest, Inflow(u, a))
               + Amount(rest, Outflow(u, a))
             = tokens[u].balance[a] + Amount(rest, Inflow(u, a))
                 + Amount(acts \o rest, Outflow(u, a))
                 + (IF t = u /\ Destination(to) = a THEN q ELSE 0)
  BY <1>6, Zenon DEF TransferOutcome
<1>8. \A u \in Tickers, b \in Accounts \ {Self} :
        (IF u = t THEN L ELSE tokens[u]).balance[b] + Amount(acts \o rest, Inflow(u, b))
            + Amount(todo, Outflow(u, b))
          = tokens[u].balance[b] + Amount(todo, Inflow(u, b))
               + Amount(acts \o rest, Outflow(u, b))
  <2> SUFFICES ASSUME NEW u \in Tickers, NEW b \in Accounts \ {Self}
               PROVE  (IF u = t THEN L ELSE tokens[u]).balance[b]
                          + Amount(acts \o rest, Inflow(u, b)) + Amount(todo, Outflow(u, b))
                        = tokens[u].balance[b] + Amount(todo, Inflow(u, b))
                             + Amount(acts \o rest, Outflow(u, b))
    OBVIOUS
  <2>1. b \in Accounts /\ b \in Accounts \ {from}
    BY <1>3 DEF from
  <2> DEFINE now == (IF u = t THEN L ELSE tokens[u]).balance[b]
             was == tokens[u].balance[b]
             I1 == Amount(acts \o rest, Inflow(u, b))
             O1 == Amount(acts \o rest, Outflow(u, b))
             IR == Amount(rest, Inflow(u, b))
             OR == Amount(rest, Outflow(u, b))
             I0 == Amount(todo, Inflow(u, b))
             O0 == Amount(todo, Outflow(u, b))
             more == IF t = u /\ Destination(to) = b THEN q ELSE 0
  <2>2. now + I1 + OR = was + IR + O1 + more
    BY <1>7, <2>1
  <2>3. I0 = IR + more /\ O0 = OR
    BY <1>5, <2>1
  <2>4. /\ acts \o rest \in Seq(Actions)
        /\ tokens[u] \in Ledgers
    BY <1>1, <1>2, FrontOf DEF Inv, TypeOK
  <2>5. I1 \in Nat /\ O1 \in Nat /\ IR \in Nat /\ OR \in Nat
    BY <1>2, <2>4, AmountType
  <2>6. was \in Nat /\ now \in Nat /\ more \in Nat
    BY <1>2, <2>1, <2>4, LedgerFields, AmountsAreNumbers DEF q
  <2> HIDE DEF now, was, I1, O1, IR, OR, I0, O0, more
  <2>7. now + I1 + O0 = was + I0 + O1
    BY <2>2, <2>3, <2>5, <2>6
  <2> QED
    BY <2>7 DEF now, was, I1, O1, I0, O0
<1>9. t \in Tickers
  BY <1>2 DEF t
<1>10. Turns
  BY <1>7, <1>9 DEF Turns, rest
<1>11. Continue([tokens EXCEPT ![t] = L], acts, rest)
  BY <1>7
<1>12. EvenTurn(t, L, acts \o rest)
  BY <1>8, Zenon DEF EvenTurn
<1>13. Even
  BY <1>9, <1>11, <1>12, MoveEven
<1> QED
  BY <1>10, <1>13

LEMMA InlineTransfer2Even == ASSUME Delivery, InlineTransfer2 PROVE Turns /\ Even
<1> DEFINE x == Head(todo)
           rest == Tail(todo)
<1>1. /\ Inv /\ ~ Idle /\ x.act = "transfer2"
      /\ Transfer2Then(x.from, x.to, x.from, x.ticker, x.quantity, rest)
  BY DEF Delivery, InlineTransfer2
<1>2. /\ x \in Actions /\ rest \in Seq(Actions)
      /\ x.from \in Accounts /\ x.to \in Accounts /\ x.ticker \in Tickers
      /\ x.quantity \in Amounts
      /\ x = Transfer1("transfer2", x.from, x.to, x.ticker, x.quantity)
  BY <1>1, TurnAmounts, TransferIsFields
<1> DEFINE from == x.from
           to   == x.to
           t    == x.ticker
           q    == x.quantity
<1>5. \A u \in Tickers, b \in Accounts :
        /\ Amount(todo, Inflow(u, b))
             = Amount(rest, Inflow(u, b)) + (IF u = t /\ to = b THEN q ELSE 0)
        /\ Amount(todo, Outflow(u, b))
             = Amount(rest, Outflow(u, b)) + (IF u = t /\ from = b THEN q ELSE 0)
  <2> SUFFICES ASSUME NEW u \in Tickers, NEW b \in Accounts
               PROVE  /\ Amount(todo, Inflow(u, b)) = Amount(rest, Inflow(u, b))
                           + (IF u = t /\ to = b THEN q ELSE 0)
                      /\ Amount(todo, Outflow(u, b)) = Amount(rest, Outflow(u, b))
                           + (IF u = t /\ from = b THEN q ELSE 0)
    OBVIOUS
  <2>1. /\ x \in Inflow(u, b) <=> u = t /\ to = b
        /\ x \in Outflow(u, b) <=> u = t /\ from = b
    <3> DEFINE y == Transfer1("transfer2", x.from, x.to, x.ticker, x.quantity)
    <3>1. /\ y \in Inflow(u, b) <=> u = t /\ to = b
          /\ y \in Outflow(u, b) <=> u = t /\ from = b
      BY <1>2, TransferFlows
    <3> QED
      BY <1>2, <3>1
  <2>2. /\ Amount(todo, Inflow(u, b))
             = Amount(rest, Inflow(u, b)) + (IF x \in Inflow(u, b) THEN q ELSE 0)
        /\ Amount(todo, Outflow(u, b))
             = Amount(rest, Outflow(u, b)) + (IF x \in Outflow(u, b) THEN q ELSE 0)
    BY <1>1, TurnAmounts
  <2> HIDE DEF x, rest
  <2> QED
    BY <2>1, <2>2
<1> HIDE DEF x, rest
<1> HIDE DEF from, to, t, q
<1>6. PICK L \in Ledgers, acts \in Seq(Actions) : Transfer2Outcome(from, to, t, q, rest, L, acts)
  BY <1>1, <1>2, Transfer2Effect DEF from, to, t, q
<1>7. /\ acts \in Seq(Actions) /\ OwnTransfers(acts)
      /\ Continue([tokens EXCEPT ![t] = L], acts, rest)
      /\ \A u \in Tickers, a \in Accounts :
           /\ Amount(acts \o rest, Inflow(u, a)) = Amount(rest, Inflow(u, a))
           /\ Amount(acts \o rest, Outflow(u, a)) = Amount(rest, Outflow(u, a))
           /\ (IF u = t THEN L ELSE tokens[u]).balance[a]
                  + (IF u = t /\ from = a THEN q ELSE 0)
                = tokens[u].balance[a] + (IF u = t /\ to = a THEN q ELSE 0)
  BY <1>6, Zenon DEF Transfer2Outcome
<1>8. \A u \in Tickers, b \in Accounts \ {Self} :
        (IF u = t THEN L ELSE tokens[u]).balance[b] + Amount(acts \o rest, Inflow(u, b))
            + Amount(todo, Outflow(u, b))
          = tokens[u].balance[b] + Amount(todo, Inflow(u, b))
               + Amount(acts \o rest, Outflow(u, b))
  <2> SUFFICES ASSUME NEW u \in Tickers, NEW b \in Accounts \ {Self}
               PROVE  (IF u = t THEN L ELSE tokens[u]).balance[b]
                          + Amount(acts \o rest, Inflow(u, b)) + Amount(todo, Outflow(u, b))
                        = tokens[u].balance[b] + Amount(todo, Inflow(u, b))
                             + Amount(acts \o rest, Outflow(u, b))
    OBVIOUS
  <2>1. b \in Accounts
    OBVIOUS
  <2> DEFINE now == (IF u = t THEN L ELSE tokens[u]).balance[b]
             was == tokens[u].balance[b]
             I1 == Amount(acts \o rest, Inflow(u, b))
             O1 == Amount(acts \o rest, Outflow(u, b))
             IR == Amount(rest, Inflow(u, b))
             OR == Amount(rest, Outflow(u, b))
             I0 == Amount(todo, Inflow(u, b))
             O0 == Amount(todo, Outflow(u, b))
             gain == IF u = t /\ to = b THEN q ELSE 0
             loss == IF u = t /\ from = b THEN q ELSE 0
  <2>2. now + loss = was + gain /\ I1 = IR /\ O1 = OR
    BY <1>7, <2>1
  <2>3. I0 = IR + gain /\ O0 = OR + loss
    BY <1>5, <2>1
  <2>4. tokens[u] \in Ledgers
    BY <1>1 DEF Inv, TypeOK
  <2>5. IR \in Nat /\ OR \in Nat
    BY <1>2, AmountType
  <2>6. was \in Nat /\ now \in Nat /\ gain \in Nat /\ loss \in Nat
    BY <1>2, <2>1, <2>4, LedgerFields, AmountsAreNumbers DEF q
  <2> HIDE DEF now, was, I1, O1, IR, OR, I0, O0, gain, loss
  <2>7. now + I1 + O0 = was + I0 + O1
    BY <2>2, <2>3, <2>5, <2>6
  <2> QED
    BY <2>7 DEF now, was, I1, O1, I0, O0
<1>9. t \in Tickers
  BY <1>2 DEF t
<1>10. Turns
  BY <1>7, <1>9 DEF Turns, rest
<1>11. Continue([tokens EXCEPT ![t] = L], acts, rest)
  BY <1>7
<1>12. EvenTurn(t, L, acts \o rest)
  BY <1>8, Zenon DEF EvenTurn
<1>13. Even
  BY <1>9, <1>11, <1>12, MoveEven
<1> QED
  BY <1>10, <1>13

LEMMA InlineTransfersDelivery ==
  ASSUME Delivery, InlineTransfer \/ InlineTransfer2
  PROVE  Delivery'
<1>1. Turns /\ Even
  BY InlineTransferEven, InlineTransfer2Even
<1>2. Inv'
  BY PendingInv DEF Delivery, Pending
<1>3. /\ ~ Idle /\ Settle /\ Rest(Tail(todo)) /\ Head(todo).act # "close"
  BY DEF InlineTransfer, InlineTransfer2, Rest
<1>4. NoWorse
  <2> DEFINE t == launch.ticker
  <2> SUFFICES ASSUME launch # NoLaunch, NEW a \in Others
               PROVE  tokens'[t].balance[a] + Amount(todo', Inflow(t, a)) + Amount(todo, Outflow(t, a))
                        >= tokens[t].balance[a] + Amount(todo, Inflow(t, a))
                             + Amount(todo', Outflow(t, a))
    BY DEF NoWorse
  <2>1. t \in Tickers /\ a \in Accounts \ {Self}
    BY DEF Delivery, Ordered, Others
  <2> DEFINE now == tokens'[t].balance[a] + Amount(todo', Inflow(t, a)) + Amount(todo, Outflow(t, a))
             was == tokens[t].balance[a] + Amount(todo, Inflow(t, a)) + Amount(todo', Outflow(t, a))
  <2>2. now = was
    BY <1>1, <2>1 DEF Even
  <2>3. was \in Nat
    <3>1. /\ Amount(todo, Inflow(t, a)) \in Nat /\ Amount(todo', Outflow(t, a)) \in Nat
      BY <1>2, AmountType DEF Delivery, Inv, TypeOK
    <3>2. tokens[t] \in Ledgers
      BY <2>1 DEF Delivery, Inv, TypeOK
    <3>3. tokens[t].balance[a] \in Nat
      BY <2>1, <3>2, LedgerFields, AmountsAreNumbers
    <3> QED
      BY <3>1, <3>3
  <2> HIDE DEF now, was
  <2>4. now >= was
    BY <2>2, <2>3
  <2> QED
    BY <2>4 DEF now, was
<1>5. PICK t \in Tickers, L \in Ledgers, acts \in Seq(Actions) :
        OwnTransfers(acts) /\ Continue([tokens EXCEPT ![t] = L], acts, Tail(todo))
  BY <1>1 DEF Turns
<1> DEFINE new == [tokens EXCEPT ![t] = L]
           rest == Tail(todo)
<1>6. Continue(new, acts, rest) /\ Rest(rest)
  BY <1>3, <1>5
<1> HIDE DEF new, rest
<1> QED
  BY <1>2, <1>3, <1>4, <1>5, <1>6, DeliveryStep

\* A transfer that a contract makes in its turn.
LEMMA TransferDelivery ==
  ASSUME Delivery, NEW a \in Active, NEW to \in Accounts, NEW t \in Tickers, NEW q \in Amounts,
         Transfer(a, to, t, q) \/ Transfer2(a, to, t, q)
  PROVE  Delivery'
<1>1. /\ Inv /\ a \in Accounts /\ (~ Idle => a \in Handlers)
      /\ todo \in Seq(Actions) /\ UNCHANGED launch /\ Payers(a, to) \subseteq Accounts
  BY ActiveReacts, TokensAssumption DEF Delivery, Inv, TypeOK, Transfer, Transfer2, Payers
<1>2. Inv'
  <2>1. \E q2 \in Amounts : \E to2 \in Accounts : Transfer(a, to2, t, q2) \/ Transfer2(a, to2, t, q2)
    OBVIOUS
  <2>2. ActionOf(a)
    BY <2>1 DEF ActionOf
  <2> QED
    BY <1>1, <2>2, ActionInv
<1>3. ~ Idle => Head(todo).act # "close" /\ Others \subseteq Accounts \ {a}
  BY <1>1 DEF Active, Others
<1>4. ASSUME NEW L \in Ledgers, NEW acts \in Seq(Actions), OwnTransfers(acts),
             Continue([tokens EXCEPT ![t] = L], acts, todo),
             ~ Idle => \A u \in Tickers, b \in Others :
               (IF u = t THEN L ELSE tokens[u]).balance[b] + Amount(acts \o todo, Inflow(u, b))
                   + Amount(todo, Outflow(u, b))
                 >= tokens[u].balance[b] + Amount(todo, Inflow(u, b))
                      + Amount(acts \o todo, Outflow(u, b))
      PROVE  Delivery'
  <2>1. Settle /\ Rest(todo)
    BY <1>1, <1>4, UnchangedSettles
  <2> QED
    BY <1>2, <1>3, <1>4, <2>1, MoveStep
<1>5. ASSUME NEW L \in Ledgers, NEW u \in Tickers, NEW b \in Others
      PROVE  /\ (IF u = t THEN L ELSE tokens[u]).balance[b] \in Nat
             /\ tokens[u].balance[b] \in Nat
             /\ Amount(todo, Inflow(u, b)) \in Nat /\ Amount(todo, Outflow(u, b)) \in Nat
  <2>1. tokens[u] \in Ledgers /\ b \in Accounts
    BY <1>1 DEF Inv, TypeOK, Others
  <2> QED
    BY <1>1, <2>1, LedgerFields, AmountsAreNumbers, AmountType
<1>6. q \in Nat
  BY AmountsAreNumbers
<1>7. CASE Transfer(a, to, t, q)
  <2>1. PICK r \in Accounts : TransferThen(a, to, r, t, q, todo)
    BY <1>1, <1>7 DEF Transfer
  <2>2. PICK L \in Ledgers, acts \in Seq(Actions) : TransferOutcome(a, to, t, q, todo, L, acts)
    BY <1>1, <2>1, TransferEffect
  <2>3. /\ OwnTransfers(acts) /\ Continue([tokens EXCEPT ![t] = L], acts, todo)
        /\ \A u \in Tickers, b \in Accounts \ {a} :
             (IF u = t THEN L ELSE tokens[u]).balance[b] + Amount(acts \o todo, Inflow(u, b))
                 + Amount(todo, Outflow(u, b))
               = tokens[u].balance[b] + Amount(todo, Inflow(u, b))
                   + Amount(acts \o todo, Outflow(u, b))
                   + (IF t = u /\ Destination(to) = b THEN q ELSE 0)
    BY <2>2, Zenon DEF TransferOutcome
  <2>4. acts \o todo \in Seq(Actions)
    BY <1>1, FrontOf
  <2>5. ASSUME ~ Idle, NEW u \in Tickers, NEW b \in Others
        PROVE  (IF u = t THEN L ELSE tokens[u]).balance[b] + Amount(acts \o todo, Inflow(u, b))
                   + Amount(todo, Outflow(u, b))
                 >= tokens[u].balance[b] + Amount(todo, Inflow(u, b))
                      + Amount(acts \o todo, Outflow(u, b))
    <3> DEFINE now == (IF u = t THEN L ELSE tokens[u]).balance[b]
               was == tokens[u].balance[b]
               I1 == Amount(acts \o todo, Inflow(u, b))
               O1 == Amount(acts \o todo, Outflow(u, b))
               I0 == Amount(todo, Inflow(u, b))
               O0 == Amount(todo, Outflow(u, b))
               more == IF t = u /\ Destination(to) = b THEN q ELSE 0
    <3>1. now + I1 + O0 = was + I0 + O1 + more
      BY <1>3, <2>3, <2>5
    <3>2. now \in Nat /\ was \in Nat /\ I0 \in Nat /\ O0 \in Nat /\ more \in Nat
      BY <1>5, <1>6
    <3>3. I1 \in Nat /\ O1 \in Nat
      BY <2>4, AmountType
    <3> HIDE DEF now, was, I1, O1, I0, O0, more
    <3>4. now + I1 + O0 >= was + I0 + O1
      BY <3>1, <3>2, <3>3
    <3> QED
      BY <3>4 DEF now, was, I1, O1, I0, O0
  <2> QED
    BY <1>4, <2>3, <2>5
<1>8. CASE Transfer2(a, to, t, q)
  <2>1. PICK r \in Accounts : Transfer2Then(a, to, r, t, q, todo)
    BY <1>1, <1>8 DEF Transfer2
  <2>2. PICK L \in Ledgers, acts \in Seq(Actions) : Transfer2Outcome(a, to, t, q, todo, L, acts)
    BY <1>1, <2>1, Transfer2Effect
  <2>3. /\ OwnTransfers(acts) /\ Continue([tokens EXCEPT ![t] = L], acts, todo)
        /\ \A u \in Tickers, b \in Accounts :
             /\ Amount(acts \o todo, Inflow(u, b)) = Amount(todo, Inflow(u, b))
             /\ Amount(acts \o todo, Outflow(u, b)) = Amount(todo, Outflow(u, b))
             /\ (IF u = t THEN L ELSE tokens[u]).balance[b]
                    + (IF u = t /\ a = b THEN q ELSE 0)
                  = tokens[u].balance[b] + (IF u = t /\ to = b THEN q ELSE 0)
    BY <2>2, Zenon DEF Transfer2Outcome
  <2>5. ASSUME ~ Idle, NEW u \in Tickers, NEW b \in Others
        PROVE  (IF u = t THEN L ELSE tokens[u]).balance[b] + Amount(acts \o todo, Inflow(u, b))
                   + Amount(todo, Outflow(u, b))
                 >= tokens[u].balance[b] + Amount(todo, Inflow(u, b))
                      + Amount(acts \o todo, Outflow(u, b))
    <3> DEFINE now == (IF u = t THEN L ELSE tokens[u]).balance[b]
               was == tokens[u].balance[b]
               I1 == Amount(acts \o todo, Inflow(u, b))
               O1 == Amount(acts \o todo, Outflow(u, b))
               I0 == Amount(todo, Inflow(u, b))
               O0 == Amount(todo, Outflow(u, b))
               more == IF u = t /\ to = b THEN q ELSE 0
    <3>1. now + 0 = was + more /\ I1 = I0 /\ O1 = O0
      <4>1. b \in Accounts /\ b # a
        BY <1>3, <2>5 DEF Others
      <4> QED
        BY <2>3, <4>1
    <3>2. now \in Nat /\ was \in Nat /\ I0 \in Nat /\ O0 \in Nat /\ more \in Nat
      BY <1>5, <1>6
    <3> HIDE DEF now, was, I1, O1, I0, O0, more
    <3>4. now + I1 + O0 >= was + I0 + O1
      BY <3>1, <3>2
    <3> QED
      BY <3>4 DEF now, was, I1, O1, I0, O0
  <2> QED
    BY <1>4, <2>3, <2>5
<1> QED
  BY <1>7, <1>8

----
(* What a distribution queues. *)

\* The actions that distribute sends.
Distribution(t, allocations) ==
  [i \in 1 .. Len(allocations) |->
     Transfer1("transfer", Self, allocations[i].receiver, t, allocations[i].quantity)]
    \o <<CloseOf(t)>>

LEMMA DistributionFields ==
  ASSUME NEW t \in Tickers, NEW n \in Nat, NEW allocations \in [1 .. n -> Allocations]
  PROVE  LET q == Distribution(t, allocations) IN
           /\ allocations \in Seq(Allocations) /\ Len(allocations) = n
           /\ q \in Seq(Actions) /\ Len(q) = n + 1 /\ q # <<>>
           /\ \A i \in 1 .. n :
                /\ allocations[i].receiver \in Accounts /\ allocations[i].quantity \in Amounts
                /\ q[i] = Transfer1("transfer", Self, allocations[i].receiver, t,
                                    allocations[i].quantity)
           /\ q[n + 1] = CloseOf(t)
           /\ OwnTransfers(q)
<1> DEFINE acts == [i \in 1 .. Len(allocations) |->
                      Transfer1("transfer", Self, allocations[i].receiver, t,
                                allocations[i].quantity)]
           last == <<CloseOf(t)>>
           q == acts \o last
<1>1. allocations \in Seq(Allocations) /\ Len(allocations) = n
  OBVIOUS
<1>2. \A i \in 1 .. n : allocations[i].receiver \in Accounts /\ allocations[i].quantity \in Amounts
  BY DEF Allocations
<1>3. \A i \in 1 .. n :
        Transfer1("transfer", Self, allocations[i].receiver, t, allocations[i].quantity) \in Actions
  BY <1>2, TransferType, TokensAssumption
<1>4. acts \in Seq(Actions) /\ Len(acts) = n
      /\ \A i \in 1 .. n : acts[i] = Transfer1("transfer", Self, allocations[i].receiver, t,
                                               allocations[i].quantity)
  BY <1>1, <1>3
<1>5. last \in Seq(Actions) /\ Len(last) = 1 /\ last[1] = CloseOf(t)
  BY DEF CloseOf, Actions
<1> HIDE DEF acts, last
<1>6. /\ q \in Seq(Actions) /\ Len(q) = Len(acts) + Len(last)
      /\ \A i \in 1 .. Len(acts) : q[i] = acts[i]
      /\ \A i \in 1 .. Len(last) : q[Len(acts) + i] = last[i]
  BY <1>4, <1>5, FrontOf, Zenon
<1> HIDE DEF q
<1>7. /\ Len(q) = n + 1 /\ q[n + 1] = CloseOf(t)
      /\ \A i \in 1 .. n : q[i] = Transfer1("transfer", Self, allocations[i].receiver, t,
                                            allocations[i].quantity)
  BY <1>4, <1>5, <1>6
<1>8. q # <<>>
  BY <1>6, <1>7, EmptySeq
<1>9. OwnTransfers(q)
  <2>1. ASSUME NEW i \in 1 .. n PROVE q[i].from = Self
    <3>1. q[i] = Transfer1("transfer", Self, allocations[i].receiver, t,
                           allocations[i].quantity)
      BY <1>7
    <3> QED
      BY <3>1 DEF Transfer1
  <2>2. q[n + 1].act # "transfer"
    BY <1>7 DEF CloseOf
  <2>3. \A i \in 1 .. Len(q) : i \in 1 .. n \/ i = n + 1
    BY <1>7
  <2> QED
    BY <2>1, <2>2, <2>3 DEF OwnTransfers
<1>10. q = Distribution(t, allocations)
  BY DEF q, acts, last, Distribution
<1> QED
  BY <1>1, <1>2, <1>6, <1>7, <1>8, <1>9, <1>10, Zenon

\* The units it moves, of the transfers in X to the receivers in A.
LEMMA DistributionAmount ==
  ASSUME NEW t \in Tickers, NEW n \in Nat, NEW allocations \in [1 .. n -> Allocations],
         NEW X, NEW A,
         \A i \in 1 .. n :
           Distribution(t, allocations)[i] \in X <=> allocations[i].receiver \in A,
         CloseOf(t) \notin X
  PROVE  Amount(Distribution(t, allocations), X) = AllottedTo(allocations, A)
<1> DEFINE q == Distribution(t, allocations)
           D == {j \in DOMAIN allocations : allocations[j].receiver \in A}
           f == [i \in D |-> allocations[i].quantity]
           S == Units(f)
           T == UnitsOf(q, X)
           F == [u \in S |-> <<n + 2 - u[1], u[2]>>]
<1>0. \A i \in 1 .. n : q[i] \in X <=> allocations[i].receiver \in A
  OBVIOUS
<1>1. /\ q \in Seq(Actions) /\ Len(q) = n + 1
      /\ \A i \in 1 .. n :
           /\ allocations[i].receiver \in Accounts /\ allocations[i].quantity \in Amounts
           /\ q[i] = Transfer1("transfer", Self, allocations[i].receiver, t,
                               allocations[i].quantity)
      /\ q[n + 1] = CloseOf(t)
  BY DistributionFields
<1> HIDE DEF q
<1>2. \A i \in 1 .. n : /\ q[i] \in X <=> allocations[i].receiver \in A
                        /\ q[i].quantity = allocations[i].quantity
  <2> SUFFICES ASSUME NEW i \in 1 .. n PROVE q[i].quantity = allocations[i].quantity
    BY <1>0, Zenon
  <2>1. q[i] = Transfer1("transfer", Self, allocations[i].receiver, t, allocations[i].quantity)
    BY <1>1
  <2> QED
    BY <2>1 DEF Transfer1
<1>3. q[n + 1] \notin X
  BY <1>1
<1>6. /\ D \subseteq 1 .. n /\ DOMAIN f = D
      /\ \A i \in 1 .. n : i \in D <=> allocations[i].receiver \in A
      /\ \A i \in D : f[i] = allocations[i].quantity
  BY <1>1
<1> HIDE DEF D, f
<1>7. \A u : u \in S <=> /\ u \in D \X (1 .. MaxAmount)
                         /\ u[2] <= allocations[u[1]].quantity
  <2>1. f \in [D -> Nat]
    BY <1>1, <1>6, MaxAmountAssumption DEF Amounts, f
  <2>2. Units(f) = {u \in D \X (Nat \ {0}) : u[2] <= f[u[1]]}
    BY <2>1, UnitsOfTable
  <2>3. \A i \in D : f[i] = allocations[i].quantity /\ f[i] \in 0 .. MaxAmount
    BY <1>1, <1>6 DEF Amounts
  <2> QED
    BY <2>2, <2>3, MaxAmountAssumption
<1>8. \A u : u \in T <=> /\ u \in (1 .. n + 1) \X (1 .. MaxAmount)
                         /\ q[n + 2 - u[1]] \in X
                         /\ u[2] <= q[n + 2 - u[1]].quantity
  <2>1. \A k \in 1 .. n + 1 : Len(q) + 1 - k = n + 2 - k
    BY <1>1
  <2> QED
    BY <1>1, <2>1 DEF UnitsOf
<1> HIDE DEF S, T
<1>9. F \in [S -> T]
  <2> SUFFICES ASSUME NEW u \in S PROVE <<n + 2 - u[1], u[2]>> \in T
    OBVIOUS
  <2>0. u \in D \X (1 .. MaxAmount) /\ u[2] <= allocations[u[1]].quantity
    BY <1>7, Zenon
  <2>1. u[1] \in D /\ u[1] \in 1 .. n /\ u[2] \in 1 .. MaxAmount
        /\ u[2] <= allocations[u[1]].quantity
    BY <1>6, <2>0
  <2>2. n + 2 - u[1] \in 1 .. n + 1 /\ n + 2 - (n + 2 - u[1]) = u[1]
    BY <2>1
  <2> QED
    BY <1>2, <1>6, <1>8, <2>1, <2>2
<1>10. \A u, v \in S : F[u] = F[v] => u = v
  <2> SUFFICES ASSUME NEW u \in S, NEW v \in S, F[u] = F[v] PROVE u = v
    OBVIOUS
  <2>0. u \in D \X (1 .. MaxAmount) /\ v \in D \X (1 .. MaxAmount)
    BY <1>7, Zenon
  <2>1. u \in D \X (1 .. MaxAmount) /\ v \in D \X (1 .. MaxAmount)
        /\ u[1] \in 1 .. n /\ v[1] \in 1 .. n
    BY <1>6, <2>0
  <2>2. n + 2 - u[1] = n + 2 - v[1] /\ u[2] = v[2]
    OBVIOUS
  <2> QED
    BY <2>1, <2>2
<1>11. \A w \in T : \E u \in S : F[u] = w
  <2> SUFFICES ASSUME NEW w \in T PROVE \E u \in S : F[u] = w
    OBVIOUS
  <2>1. /\ w \in (1 .. n + 1) \X (1 .. MaxAmount) /\ w[1] \in 1 .. n + 1
        /\ w[2] \in 1 .. MaxAmount
        /\ q[n + 2 - w[1]] \in X /\ w[2] <= q[n + 2 - w[1]].quantity
    BY <1>8
  <2> DEFINE i == n + 2 - w[1]
             u == <<i, w[2]>>
  <2>2. i \in 1 .. n + 1 /\ n + 2 - i = w[1]
    BY <2>1
  <2>3. i \in 1 .. n
    BY <1>3, <2>1, <2>2
  <2>4. i \in D /\ w[2] <= allocations[i].quantity
    BY <1>2, <1>6, <2>1, <2>3
  <2>5. u \in S
    BY <1>7, <2>1, <2>4
  <2>6. F[u] = w
    BY <2>1, <2>2, <2>5
  <2> QED
    BY <2>5, <2>6
<1>12. F \in Bijection(S, T)
  <2> HIDE DEF F
  <2> QED
    BY <1>9, <1>10, <1>11 DEF Bijection, Injection, Surjection, IsInjective
<1>13. IsFiniteSet(S)
  <2>1. IsFiniteSet(1 .. n)
    BY FS_Interval
  <2>2. IsFiniteSet(D)
    BY <1>6, <2>1, FS_Subset
  <2>3. f \in [D -> Amounts]
    BY <1>1, <1>6 DEF f
  <2> QED
    BY <2>2, <2>3, TotalType DEF S
<1>14. Cardinality(T) = Cardinality(S)
  BY <1>12, <1>13, FS_Bijection DEF ExistsBijection
<1>15. AllottedTo(allocations, A) = Cardinality(S)
  BY DEF AllottedTo, Total, S, f, D
<1> QED
  BY <1>14, <1>15 DEF Amount, T, q

\* It is to bring to each account what it is due, and takes nothing from any.
LEMMA DistributionAmounts ==
  ASSUME NEW t \in Tickers, NEW n \in Nat, NEW allocations \in [1 .. n -> Allocations],
         NEW a \in Accounts
  PROVE  LET q == Distribution(t, allocations) IN
           /\ \A i \in 1 .. Len(q) : q[i] \notin Outflow(t, a)
           /\ Amount(q, Outflow(t, a)) = 0
           /\ Amount(q, Inflow(t, a))
                = AllottedTo(allocations, {r \in Accounts : Destination(r) = a})
<1> DEFINE q == Distribution(t, allocations)
           A == {r \in Accounts : Destination(r) = a}
<1>1. /\ q \in Seq(Actions) /\ Len(q) = n + 1
      /\ \A i \in 1 .. n :
           /\ allocations[i].receiver \in Accounts /\ allocations[i].quantity \in Amounts
           /\ q[i] = Transfer1("transfer", Self, allocations[i].receiver, t,
                               allocations[i].quantity)
      /\ q[n + 1] = CloseOf(t)
  BY DistributionFields
<1> HIDE DEF q
<1>2. \A i \in 1 .. n :
        /\ q[i] \in Inflow(t, a) <=> allocations[i].receiver \in A
        /\ q[i] \notin Outflow(t, a)
  <2> SUFFICES ASSUME NEW i \in 1 .. n
               PROVE  /\ q[i] \in Inflow(t, a) <=> allocations[i].receiver \in A
                      /\ q[i] \notin Outflow(t, a)
    OBVIOUS
  <2> DEFINE x == Transfer1("transfer", Self, allocations[i].receiver, t, allocations[i].quantity)
  <2>1. /\ x \in Inflow(t, a) <=> Destination(allocations[i].receiver) = a
        /\ x \notin Outflow(t, a)
    BY <1>1, TransferFlows, TokensAssumption
  <2> QED
    BY <1>1, <2>1
<1>3. CloseOf(t) \notin Inflow(t, a) /\ CloseOf(t) \notin Outflow(t, a)
  BY FlowTypes DEF CloseOf
<1>4. Amount(q, Inflow(t, a)) = AllottedTo(allocations, A)
  <2> HIDE DEF A
  <2> QED
    BY <1>2, <1>3, DistributionAmount DEF q
<1>5. \A i \in 1 .. Len(q) : q[i] \notin Outflow(t, a)
  BY <1>1, <1>2, <1>3
<1>6. Amount(q, Outflow(t, a)) = 0
  <2>1. UnitsOf(q, Outflow(t, a)) = {}
    <3> SUFFICES ASSUME NEW u \in UnitsOf(q, Outflow(t, a)) PROVE FALSE
      OBVIOUS
    <3>1. u[1] \in 1 .. Len(q) /\ q[Len(q) + 1 - u[1]] \in Outflow(t, a)
      BY DEF UnitsOf
    <3>2. Len(q) + 1 - u[1] \in 1 .. Len(q)
      BY <1>1, <3>1
    <3> QED
      BY <1>5, <3>1, <3>2
  <2> QED
    BY <2>1, FS_EmptySet DEF Amount
<1> QED
  BY <1>4, <1>5, <1>6 DEF q, A

LEMMA ExactIsEnough == Inv /\ Ordered /\ ExactlyDeliverable => Deliverable
<1> SUFFICES ASSUME Inv, Ordered, ExactlyDeliverable, launch # NoLaunch, NEW a \in Others
             PROVE  tokens[launch.ticker].balance[a] + Amount(todo, Inflow(launch.ticker, a))
                      >= committed[launch.ticker].balance[a] + Due(a)
                           + Amount(todo, Outflow(launch.ticker, a))
  BY DEF Deliverable, Others
<1> DEFINE has == tokens[launch.ticker].balance[a] + Amount(todo, Inflow(launch.ticker, a))
           owes == committed[launch.ticker].balance[a] + Due(a)
                     + Amount(todo, Outflow(launch.ticker, a))
<1>1. has = owes
  BY DEF ExactlyDeliverable, Others
<1>2. has \in Nat
  <2>1. a \in Accounts /\ tokens[launch.ticker] \in Ledgers
    BY DEF Others, Ordered, Inv, TypeOK
  <2>2. tokens[launch.ticker].balance[a] \in Nat
    BY <2>1, LedgerFields, AmountsAreNumbers
  <2>3. Amount(todo, Inflow(launch.ticker, a)) \in Nat
    BY AmountType DEF Inv, TypeOK
  <2> QED
    BY <2>2, <2>3
<1> HIDE DEF has, owes
<1>3. has >= owes
  BY <1>1, <1>2
<1> QED
  BY <1>3 DEF has, owes

\* At first, what is queued is what is due.
LEMMA DistributionStarts ==
  ASSUME Delivery, Idle, NEW a, NEW t \in Tickers, NEW n \in Nat,
         NEW allocations \in [1 .. n -> Allocations], Distribute(a, t, allocations)
  PROVE  Ordered' /\ ExactlyDeliverable'
<1> DEFINE acts == Distribution(t, allocations)
<1>1. Inv /\ tokens \in [Tickers -> Ledgers]
  BY DEF Delivery, Inv, TypeOK
<1>2. todo = <<>> /\ launch = NoLaunch /\ committed = tokens
  BY DEF Idle, Delivery, Ordered
<1>3. /\ Continue(tokens, acts, <<>>)
      /\ launch' = [ticker |-> t, allocations |-> allocations]
  BY <1>2 DEF Distribute, Distribution, CloseOf, Idle
<1>4. /\ acts \in Seq(Actions) /\ Len(acts) = n + 1 /\ acts # <<>>
      /\ acts[n + 1] = CloseOf(t) /\ OwnTransfers(acts)
  BY DistributionFields
<1>5. \A b \in Accounts :
        /\ Amount(acts, Outflow(t, b)) = 0
        /\ Amount(acts, Inflow(t, b))
             = AllottedTo(allocations, {r \in Accounts : Destination(r) = b})
  BY DistributionAmounts
<1> HIDE DEF acts
<1>6. todo' = acts
  <2>1. acts \o <<>> = acts
    BY <1>4, ConcatEmptySeq
  <2> QED
    BY <1>3, <2>1 DEF Continue
<1>7. /\ tokens' = tokens /\ committed' = tokens /\ forwards' = forwards
      /\ launch'.ticker = t /\ launch'.allocations = allocations
  BY <1>2, <1>3, <1>4, <1>6 DEF Continue
<1>8. Ordered'
  BY <1>4, <1>6, <1>7 DEF Ordered, OwnTransfers, Idle
<1>9. ASSUME NEW b \in Accounts \ {Self}
      PROVE  (tokens[launch.ticker].balance[b] + Amount(todo, Inflow(launch.ticker, b))
                = committed[launch.ticker].balance[b] + Due(b)
                    + Amount(todo, Outflow(launch.ticker, b)))'
  <2>1. /\ Inflow(launch.ticker, b)' = Inflow(t, b)
        /\ Outflow(launch.ticker, b)' = Outflow(t, b)
    BY <1>7 DEF Inflow, Outflow, Destination
  <2>2. Due(b)' = AllottedTo(allocations, {r \in Accounts : Destination(r) = b})
    BY <1>7 DEF Due, Destination
  <2> DEFINE has == tokens[t].balance[b]
             due == AllottedTo(allocations, {r \in Accounts : Destination(r) = b})
             I == Amount(acts, Inflow(t, b))
             O == Amount(acts, Outflow(t, b))
  <2>3. I = due /\ O = 0 /\ I \in Nat
    BY <1>4, <1>5, AmountType
  <2>4. has \in Nat
    BY <1>1, LedgerFields, AmountsAreNumbers
  <2> HIDE DEF has, due, I, O
  <2>5. has + I = has + due + O
    BY <2>3, <2>4
  <2> QED
    BY <1>6, <1>7, <2>1, <2>2, <2>5 DEF has, due, I, O
<1> QED
  BY <1>8, <1>9 DEF ExactlyDeliverable

\* A distribution that a creator starts, or that a contract starts in its turn.
LEMMA DistributeDelivery ==
  ASSUME Delivery, NEW a \in Active, NEW t \in Tickers, NEW n \in 1 .. MaxAllocations,
         NEW allocations \in [1 .. n -> Allocations], Distribute(a, t, allocations)
  PROVE  Delivery'
<1> DEFINE acts == Distribution(t, allocations)
<1>1. /\ Inv /\ a \in Accounts /\ n \in Nat /\ todo \in Seq(Actions)
      /\ tokens \in [Tickers -> Ledgers]
  BY ActiveReacts, TokensAssumption DEF Delivery, Inv, TypeOK
<1>2. Inv'
  BY <1>1, DistributeInv
<1>3. /\ Continue(tokens, acts, todo)
      /\ launch' = IF Idle THEN [ticker |-> t, allocations |-> allocations] ELSE launch
  BY DEF Distribute, Distribution, CloseOf
<1>4. /\ acts \in Seq(Actions) /\ Len(acts) = n + 1 /\ acts # <<>>
      /\ acts[n + 1] = CloseOf(t) /\ OwnTransfers(acts)
  BY <1>1, DistributionFields
<1>6. \A u \in Tickers, b \in Accounts : \A i \in 1 .. Len(acts) : acts[i] \notin Outflow(u, b)
  <2> SUFFICES ASSUME NEW u \in Tickers, NEW b \in Accounts, NEW i \in 1 .. n + 1,
                      acts[i] \in Outflow(u, b)
               PROVE  FALSE
    BY <1>4
  <2>1. i \in 1 .. n => acts[i] = Transfer1("transfer", Self, allocations[i].receiver, t,
                                            allocations[i].quantity)
    BY <1>1, DistributionFields
  <2>2. acts[i].act = "transfer2"
    BY DEF Outflow
  <2>3. i \in 1 .. n \/ i = n + 1
    BY <1>1
  <2> QED
    BY <1>4, <2>1, <2>2, <2>3 DEF Transfer1, CloseOf
<1> HIDE DEF acts
<1>7. CASE Idle
  <2>1. Ordered' /\ ExactlyDeliverable'
    BY <1>1, <1>7, DistributionStarts
  <2>2. (Inv /\ Ordered /\ ExactlyDeliverable)' => Deliverable'
    BY ExactIsEnough, PTL
  <2> QED
    BY <1>2, <2>1, <2>2 DEF Delivery
<1>8. CASE ~ Idle
  <2>1. UNCHANGED launch /\ Settle /\ Rest(todo) /\ Head(todo).act # "close"
    BY <1>3, <1>4, <1>8, UnchangedSettles DEF Active
  <2>2. NoWorse
    <3> DEFINE u == launch.ticker
    <3> SUFFICES ASSUME launch # NoLaunch, NEW b \in Others
                 PROVE  tokens'[u].balance[b] + Amount(todo', Inflow(u, b)) + Amount(todo, Outflow(u, b))
                          >= tokens[u].balance[b] + Amount(todo, Inflow(u, b))
                               + Amount(todo', Outflow(u, b))
      BY DEF NoWorse
    <3>1. u \in Tickers /\ b \in Accounts /\ todo' = acts \o todo /\ tokens' = tokens
      <4>1. u \in Tickers /\ b \in Accounts
        BY DEF Delivery, Ordered, Others
      <4>2. todo' = acts \o todo /\ tokens' = tokens
        BY <1>3 DEF Continue
      <4> QED
        BY <4>1, <4>2
    <3>2. /\ Amount(todo', Inflow(u, b)) >= Amount(todo, Inflow(u, b))
          /\ Amount(todo', Outflow(u, b)) = Amount(todo, Outflow(u, b))
      BY <1>1, <1>4, <1>6, <3>1, AmountOfFront
    <3>3. /\ Amount(todo', Inflow(u, b)) \in Nat /\ Amount(todo, Inflow(u, b)) \in Nat
          /\ Amount(todo, Outflow(u, b)) \in Nat
      BY <1>1, <1>2, AmountType DEF Inv, TypeOK
    <3> DEFINE has == tokens[u].balance[b]
               I == Amount(todo, Inflow(u, b))
               J == Amount(todo', Inflow(u, b))
               O == Amount(todo, Outflow(u, b))
    <3>4. has \in Nat
      BY <1>1, <3>1, LedgerFields, AmountsAreNumbers
    <3>5. tokens'[u].balance[b] = has /\ Amount(todo', Outflow(u, b)) = O
      BY <3>1, <3>2
    <3>6. J >= I /\ I \in Nat /\ J \in Nat /\ O \in Nat
      BY <3>2, <3>3
    <3> HIDE DEF has, I, J, O
    <3>7. has + J + O >= has + I + O
      BY <3>4, <3>6
    <3> QED
      BY <3>5, <3>7 DEF has, I, J, O
  <2> QED
    BY <1>2, <1>3, <1>4, <2>1, <2>2, DeliveryStep
<1> QED
  BY <1>7, <1>8

LEMMA SetupDelivery == ASSUME Delivery, Setup PROVE Delivery'
<1>1. Inv /\ Inv'
  BY SetupInv DEF Delivery
<1>2. Idle /\ launch = NoLaunch /\ committed = tokens
  BY DEF Delivery, Ordered, Setup, Create, SetConfig, RegistryChange, SetForward
<1>3. Idle' /\ launch' = NoLaunch /\ committed' = tokens'
  <2>1. CASE \E issuer \in Accounts, t \in Tickers, max \in Amounts : Create(issuer, t, max)
    <3>1. todo' = <<>> \o <<>> /\ UNCHANGED launch
          /\ committed' = (IF todo' = <<>> THEN tokens' ELSE committed)
      BY <2>1 DEF Create, Continue
    <3>2. <<>> \o <<>> = <<>>
      BY EmptySeq, ConcatEmptySeq
    <3> QED
      BY <1>2, <3>1, <3>2 DEF Idle
  <2>2. CASE ~ \E issuer \in Accounts, t \in Tickers, max \in Amounts : Create(issuer, t, max)
    BY <1>2, <2>2 DEF Setup, SetConfig, RegistryChange, SetForward, Idle
  <2> QED
    BY <2>1, <2>2
<1>4. \A i \in 1 .. Len(todo') : FALSE
  BY <1>3 DEF Idle
<1> QED
  BY <1>1, <1>3, <1>4 DEF Delivery, Ordered, Deliverable

LEMMA AbortDelivery == ASSUME Delivery, Abort PROVE Delivery'
<1>1. Inv'
  BY PendingInv DEF Delivery
<1>2. todo' = <<>> /\ launch' = NoLaunch /\ committed' = tokens'
  BY DEF Abort
<1>3. \A i \in 1 .. Len(todo') : FALSE
  BY <1>2
<1> QED
  BY <1>1, <1>2, <1>3 DEF Delivery, Ordered, Deliverable

LEMMA DeliveryNext == Delivery /\ [Next]_vars => Delivery'
<1> SUFFICES ASSUME Delivery, [Next]_vars PROVE Delivery'
  OBVIOUS
<1>1. CASE UNCHANGED vars
  <2>1. Inv'
    BY <1>1, NextInv DEF Delivery
  <2>2. Ordered' /\ Deliverable'
    BY <1>1 DEF vars, Delivery, Ordered, Deliverable, Idle, Due, Destination, Inflow, Outflow
  <2> QED
    BY <2>1, <2>2 DEF Delivery
<1>2. ASSUME NEW a \in Active, ActionOf(a) PROVE Delivery'
  BY <1>2, SupplyActionsDelivery, RowActionsDelivery, TransferDelivery, DistributeDelivery
     DEF ActionOf
<1>3. CASE Pending
  BY <1>3, InlineTransfersDelivery, CloseDelivery DEF Pending
<1> QED
  BY <1>1, <1>2, <1>3, SetupDelivery, AbortDelivery DEF Next

LEMMA DeliveryInit == Init => Delivery
<1> SUFFICES ASSUME Init PROVE Delivery
  OBVIOUS
<1>1. todo = <<>> /\ launch = NoLaunch /\ committed = tokens
  BY DEF Init
<1>2. \A i \in 1 .. Len(todo) : FALSE
  BY <1>1
<1> QED
  BY <1>1, <1>2, InitInv DEF Delivery, Ordered, Deliverable

LEMMA DeliveryAlways == Spec => []Delivery
BY DeliveryInit, DeliveryNext, PTL DEF Spec

----
\* Every ledger, committed or in the middle of a transaction, is well formed; so
\* is the queue of inline actions, whoever reacted to what.
THEOREM TypeCorrect == Spec => []TypeOK
<1>1. Inv => TypeOK
  BY DEF Inv
<1> QED
  BY <1>1, InvAlways, PTL

\* The balances of a token sum to its supply, within its maximum, at every point
\* of every transaction and in what a failed transaction rolls back to.
THEOREM SupplyIsConserved == Spec => []SupplyConserved
<1>1. Inv => SupplyConserved
  BY DEF Inv
<1> QED
  BY <1>1, InvAlways, PTL

\* A commit with a distribution under way is the close of its ticker, the last of
\* its actions.
LEMMA DistributionCommits ==
  ASSUME Delivery, [Next]_vars, launch # NoLaunch, todo' = <<>>, committed' # committed
  PROVE  /\ ~ Idle /\ launch.ticker \in Tickers
         /\ Tail(todo) = <<>> /\ Head(todo) = CloseOf(launch.ticker)
         /\ CloseThen(Self, launch.ticker, <<>>)
<1>1. ~ Idle /\ Inv /\ todo \in Seq(Actions) /\ todo # <<>>
  BY DEF Delivery, Ordered, Inv, TypeOK, Idle
<1>2. ~ Abort /\ ~ Setup /\ ~ UNCHANGED vars
  BY <1>1 DEF Abort, Setup, Create, SetConfig, RegistryChange, SetForward, vars
<1>3. ASSUME NEW a \in Active, ActionOf(a) PROVE FALSE
  <2>1. \E new : \E acts \in Seq(Actions) : Continue(new, acts, todo)
    <3>1. ASSUME NEW t \in Tickers, NEW n \in 1 .. MaxAllocations,
                 NEW allocations \in [1 .. n -> Allocations], Distribute(a, t, allocations)
          PROVE  \E new : \E acts \in Seq(Actions) : Continue(new, acts, todo)
      <4>1. Distribution(t, allocations) \in Seq(Actions)
        BY <3>1, DistributionFields, TokensAssumption
      <4>2. Continue(tokens, Distribution(t, allocations), todo)
        BY <3>1 DEF Distribute, Distribution, CloseOf
      <4> QED
        BY <4>1, <4>2
    <3>2. ASSUME NEW t \in Tickers, NEW q \in Amounts, NEW to \in Accounts,
                 Transfer(a, to, t, q) \/ Transfer2(a, to, t, q)
          PROVE  \E new : \E acts \in Seq(Actions) : Continue(new, acts, todo)
      <4>0. a \in Accounts /\ Payers(a, to) \subseteq Accounts
        BY <1>1, ActiveReacts, TokensAssumption DEF Payers
      <4>1. CASE Transfer(a, to, t, q)
        <5>1. PICK r \in Accounts : TransferThen(a, to, r, t, q, todo)
          BY <4>0, <4>1 DEF Transfer
        <5>2. PICK L \in Ledgers, acts \in Seq(Actions) :
                TransferOutcome(a, to, t, q, todo, L, acts)
          BY <1>1, <4>0, <5>1, TransferEffect
        <5> QED
          BY <5>2 DEF TransferOutcome
      <4>2. CASE Transfer2(a, to, t, q)
        <5>1. PICK r \in Accounts : Transfer2Then(a, to, r, t, q, todo)
          BY <4>0, <4>2 DEF Transfer2
        <5>2. PICK L \in Ledgers, acts \in Seq(Actions) :
                Transfer2Outcome(a, to, t, q, todo, L, acts)
          BY <1>1, <4>0, <5>1, Transfer2Effect
        <5> QED
          BY <5>2 DEF Transfer2Outcome
      <4> QED
        BY <3>2, <4>1, <4>2
    <3>3. ASSUME NEW t \in Tickers, NEW q \in Amounts,
                 \/ Issue(a, t, q) \/ IssueFixed(a, t, q) \/ SetMaxSupply(a, t, q)
                 \/ Retire(a, t, q) \/ SetSupply(a, t, q)
                 \/ Close(a, t) \/ \E owner \in Accounts : Open(owner, t, a)
          PROVE  \E new : Continue(new, <<>>, todo)
      BY <3>3 DEF Issue, IssueFixed, SetMaxSupply, Retire, SetSupply, Close, CloseThen, CanClose, Open
    <3>4. <<>> \in Seq(Actions) /\ \E q : q \in Amounts
      BY QueueTypes, AmountsAreNumbers
    <3> QED
      BY <1>3, <3>1, <3>2, <3>3, <3>4, Zenon DEF ActionOf
  <2>2. PICK new, acts : acts \in Seq(Actions) /\ Continue(new, acts, todo)
    BY <2>1
  <2>3. todo' = acts \o todo
    BY <2>2 DEF Continue
  <2>4. /\ Len(acts \o todo) = Len(acts) + Len(todo)
        /\ Len(acts) \in Nat /\ Len(todo) \in Nat /\ Len(todo) # 0
    BY <1>1, <2>2, FrontOf
  <2>5. Len(acts \o todo) = 0
    BY <2>3, EmptySeq
  <2> QED
    BY <2>4, <2>5
<1>4. Pending
  BY <1>2, <1>3 DEF Next
<1>5. PICK new, acts : acts \in Seq(Actions) /\ Continue(new, acts, Tail(todo))
  <2>1. CASE InlineTransfer
    <3>1. PICK L \in Ledgers, acts \in Seq(Actions) :
            TransferOutcome(Head(todo).from, Head(todo).to, Head(todo).ticker,
                            Head(todo).quantity, Tail(todo), L, acts)
      BY <1>1, <2>1, HeadTypes, TransferEffect DEF InlineTransfer
    <3> QED
      BY <3>1 DEF TransferOutcome
  <2>2. CASE InlineTransfer2
    <3>1. PICK L \in Ledgers, acts \in Seq(Actions) :
            Transfer2Outcome(Head(todo).from, Head(todo).to, Head(todo).ticker,
                             Head(todo).quantity, Tail(todo), L, acts)
      BY <1>1, <2>2, HeadTypes, Transfer2Effect DEF InlineTransfer2
    <3> QED
      BY <3>1 DEF Transfer2Outcome
  <2>3. CASE InlineClose \/ EndReaction
    BY <2>3, QueueTypes DEF InlineClose, CloseThen, CanClose, EndReaction
  <2> QED
    BY <1>4, <2>1, <2>2, <2>3 DEF Pending
<1>6. Tail(todo) = <<>>
  <2>1. /\ Tail(todo) \in Seq(Actions) /\ acts \o Tail(todo) = <<>>
    BY <1>1, <1>5, TailOf DEF Continue
  <2>2. /\ Len(acts \o Tail(todo)) = Len(acts) + Len(Tail(todo))
        /\ Len(acts) \in Nat /\ Len(Tail(todo)) \in Nat
        /\ Tail(todo) = <<>> <=> Len(Tail(todo)) = 0
    BY <1>5, <2>1, FrontOf
  <2>3. Len(acts \o Tail(todo)) = 0
    BY <2>1, EmptySeq
  <2> QED
    BY <2>2, <2>3
<1>7. Head(todo) = CloseOf(launch.ticker) /\ launch.ticker \in Tickers
  <2>1. Len(todo) = 1 /\ Head(todo) = todo[1]
    <3>1. Len(Tail(todo)) = Len(todo) - 1 /\ Len(todo) \in Nat /\ Head(todo) = todo[1]
      BY <1>1, TailOf
    <3>2. Len(Tail(todo)) = 0
      BY <1>6, EmptySeq
    <3> QED
      BY <3>1, <3>2
  <2> QED
    BY <2>1 DEF Delivery, Ordered
<1>8. InlineClose
  BY <1>4, <1>7 DEF Pending, InlineTransfer, InlineTransfer2, EndReaction, CloseOf
<1>9. CloseThen(Self, launch.ticker, <<>>)
  <2>1. Head(todo).ticker = launch.ticker
    BY <1>7 DEF CloseOf
  <2>2. CloseThen(Self, Head(todo).ticker, Tail(todo))
    BY <1>8 DEF InlineClose
  <2> QED
    BY <1>6, <2>1, <2>2, Zenon
<1> QED
  BY <1>1, <1>6, <1>7, <1>9

\* Then nothing is left to be paid or passed on.
LEMMA NothingLeft ==
  ASSUME Delivery, [Next]_vars, launch # NoLaunch, todo' = <<>>, committed' # committed
  PROVE  LET t == launch.ticker IN
           /\ Inv /\ t \in Tickers
           /\ ~ HasRow(tokens'[t], Self) /\ tokens'[t].balance = tokens[t].balance
           /\ \A a \in Accounts : /\ tokens[t].balance[a] \in Nat
                                  /\ committed[t].balance[a] \in Nat
                                  /\ Amount(todo, Inflow(t, a)) = 0
                                  /\ Amount(todo, Outflow(t, a)) = 0
<1> DEFINE t == launch.ticker
           N == [tokens[t] EXCEPT !.payer[Self] = NoAccount]
<1>1. /\ Inv /\ ~ Idle /\ t \in Tickers /\ Tail(todo) = <<>> /\ Head(todo) = CloseOf(t)
      /\ tokens' = [tokens EXCEPT ![t] = N]
      /\ tokens \in [Tickers -> Ledgers] /\ committed \in [Tickers -> Ledgers]
      /\ Self \in Accounts
  BY DistributionCommits, TokensAssumption
     DEF Delivery, Inv, TypeOK, CloseThen, CanClose, Continue
<1>2. N.balance = tokens[t].balance /\ N.payer[Self] = NoAccount
  BY <1>1, LedgerFields DEF Ledgers
<1>3. tokens'[t] = N
  BY <1>1
<1>4. ~ HasRow(tokens'[t], Self)
  BY <1>2, <1>3 DEF HasRow
<1>5. ASSUME NEW a \in Accounts
      PROVE  /\ tokens[t].balance[a] \in Nat
             /\ committed[t].balance[a] \in Nat
             /\ Amount(todo, Inflow(t, a)) = 0
             /\ Amount(todo, Outflow(t, a)) = 0
  <2>1. tokens[t].balance[a] \in Nat /\ committed[t].balance[a] \in Nat
    <3>1. tokens[t] \in Ledgers /\ committed[t] \in Ledgers
      BY <1>1
    <3> QED
      BY <3>1, LedgerFields, AmountsAreNumbers
  <2>2. Head(todo) \notin Inflow(t, a) /\ Head(todo) \notin Outflow(t, a)
    BY <1>1, FlowTypes DEF CloseOf
  <2>3. /\ Amount(todo, Inflow(t, a)) = Amount(Tail(todo), Inflow(t, a)) + 0
        /\ Amount(todo, Outflow(t, a)) = Amount(Tail(todo), Outflow(t, a)) + 0
    BY <1>1, <2>2, TurnAmounts
  <2>4. UnitsOf(<<>>, Inflow(t, a)) = {} /\ UnitsOf(<<>>, Outflow(t, a)) = {}
    BY EmptySeq DEF UnitsOf
  <2>5. /\ Amount(Tail(todo), Inflow(t, a)) = 0
        /\ Amount(Tail(todo), Outflow(t, a)) = 0
    BY <1>1, <2>4, FS_EmptySet DEF Amount
  <2> QED
    BY <2>1, <2>3, <2>5
<1> QED
  BY <1>1, <1>2, <1>3, <1>4, <1>5

\* A distribution that commits has delivered to every account that is no contract
\* all its allocations add up to, whatever notified contracts did meanwhile, and
\* leaves the contract no row of the token.
THEOREM DistributionsAreDelivered == Spec => AllocationsDelivered
<1>1. Delivery /\ [Next]_vars =>
        ((launch # NoLaunch /\ todo' = <<>> /\ committed' # committed) =>
           LET was == committed[launch.ticker]
               now == tokens'[launch.ticker]
           IN /\ ~ HasRow(now, Self)
              /\ \A a \in Accounts \ ({Self} \cup Handlers) :
                   now.balance[a] >= was.balance[a] + Due(a))
  <2> SUFFICES ASSUME Delivery, [Next]_vars, launch # NoLaunch, todo' = <<>>,
                      committed' # committed
               PROVE  /\ ~ HasRow(tokens'[launch.ticker], Self)
                      /\ \A a \in Accounts \ ({Self} \cup Handlers) :
                           tokens'[launch.ticker].balance[a]
                             >= committed[launch.ticker].balance[a] + Due(a)
    OBVIOUS
  <2> DEFINE t == launch.ticker
  <2>1. /\ Inv /\ t \in Tickers
        /\ ~ HasRow(tokens'[t], Self) /\ tokens'[t].balance = tokens[t].balance
        /\ \A a \in Accounts : /\ tokens[t].balance[a] \in Nat
                               /\ committed[t].balance[a] \in Nat
                               /\ Amount(todo, Inflow(t, a)) = 0
                               /\ Amount(todo, Outflow(t, a)) = 0
    BY NothingLeft
  <2>2. ASSUME NEW a \in Others
        PROVE  tokens'[t].balance[a] >= committed[t].balance[a] + Due(a)
    <3> DEFINE has == tokens[t].balance[a]
               was == committed[t].balance[a]
               due == Due(a)
               I == Amount(todo, Inflow(t, a))
               O == Amount(todo, Outflow(t, a))
    <3>1. has + I >= was + due + O
      BY DEF Delivery, Deliverable, Others
    <3>2. I = 0 /\ O = 0 /\ has \in Nat /\ was \in Nat /\ due \in Nat
      BY <2>1, DueType DEF Others
    <3> HIDE DEF has, was, due, I, O
    <3>3. has >= was + due
      BY <3>1, <3>2
    <3> QED
      BY <2>1, <3>3 DEF has, was, due
  <2> QED
    BY <2>1, <2>2 DEF Others
<1> QED
  BY <1>1, DeliveryAlways, PTL DEF Spec, AllocationsDelivered

----
(* Where no notified contract acts but the forwarders. *)

\* Only distribute starts a launch.
LEMMA LaunchOfAction ==
  ASSUME NEW a, ActionOf(a)
  PROVE  \/ UNCHANGED launch
         \/ Idle /\ \E t \in Tickers : \E n \in 1 .. MaxAllocations :
              \E allocations \in [1 .. n -> Allocations] : Distribute(a, t, allocations)
<1>1. ASSUME NEW t \in Tickers, NEW n \in 1 .. MaxAllocations,
             NEW allocations \in [1 .. n -> Allocations], Distribute(a, t, allocations)
      PROVE  Idle \/ UNCHANGED launch
  BY <1>1 DEF Distribute
<1>2. ASSUME NEW t \in Tickers, NEW q \in Amounts,
             \/ Issue(a, t, q) \/ IssueFixed(a, t, q) \/ SetMaxSupply(a, t, q)
             \/ Retire(a, t, q) \/ SetSupply(a, t, q)
      PROVE  UNCHANGED launch
  BY <1>2 DEF Issue, IssueFixed, SetMaxSupply, Retire, SetSupply
<1>3. ASSUME NEW t \in Tickers, NEW q \in Amounts, NEW to \in Accounts,
             Transfer(a, to, t, q) \/ Transfer2(a, to, t, q)
      PROVE  UNCHANGED launch
  BY <1>3 DEF Transfer, Transfer2
<1>4. ASSUME NEW t \in Tickers, Close(a, t) \/ \E owner \in Accounts : Open(owner, t, a)
      PROVE  UNCHANGED launch
  BY <1>4 DEF Close, Open
<1> QED
  BY <1>1, <1>2, <1>3, <1>4 DEF ActionOf

LEMMA NoLaunchHere ==
  ASSUME Setup \/ Abort, Idle => launch = NoLaunch
  PROVE  launch' = NoLaunch
BY DEF Setup, Create, SetConfig, RegistryChange, SetForward, Abort

LEMMA EvenExact ==
  ASSUME Delivery, Delivery', ExactlyDeliverable, Even, Settle, forwards' = forwards,
         todo' # <<>> => committed' = committed
  PROVE  ExactlyDeliverable'
<1> SUFFICES ASSUME launch' # NoLaunch, NEW a \in Accounts \ {Self}
             PROVE  (tokens[launch.ticker].balance[a] + Amount(todo, Inflow(launch.ticker, a))
                       = committed[launch.ticker].balance[a] + Due(a)
                           + Amount(todo, Outflow(launch.ticker, a)))'
  BY DEF ExactlyDeliverable
<1>1. launch' = launch /\ committed' = committed /\ launch # NoLaunch
  BY DEF Settle
<1> DEFINE t == launch.ticker
<1>2. /\ Due(a)' = Due(a)
      /\ Inflow(launch.ticker, a)' = Inflow(t, a)
      /\ Outflow(launch.ticker, a)' = Outflow(t, a)
  BY <1>1 DEF Due, Inflow, Outflow, Destination
<1> DEFINE now  == tokens'[t].balance[a]
           was  == tokens[t].balance[a]
           owed == committed[t].balance[a]
           due  == Due(a)
           I1 == Amount(todo', Inflow(t, a))
           I0 == Amount(todo, Inflow(t, a))
           O1 == Amount(todo', Outflow(t, a))
           O0 == Amount(todo, Outflow(t, a))
<1>3. now + I1 + O0 = was + I0 + O1
  BY <1>1 DEF Even
<1>4. was + I0 = owed + due + O0
  BY <1>1 DEF ExactlyDeliverable
<1>5. I1 \in Nat /\ I0 \in Nat /\ O1 \in Nat /\ O0 \in Nat
  BY AmountType DEF Delivery, Inv, TypeOK
<1>6. now \in Nat /\ was \in Nat /\ owed \in Nat
  <2>1. t \in Tickers
    BY <1>1 DEF Delivery, Ordered
  <2>2. tokens[t] \in Ledgers /\ tokens'[t] \in Ledgers /\ committed[t] \in Ledgers
    BY <2>1 DEF Delivery, Inv, TypeOK
  <2> QED
    BY <2>2, LedgerFields, AmountsAreNumbers
<1>7. due \in Nat
  BY DueType DEF Delivery
<1> HIDE DEF now, was, owed, due, I0, I1, O0, O1
<1>8. now + I1 = owed + due + O1
  BY <1>3, <1>4, <1>5, <1>6, <1>7
<1> QED
  BY <1>1, <1>2, <1>8 DEF now, owed, due, I1, O1

LEMMA InlineCloseEven ==
  ASSUME Delivery, InlineClose
  PROVE  Even /\ forwards' = forwards /\ (todo' # <<>> => committed' = committed)
<1> DEFINE u == Head(todo).ticker
           N == [tokens[u] EXCEPT !.payer[Self] = NoAccount]
<1>1. /\ Inv /\ ~ Idle /\ Head(todo).act = "close" /\ u \in Tickers
      /\ Continue([tokens EXCEPT ![u] = N], <<>>, Tail(todo))
      /\ tokens \in [Tickers -> Ledgers] /\ Tail(todo) \in Seq(Actions)
  BY HeadTypes DEF Delivery, Inv, TypeOK, InlineClose, CloseThen, CanClose
<1>2. N.balance = tokens[u].balance
  BY <1>1 DEF Ledgers
<1>3. /\ tokens' = [tokens EXCEPT ![u] = N] /\ todo' = Tail(todo)
      /\ forwards' = forwards /\ (todo' # <<>> => committed' = committed)
  <2>1. <<>> \o Tail(todo) = Tail(todo)
    BY <1>1, ConcatEmptySeq
  <2> QED
    BY <1>1, <2>1 DEF Continue
<1> HIDE DEF N, u
<1>4. \A t \in Tickers : tokens'[t].balance = tokens[t].balance
  BY <1>1, <1>2, <1>3
<1>5. \A t, a : Head(todo) \notin Inflow(t, a) /\ Head(todo) \notin Outflow(t, a)
  BY <1>1, FlowTypes
<1>6. ASSUME NEW t, NEW a
      PROVE  /\ Amount(todo', Inflow(t, a)) = Amount(todo, Inflow(t, a))
             /\ Amount(todo', Outflow(t, a)) = Amount(todo, Outflow(t, a))
  <2>1. /\ Amount(todo, Inflow(t, a)) = Amount(Tail(todo), Inflow(t, a)) + 0
        /\ Amount(todo, Outflow(t, a)) = Amount(Tail(todo), Outflow(t, a)) + 0
        /\ Amount(Tail(todo), Inflow(t, a)) \in Nat
        /\ Amount(Tail(todo), Outflow(t, a)) \in Nat
    BY <1>1, <1>5, TurnAmounts
  <2> QED
    BY <1>3, <2>1
<1>7. launch # NoLaunch => launch.ticker \in Tickers
  BY DEF Delivery, Ordered
<1>8. Even
  BY <1>4, <1>6, <1>7 DEF Even
<1> QED
  BY <1>3, <1>8

LEMMA ExactNext ==
  Handlers = {} /\ Delivery /\ ExactlyDeliverable /\ [Next]_vars => ExactlyDeliverable'
<1> SUFFICES ASSUME Handlers = {}, Delivery, ExactlyDeliverable, [Next]_vars
             PROVE  ExactlyDeliverable'
  OBVIOUS
<1>1. CASE UNCHANGED vars
  BY <1>1 DEF vars, ExactlyDeliverable, Due, Destination, Inflow, Outflow
<1>2. ASSUME launch' = NoLaunch PROVE ExactlyDeliverable'
  BY <1>2 DEF ExactlyDeliverable
<1>3. Inv /\ Delivery'
  BY DeliveryNext DEF Delivery
<1>4. Idle => launch = NoLaunch
  BY DEF Delivery, Ordered
<1>9. CASE Setup \/ Abort
  BY <1>2, <1>4, <1>9, NoLaunchHere
<1>5. ASSUME NEW a \in Active, ActionOf(a) PROVE ExactlyDeliverable'
  <2>1. Idle
    BY <1>3, ActiveReacts
  <2>2. CASE UNCHANGED launch
    BY <1>2, <1>4, <2>1, <2>2
  <2>3. CASE \E t \in Tickers : \E n \in 1 .. MaxAllocations :
               \E allocations \in [1 .. n -> Allocations] : Distribute(a, t, allocations)
    BY <2>1, <2>3, DistributionStarts, TokensAssumption
  <2> QED
    BY <1>5, <2>2, <2>3, LaunchOfAction
<1>6. CASE InlineTransfer \/ InlineTransfer2
  <2>1. Turns /\ Even /\ Settle
    BY <1>6, InlineTransferEven, InlineTransfer2Even DEF InlineTransfer, InlineTransfer2
  <2>2. forwards' = forwards /\ (todo' # <<>> => committed' = committed)
    BY <2>1 DEF Turns, Continue
  <2> QED
    BY <1>3, <2>1, <2>2, EvenExact
<1>7. CASE InlineClose
  BY <1>3, <1>7, InlineCloseEven, EvenExact DEF InlineClose
<1>8. ~ EndReaction
  BY <1>3, HeadTypes DEF EndReaction
<1> QED
  BY <1>1, <1>5, <1>6, <1>7, <1>8, <1>9 DEF Next, Pending

\* Where no notified contract acts but the forwarders, a distribution that commits has
\* brought every other account exactly what its allocations add up to: what the
\* forwarders were paid is with their destinations, and not a token elsewhere.
THEOREM DistributionsAreExact == Handlers = {} => (Spec => AllocationsExact)
<1>1. Init => Delivery /\ ExactlyDeliverable
  BY DeliveryInit DEF Init, ExactlyDeliverable
<1>2. Handlers = {} /\ Delivery /\ ExactlyDeliverable /\ [Next]_vars =>
        (Delivery /\ ExactlyDeliverable)'
  BY DeliveryNext, ExactNext
<1>3. Delivery /\ ExactlyDeliverable /\ [Next]_vars =>
        ((launch # NoLaunch /\ todo' = <<>> /\ committed' # committed) =>
           LET was == committed[launch.ticker]
               now == tokens'[launch.ticker]
           IN /\ ~ HasRow(now, Self)
              /\ \A a \in Accounts \ {Self} : now.balance[a] = was.balance[a] + Due(a))
  <2> SUFFICES ASSUME Delivery, ExactlyDeliverable, [Next]_vars, launch # NoLaunch,
                      todo' = <<>>, committed' # committed
               PROVE  /\ ~ HasRow(tokens'[launch.ticker], Self)
                      /\ \A a \in Accounts \ {Self} :
                           tokens'[launch.ticker].balance[a]
                             = committed[launch.ticker].balance[a] + Due(a)
    OBVIOUS
  <2> DEFINE t == launch.ticker
  <2>1. /\ Inv /\ t \in Tickers
        /\ ~ HasRow(tokens'[t], Self) /\ tokens'[t].balance = tokens[t].balance
        /\ \A a \in Accounts : /\ tokens[t].balance[a] \in Nat
                               /\ committed[t].balance[a] \in Nat
                               /\ Amount(todo, Inflow(t, a)) = 0
                               /\ Amount(todo, Outflow(t, a)) = 0
    BY NothingLeft
  <2>2. ASSUME NEW a \in Accounts \ {Self}
        PROVE  tokens'[t].balance[a] = committed[t].balance[a] + Due(a)
    <3> DEFINE has == tokens[t].balance[a]
               was == committed[t].balance[a]
               due == Due(a)
               I == Amount(todo, Inflow(t, a))
               O == Amount(todo, Outflow(t, a))
    <3>1. has + I = was + due + O
      BY DEF ExactlyDeliverable
    <3>2. I = 0 /\ O = 0 /\ has \in Nat /\ was \in Nat /\ due \in Nat
      BY <2>1, DueType
    <3> HIDE DEF has, was, due, I, O
    <3>3. has = was + due
      BY <3>1, <3>2
    <3> QED
      BY <2>1, <3>3 DEF has, was, due
  <2> QED
    BY <2>1, <2>2
<1> SUFFICES ASSUME Handlers = {} PROVE Spec => AllocationsExact
  OBVIOUS
<1> QED
  BY <1>1, <1>2, <1>3, PTL DEF Spec, AllocationsExact

----
(* A distribution that was accepted, to receivers that are no contracts. *)

\* Whose turn it is: a payment's, or in the end that of the close.
LEMMA PlainTurn ==
  ASSUME Delivery, Accepted, launch # NoLaunch, OrdinaryReceivers
  PROVE  LET t == launch.ticker
             x == Head(todo)
         IN  /\ ~ Idle /\ t \in Tickers /\ x \in Actions /\ Tail(todo) \in Seq(Actions)
             /\ Len(Tail(todo)) \in Nat /\ Len(Tail(todo)) <= MaxPending
             /\ \/ /\ Tail(todo) = <<>> /\ x = CloseOf(t)
                   /\ tokens[t].balance[Self] = 0
                \/ /\ Tail(todo) # <<>>
                   /\ x = Transfer1("transfer", Self, x.to, t, x.quantity)
                   /\ x.to \in Accounts \ (Handlers \cup Contracts)
                   /\ x.quantity \in Amounts \ {0}
                   /\ HasRow(tokens[t], x.to)
                   /\ tokens[t].balance[Self] = Amount(Tail(todo), Paying(t)) + x.quantity
                   /\ Amount(Tail(todo), Paying(t)) \in Nat
<1> DEFINE t == launch.ticker
           x == Head(todo)
           rest == Tail(todo)
<1>1. /\ Inv /\ todo \in Seq(Actions) /\ todo # <<>> /\ ~ Idle /\ t \in Tickers
      /\ todo[Len(todo)] = CloseOf(t)
  BY DEF Delivery, Ordered, Inv, TypeOK, Idle
<1>2. /\ rest \in Seq(Actions) /\ Len(todo) \in Nat /\ Len(todo) >= 1
      /\ Len(rest) = Len(todo) - 1 /\ x = todo[1] /\ x \in Actions
  BY <1>1, TailOf
<1>3. /\ tokens[t].balance[Self] = Amount(todo, Paying(t))
      /\ Len(todo) <= MaxPending
      /\ \A i \in 1 .. Len(todo) - 1 :
           /\ todo[i].act = "transfer" /\ todo[i].ticker = t /\ todo[i].quantity > 0
           /\ todo[i].to \notin Handlers \cup Contracts
           /\ HasRow(tokens[t], todo[i].to)
  BY DEF Accepted
<1>4. Len(rest) \in Nat /\ Len(rest) <= MaxPending /\ (rest = <<>> <=> Len(rest) = 0)
  <2>1. MaxPending \in Nat
    BY TokensAssumption
  <2>2. rest = <<>> <=> Len(rest) = 0
    BY <1>2, QueueTypes, FrontOf
  <2> HIDE DEF rest
  <2> QED
    BY <1>2, <1>3, <2>1, <2>2
<1>5. x \in Paying(t) => x.quantity \in Amounts
  BY <1>2, TransferIsFields DEF Paying
<1>6. /\ Amount(todo, Paying(t)) = Amount(rest, Paying(t)) + (IF x \in Paying(t) THEN x.quantity ELSE 0)
      /\ Amount(rest, Paying(t)) \in Nat
  BY <1>1, <1>2, <1>5, AmountOfTail, AmountType
<1>7. CASE rest = <<>>
  <2>1. Len(todo) = 1
    BY <1>2, <1>4, <1>7
  <2>2. x = CloseOf(t)
    BY <1>1, <1>2, <2>1
  <2>3. x \notin Paying(t)
    BY <2>2 DEF CloseOf, Paying
  <2>4. Amount(rest, Paying(t)) = 0
    <3>1. UnitsOf(<<>>, Paying(t)) = {}
      BY EmptySeq DEF UnitsOf
    <3> QED
      BY <1>7, <3>1, FS_EmptySet DEF Amount
  <2>5. tokens[t].balance[Self] = 0
    BY <1>3, <1>6, <2>3, <2>4
  <2> QED
    BY <1>1, <1>2, <1>4, <1>7, <2>2, <2>5
<1>8. CASE rest # <<>>
  <2>1. 1 \in 1 .. Len(todo) - 1 /\ 1 \in 1 .. Len(todo)
    BY <1>2, <1>4, <1>8
  <2>2. /\ x.act = "transfer" /\ x.ticker = t /\ x.quantity > 0
        /\ x.to \notin Handlers \cup Contracts /\ HasRow(tokens[t], x.to)
    BY <1>2, <1>3, <2>1
  <2>3. x.from = Self
    BY <1>2, <2>1, <2>2 DEF Delivery, Ordered
  <2>4. /\ x = Transfer1(x.act, x.from, x.to, x.ticker, x.quantity)
        /\ x.to \in Accounts /\ x.quantity \in Amounts
    BY <1>2, <2>2, TransferIsFields
  <2>5. x = Transfer1("transfer", Self, x.to, t, x.quantity)
    BY <2>2, <2>3, <2>4
  <2>6. x \in Paying(t) /\ x.quantity \in Amounts \ {0}
    <3>1. x.quantity \in Nat
      BY <2>4, AmountsAreNumbers
    <3> QED
      BY <1>2, <2>2, <2>4, <3>1 DEF Paying
  <2>7. tokens[t].balance[Self] = Amount(rest, Paying(t)) + x.quantity
    BY <1>3, <1>6, <2>6
  <2> QED
    BY <1>1, <1>2, <1>4, <1>6, <1>8, <2>2, <2>4, <2>5, <2>6, <2>7
<1> QED
  BY <1>7, <1>8

\* No check of a payment can fail: its receiver's balance, with that of the contract,
\* is within the supply.
LEMMA PaymentPasses ==
  ASSUME Delivery, Accepted, launch # NoLaunch, OrdinaryReceivers, Tail(todo) # <<>>
  PROVE  LET x == Head(todo) IN CanTransfer(Self, x.to, launch.ticker, x.quantity)
<1> DEFINE t == launch.ticker
           L == tokens[t]
           to == Head(todo).to
           q == Head(todo).quantity
           rest == Tail(todo)
<1>1. /\ t \in Tickers /\ to \in Accounts \ (Handlers \cup Contracts) /\ q \in Amounts \ {0}
      /\ L.balance[Self] = Amount(rest, Paying(t)) + q /\ Amount(rest, Paying(t)) \in Nat
      /\ Exists(t) /\ HasRow(L, Self)
  BY PlainTurn DEF Accepted
<1>2. L \in Ledgers /\ Total(L.balance) = L.supply /\ L.supply <= L.maxSupply
  BY <1>1, TickersSound DEF Delivery, Sound, AddsUp
<1>3. /\ L.balance \in [Accounts -> Amounts] /\ L.supply \in Nat /\ L.maxSupply \in Amounts
      /\ Self \in Accounts /\ IsFiniteSet(Accounts) /\ Self # to
  BY <1>1, <1>2, LedgerFields, TokensAssumption DEF Contracts
<1> HIDE DEF t, L, to, q, rest
<1>4. L.balance[Self] + L.balance[to] <= L.supply
  BY <1>1, <1>2, <1>3, TotalBoundsPair
<1>5. /\ q \in Nat /\ q > 0 /\ L.balance[Self] \in Nat /\ L.balance[to] \in Nat
      /\ L.maxSupply \in Nat /\ L.maxSupply <= MaxAmount
  BY <1>1, <1>3, MaxAmountAssumption DEF Amounts
<1>6. L.balance[Self] >= q /\ L.balance[to] + q <= MaxAmount
  BY <1>1, <1>2, <1>3, <1>4, <1>5, MaxAmountAssumption
<1> QED
  BY <1>1, <1>3, <1>5, <1>6 DEF CanTransfer, CanSub, CanAdd, t, L, to, q

LEMMA AcceptedPasses == Delivery /\ Accepted => AcceptedDistributionCompletes
<1> SUFFICES ASSUME Delivery, Accepted, launch # NoLaunch, OrdinaryReceivers PROVE NextPasses
  BY DEF AcceptedDistributionCompletes
<1> DEFINE t == launch.ticker
           x == Head(todo)
<1>1. ~ Idle /\ Len(Tail(todo)) <= MaxPending
  BY PlainTurn
<1>2. CASE Tail(todo) = <<>>
  <2>1. x = CloseOf(t) /\ CanClose(Self, t)
    BY <1>2, PlainTurn DEF Accepted, CanClose
  <2>2. x.act = "close" /\ x.ticker = t
    BY <2>1 DEF CloseOf
  <2> QED
    BY <1>1, <2>1, <2>2 DEF NextPasses
<1>3. CASE Tail(todo) # <<>>
  <2>1. x = Transfer1("transfer", Self, x.to, t, x.quantity)
    BY <1>3, PlainTurn
  <2>2. x.act = "transfer" /\ x.from = Self /\ x.ticker = t
    BY <2>1 DEF Transfer1
  <2>3. CanTransfer(Self, x.to, t, x.quantity)
    BY <1>3, PaymentPasses
  <2> QED
    BY <1>1, <2>2, <2>3 DEF NextPasses
<1> QED
  BY <1>2, <1>3

\* A payment leaves the contract with what the rest of the queue is to pay.
LEMMA PaymentAccepted == ASSUME Delivery, Accepted, InlineTransfer PROVE Accepted'
<1> SUFFICES ASSUME launch' # NoLaunch, OrdinaryReceivers'
             PROVE  (LET t == launch.ticker IN
                       /\ Exists(t) /\ HasRow(tokens[t], Self)
                       /\ tokens[t].balance[Self] = Amount(todo, Paying(t))
                       /\ Len(todo) <= MaxPending
                       /\ \A i \in 1 .. Len(todo) - 1 :
                            /\ todo[i].act = "transfer" /\ todo[i].ticker = t
                            /\ todo[i].quantity > 0
                            /\ todo[i].to \notin Handlers \cup Contracts
                            /\ HasRow(tokens[t], todo[i].to))'
  BY DEF Accepted
<1> DEFINE t == launch.ticker
           L == tokens[t]
           x == Head(todo)
           to == x.to
           q == x.quantity
           rest == Tail(todo)
           moved == AddBalance(SubBalance(L, Self, q, Self), to, q, Self)
<1>1. launch' = launch /\ launch # NoLaunch /\ OrdinaryReceivers
  BY DEF InlineTransfer, Settle, OrdinaryReceivers
<1>2. /\ t \in Tickers /\ rest \in Seq(Actions) /\ Len(rest) \in Nat /\ Len(rest) <= MaxPending
      /\ x = Transfer1("transfer", Self, to, t, q)
      /\ to \in Accounts \ (Handlers \cup Contracts) /\ q \in Amounts \ {0}
      /\ L.balance[Self] = Amount(rest, Paying(t)) + q /\ Amount(rest, Paying(t)) \in Nat
  <2>1. x # CloseOf(t)
    BY DEF InlineTransfer, CloseOf
  <2> QED
    BY <1>1, <2>1, PlainTurn
<1>3. Reacts(Self) = <<>> /\ Reacts(to) = <<>> /\ to \notin Forwarders /\ Self # to
      /\ Self \in Accounts
  BY <1>2, TokensAssumption DEF Reacts, Contracts
<1>4. /\ CanTransfer(Self, to, t, q)
      /\ Continue([tokens EXCEPT ![t] = moved], Reacts(Self) \o Reacts(to), rest)
  <2>1. x.from = Self /\ x.ticker = t
    BY <1>2 DEF Transfer1
  <2>2. TransferThen(Self, to, Self, t, q, rest)
    BY <2>1 DEF InlineTransfer
  <2> QED
    BY <1>3, <2>2 DEF TransferThen
<1>5. /\ Inv /\ L \in Ledgers /\ tokens \in [Tickers -> Ledgers]
      /\ todo \in Seq(Actions) /\ todo # <<>>
  BY <1>1, <1>2, TickersSound, PlainTurn DEF Delivery, Inv, TypeOK, Idle
<1>6. todo' = rest
  <2>1. <<>> \o rest = rest /\ <<>> \o <<>> = <<>>
    BY <1>2, EmptySeq, ConcatEmptySeq
  <2> QED
    BY <1>3, <1>4, <2>1 DEF Continue
<1>7. /\ moved.maxSupply = L.maxSupply
      /\ \A a \in Accounts :
           moved.balance[a] = IF a = Self THEN L.balance[a] - q
                              ELSE IF a = to THEN L.balance[a] + q ELSE L.balance[a]
      /\ \A a \in Accounts :
           moved.payer[a] = IF a = Self THEN Self
                            ELSE IF a = to /\ ~ HasRow(L, to) THEN Self ELSE L.payer[a]
  BY <1>2, <1>3, <1>4, <1>5, MovedFields DEF CanTransfer
<1>8. tokens'[t] = moved
  BY <1>2, <1>4, <1>5 DEF Continue
<1>9. \A i \in 1 .. Len(rest) - 1 :
        /\ rest[i].act = "transfer" /\ rest[i].ticker = t /\ rest[i].quantity > 0
        /\ rest[i].to \in Accounts \ (Handlers \cup Contracts) /\ HasRow(L, rest[i].to)
  <2> SUFFICES ASSUME NEW i \in 1 .. Len(rest) - 1
               PROVE  /\ rest[i].act = "transfer" /\ rest[i].ticker = t /\ rest[i].quantity > 0
                      /\ rest[i].to \in Accounts \ (Handlers \cup Contracts)
                      /\ HasRow(L, rest[i].to)
    OBVIOUS
  <2>1. /\ i + 1 \in 1 .. Len(todo) - 1 /\ rest[i] = todo[i + 1] /\ i \in 1 .. Len(rest)
    <3>1. /\ Len(rest) = Len(todo) - 1 /\ Len(todo) \in Nat
          /\ \A j \in 1 .. Len(todo) - 1 : rest[j] = todo[j + 1]
      BY <1>5, TailOf
    <3> HIDE DEF rest
    <3> QED
      BY <3>1
  <2>2. rest[i] \in Actions
    BY <1>2, <2>1, ElementOfSeq
  <2>3. /\ todo[i + 1].act = "transfer" /\ todo[i + 1].ticker = t /\ todo[i + 1].quantity > 0
        /\ todo[i + 1].to \notin Handlers \cup Contracts /\ HasRow(L, todo[i + 1].to)
    BY <1>1, <2>1 DEF Accepted
  <2>4. rest[i].to \in Accounts
    BY <2>1, <2>2, <2>3, TransferIsFields
  <2> QED
    BY <2>1, <2>3, <2>4
<1> HIDE DEF moved, rest, to, q
<1>10. \A a \in Accounts : HasRow(L, a) => HasRow(moved, a)
  BY <1>3, <1>7, TokensAssumption DEF HasRow
<1>11. HasRow(moved, Self) /\ moved.balance[Self] = Amount(rest, Paying(t))
  <2>1. moved.balance[Self] = L.balance[Self] - q /\ q \in Nat
    BY <1>2, <1>3, <1>7, AmountsAreNumbers
  <2> HIDE DEF L, t
  <2>2. moved.balance[Self] = Amount(rest, Paying(t))
    BY <1>2, <2>1
  <2> QED
    BY <1>3, <1>7, <2>2, TokensAssumption DEF HasRow
<1>12. moved.maxSupply > 0
  BY <1>1, <1>7 DEF Accepted, Exists
<1> HIDE DEF L
<1>13. Paying(launch.ticker)' = Paying(t)
  BY <1>1 DEF Paying
<1> QED
  BY <1>1, <1>2, <1>6, <1>8, <1>9, <1>10, <1>11, <1>12, <1>13 DEF Exists, HasRow

\* distribute checks all of it, and puts it at the front of an empty queue.
LEMMA DistributeAccepted ==
  ASSUME Delivery, Idle, NEW a, NEW t \in Tickers, NEW n \in Nat,
         NEW allocations \in [1 .. n -> Allocations], Distribute(a, t, allocations)
  PROVE  Accepted'
<1> DEFINE q == Distribution(t, allocations)
           L == tokens[t]
<1>1. /\ q \in Seq(Actions) /\ Len(q) = n + 1 /\ q # <<>>
      /\ \A i \in 1 .. n :
           /\ allocations[i] \in Allocations
           /\ allocations[i].receiver \in Accounts /\ allocations[i].quantity \in Amounts \ {0}
           /\ q[i] = Transfer1("transfer", Self, allocations[i].receiver, t,
                               allocations[i].quantity)
      /\ q[n + 1] = CloseOf(t)
      /\ DOMAIN allocations = 1 .. n
  BY DistributionFields DEF Allocations
<1>2. /\ Exists(t) /\ HasRow(L, Self) /\ L.balance[Self] = Allotted(allocations)
      /\ \A i \in DOMAIN allocations : HasRow(L, allocations[i].receiver)
      /\ Continue(tokens, q, <<>>)
      /\ launch' = [ticker |-> t, allocations |-> allocations]
  BY DEF Distribute, Distribution, CloseOf, Idle
<1>3. Amount(q, Paying(t)) = Allotted(allocations)
  <2>1. \A i \in 1 .. n : q[i] \in Paying(t) <=> allocations[i].receiver \in Accounts
    <3> SUFFICES ASSUME NEW i \in 1 .. n PROVE q[i] \in Paying(t)
      BY <1>1
    <3>1. q[i] \in Actions /\ q[i].act = "transfer" /\ q[i].ticker = t
      <4>1. q[i] \in Actions
        BY <1>1, ElementOfSeq
      <4>2. q[i] = Transfer1("transfer", Self, allocations[i].receiver, t,
                             allocations[i].quantity)
        BY <1>1
      <4> HIDE DEF q
      <4> QED
        BY <4>1, <4>2 DEF Transfer1
    <3> QED
      BY <3>1 DEF Paying
  <2>2. CloseOf(t) \notin Paying(t)
    BY DEF CloseOf, Paying
  <2> QED
    BY <2>1, <2>2, DistributionAmount DEF Allotted
<1> HIDE DEF q
<1>4. todo' = q
  <2>1. q \o <<>> = q
    BY <1>1, ConcatEmptySeq
  <2> QED
    BY <1>2, <2>1 DEF Continue
<1>5. tokens' = tokens /\ Len(q) <= MaxPending /\ launch'.ticker = t
      /\ launch'.allocations = allocations
  BY <1>2, <1>4 DEF Continue
<1>6. ASSUME OrdinaryReceivers', NEW i \in 1 .. Len(q) - 1
      PROVE  /\ q[i].act = "transfer" /\ q[i].ticker = t /\ q[i].quantity > 0
             /\ q[i].to \notin Handlers \cup Contracts
             /\ HasRow(L, q[i].to)
  <2>1. i \in 1 .. n /\ i \in DOMAIN allocations
    BY <1>1, <1>6
  <2>2. /\ q[i].act = "transfer" /\ q[i].ticker = t
        /\ q[i].to = allocations[i].receiver /\ q[i].quantity = allocations[i].quantity
        /\ allocations[i].quantity \in Amounts \ {0}
    <3>1. q[i] = Transfer1("transfer", Self, allocations[i].receiver, t,
                           allocations[i].quantity)
      BY <1>1, <2>1
    <3> QED
      BY <1>1, <2>1, <3>1 DEF Transfer1
  <2>3. q[i].quantity > 0
    <3>1. allocations[i].quantity \in Nat /\ allocations[i].quantity # 0
      BY <2>2, AmountsAreNumbers
    <3> QED
      BY <2>2, <3>1
  <2>4. allocations[i].receiver \notin Handlers \cup Contracts
    BY <1>5, <1>6, <2>1 DEF OrdinaryReceivers, Contracts
  <2> QED
    BY <1>2, <2>1, <2>2, <2>3, <2>4
<1>7. Paying(launch.ticker)' = Paying(t)
  BY <1>5 DEF Paying
<1> QED
  BY <1>2, <1>3, <1>4, <1>5, <1>6, <1>7 DEF Accepted, Exists, HasRow

LEMMA AcceptedNext == Delivery /\ Accepted /\ [Next]_vars => Accepted'
<1> SUFFICES ASSUME Delivery, Accepted, [Next]_vars PROVE Accepted'
  OBVIOUS
<1>1. CASE UNCHANGED vars
  BY <1>1 DEF vars, Accepted, OrdinaryReceivers, Exists, HasRow, Paying
<1>2. ASSUME launch' = NoLaunch PROVE Accepted'
  BY <1>2 DEF Accepted
<1>3. Idle => launch = NoLaunch
  BY DEF Delivery, Ordered
<1>4. CASE Setup \/ Abort
  BY <1>2, <1>3, <1>4, NoLaunchHere
<1>5. ASSUME launch' = launch, launch # NoLaunch, OrdinaryReceivers'
      PROVE  /\ ~ Idle /\ Head(todo).act \in {"transfer", "close"}
             /\ Head(todo).act = "close" => Tail(todo) = <<>>
  <2>1. OrdinaryReceivers
    BY <1>5 DEF OrdinaryReceivers
  <2> QED
    BY <1>5, <2>1, PlainTurn DEF CloseOf, Transfer1
<1>6. ASSUME NEW a \in Active, ActionOf(a) PROVE Accepted'
  <2>1. \/ UNCHANGED launch
        \/ Idle /\ \E t \in Tickers : \E n \in 1 .. MaxAllocations :
             \E allocations \in [1 .. n -> Allocations] : Distribute(a, t, allocations)
    BY <1>6, LaunchOfAction
  <2>2. CASE Idle /\ \E t \in Tickers : \E n \in 1 .. MaxAllocations :
               \E allocations \in [1 .. n -> Allocations] : Distribute(a, t, allocations)
    BY <2>2, DistributeAccepted, TokensAssumption
  <2>3. CASE UNCHANGED launch
    <3> SUFFICES ASSUME launch' # NoLaunch, OrdinaryReceivers' PROVE FALSE
      BY DEF Accepted
    <3>1. ~ Idle /\ Head(todo).act # "react"
      BY <1>5, <2>3
    <3> QED
      BY <3>1 DEF Active
  <2> QED
    BY <2>1, <2>2, <2>3
<1>7. CASE InlineTransfer
  BY <1>7, PaymentAccepted
<1>8. CASE InlineTransfer2 \/ InlineClose \/ EndReaction
  <2> SUFFICES ASSUME launch' # NoLaunch, OrdinaryReceivers' PROVE FALSE
    BY DEF Accepted
  <2>1. launch' = launch /\ todo' # <<>>
    BY <1>8 DEF InlineTransfer2, InlineClose, EndReaction, Settle
  <2>2. InlineClose /\ Tail(todo) = <<>>
    BY <1>5, <1>8, <2>1 DEF InlineTransfer2, InlineClose, EndReaction
  <2>3. todo' = <<>> \o <<>>
    BY <2>2 DEF InlineClose, CloseThen, Continue
  <2> QED
    BY <2>1, <2>3, EmptySeq, ConcatEmptySeq
<1> QED
  BY <1>1, <1>4, <1>6, <1>7, <1>8 DEF Next, Pending

\* No inline action of a distribution to ordinary receivers that distribute accepted
\* can fail: its checks of the allocations, made once and before the first payment,
\* are enough for every payment and for the close at the end.
THEOREM AcceptedDistributionsComplete == Spec => []AcceptedDistributionCompletes
<1>1. Init => Delivery /\ Accepted
  BY DeliveryInit DEF Init, Accepted
<1>2. Delivery /\ Accepted /\ [Next]_vars => (Delivery /\ Accepted)'
  BY DeliveryNext, AcceptedNext
<1> QED
  BY <1>1, <1>2, AcceptedPasses, PTL DEF Spec

----
(* Who pays for the rows, when no notified contract acts but the forwarders, and *)
(* these sign nothing themselves.  (A contract that is notified of its part of a  *)
(* distribution may close the row that a later part then opens again.)            *)
OnlyForwarders == Handlers = {} /\ Forwarders \cap Signers = {}

LEMMA ContractsAreAccounts ==
  /\ Contracts \subseteq Accounts /\ NoAccount \notin Contracts
  /\ OnlyForwarders => Contracts \cap Signers = {}
BY TokensAssumption DEF Contracts, OnlyForwarders

\* Then only signers act, between transactions, and nothing is queued for a
\* contract to react.
LEMMA OnlySignersAct ==
  ASSUME OnlyForwarders, Delivery, NEW a \in Active
  PROVE  /\ Idle /\ launch = NoLaunch /\ todo = <<>>
         /\ a \in Signers /\ a \in Accounts /\ a \notin Contracts
<1>1. Inv /\ (Idle => launch = NoLaunch)
  BY DEF Delivery, Ordered
<1>2. Idle
  BY <1>1, ActiveReacts DEF OnlyForwarders
<1>3. a \in Signers
  BY <1>2 DEF Active
<1> QED
  BY <1>1, <1>2, <1>3, ContractsAreAccounts, TokensAssumption DEF Idle

\* Between transactions no row is at a contract's expense.
LEMMA IdleBilled ==
  ASSUME Delivery', todo' = <<>>,
         \A u \in Tickers, b \in Accounts : tokens'[u].payer[b] \notin Contracts
  PROVE  Billed'
<1>1. launch' = NoLaunch /\ committed' = tokens'
  BY DEF Delivery, Ordered, Idle
<1>2. \A i \in 1 .. Len(todo') : FALSE
  OBVIOUS
<1> QED
  BY <1>1, <1>2 DEF Billed

\* What a signer does to the rows of a ticker is at its own expense.
LEMMA SignedBilled ==
  ASSUME OnlyForwarders, Delivery, Delivery', Billed, NEW a \in Active, NEW t \in Tickers,
         NEW N, Continue([tokens EXCEPT ![t] = N], <<>>, todo),
         \A b \in Accounts : N.payer[b] \in {tokens[t].payer[b], a, NoAccount}
  PROVE  Billed'
<1>1. Idle /\ launch = NoLaunch /\ todo = <<>> /\ a \notin Contracts
  BY OnlySignersAct
<1>2. todo' = <<>>
  <2>1. todo' = <<>> \o <<>>
    BY <1>1 DEF Continue
  <2> QED
    BY <2>1, EmptySeq, ConcatEmptySeq
<1>3. tokens' = [tokens EXCEPT ![t] = N] /\ tokens \in [Tickers -> Ledgers]
  BY DEF Continue, Delivery, Inv, TypeOK
<1>4. \A u \in Tickers, b \in Accounts : tokens[u].payer[b] \notin Contracts
  BY <1>1 DEF Billed
<1>5. ASSUME NEW u \in Tickers, NEW b \in Accounts PROVE tokens'[u].payer[b] \notin Contracts
  <2>1. tokens'[u].payer[b] \in {tokens[u].payer[b], a, NoAccount}
    BY <1>3
  <2> QED
    BY <1>1, <1>4, <2>1, ContractsAreAccounts
<1> QED
  BY <1>2, <1>5, IdleBilled

LEMMA SupplyActionsBilled ==
  ASSUME OnlyForwarders, Delivery, Delivery', Billed, NEW a \in Active, NEW t \in Tickers,
         NEW q \in Amounts,
         \/ Issue(a, t, q) \/ IssueFixed(a, t, q) \/ SetMaxSupply(a, t, q) \/ Retire(a, t, q)
         \/ SetSupply(a, t, q)
  PROVE  Billed'
<1> DEFINE L == tokens[t]
           Paid(N) == \A b \in Accounts : N.payer[b] \in {L.payer[b], a, NoAccount}
<1>1. L \in Ledgers /\ a \in Accounts /\ Self \in Accounts
  BY OnlySignersAct, TokensAssumption DEF Delivery, Inv, TypeOK
<1>2. L.payer \in [Accounts -> Accounts \cup {NoAccount}]
  BY <1>1, LedgerFields
<1>3. ASSUME NEW M, M.payer = L.payer, DOMAIN M = DOMAIN L, NEW o \in Accounts, NEW n
      PROVE  Paid(AddBalance(M, o, n, a)) /\ Paid(SubBalance(M, o, n, a))
  <2>1. /\ AddBalance(M, o, n, a).payer = [L.payer EXCEPT ![o] = IF HasRow(M, o) THEN @ ELSE a]
        /\ SubBalance(M, o, n, a).payer = [L.payer EXCEPT ![o] = a]
    BY <1>1, <1>3 DEF AddBalance, SubBalance, Ledgers
  <2> QED
    BY <1>2, <2>1
<1>4. \E N : Continue([tokens EXCEPT ![t] = N], <<>>, todo) /\ Paid(N)
  <2>1. ASSUME NEW n, Issue(a, t, n)
        PROVE  \E N : Continue([tokens EXCEPT ![t] = N], <<>>, todo) /\ Paid(N)
    <3> DEFINE M == [L EXCEPT !.supply = L.supply + n]
    <3>1. M.payer = L.payer /\ DOMAIN M = DOMAIN L
      BY <1>1 DEF Ledgers
    <3>2. Continue([tokens EXCEPT ![t] = AddBalance(M, a, n, a)], <<>>, todo)
      BY <2>1 DEF Issue
    <3> HIDE DEF M, Paid
    <3>3. Paid(AddBalance(M, a, n, a))
      BY <1>1, <1>3, <3>1
    <3> QED
      BY <3>2, <3>3
  <2>2. CASE Issue(a, t, q) \/ IssueFixed(a, t, q)
    BY <2>1, <2>2 DEF IssueFixed
  <2>3. CASE SetMaxSupply(a, t, q)
    <3> DEFINE N == [L EXCEPT !.maxSupply = q]
    <3>1. Continue([tokens EXCEPT ![t] = N], <<>>, todo)
      BY <2>3 DEF SetMaxSupply
    <3>2. N.payer = L.payer
      BY <1>1 DEF Ledgers
    <3> HIDE DEF N
    <3> QED
      BY <3>1, <3>2
  <2>4. CASE Retire(a, t, q)
    <3> DEFINE M == [L EXCEPT !.supply = L.supply - q]
    <3>1. M.payer = L.payer /\ DOMAIN M = DOMAIN L
      BY <1>1 DEF Ledgers
    <3>2. Continue([tokens EXCEPT ![t] = SubBalance(M, a, q, a)], <<>>, todo)
      BY <2>4 DEF Retire
    <3> HIDE DEF M, Paid
    <3>3. Paid(SubBalance(M, a, q, a))
      BY <1>1, <1>3, <3>1
    <3> QED
      BY <3>2, <3>3
  <2>5. CASE SetSupply(a, t, q)
    <3> DEFINE M == [L EXCEPT !.supply = q, !.maxSupply = q, !.issuer = tokenRegistry]
    <3>1. M.payer = L.payer /\ DOMAIN M = DOMAIN L
      BY <1>1 DEF Ledgers
    <3>2. Continue([tokens EXCEPT ![t] = AddBalance(M, Self, q, a)], <<>>, todo)
      BY <2>5 DEF SetSupply
    <3> HIDE DEF M, Paid
    <3>3. Paid(AddBalance(M, Self, q, a))
      BY <1>1, <1>3, <3>1
    <3> QED
      BY <3>2, <3>3
  <2> QED
    BY <2>2, <2>3, <2>4, <2>5
<1> QED
  BY <1>4, SignedBilled

LEMMA RowActionsBilled ==
  ASSUME OnlyForwarders, Delivery, Delivery', Billed, NEW a \in Active, NEW t \in Tickers,
         \/ Close(a, t)
         \/ \E owner \in Accounts : Open(owner, t, a)
  PROVE  Billed'
<1> DEFINE L == tokens[t]
<1>1. L \in Ledgers /\ a \in Accounts
  BY OnlySignersAct DEF Delivery, Inv, TypeOK
<1>2. PICK o \in Accounts, p \in {a, NoAccount} :
        Continue([tokens EXCEPT ![t] = [L EXCEPT !.payer[o] = p]], <<>>, todo)
  BY <1>1 DEF Close, CloseThen, CanClose, Open
<1> DEFINE N == [L EXCEPT !.payer[o] = p]
<1>3. N.payer = [L.payer EXCEPT ![o] = p] /\ L.payer \in [Accounts -> Accounts \cup {NoAccount}]
  BY <1>1, LedgerFields DEF Ledgers
<1>4. Continue([tokens EXCEPT ![t] = N], <<>>, todo)
  BY <1>2
<1> HIDE DEF N
<1>5. \A b \in Accounts : N.payer[b] \in {L.payer[b], a, NoAccount}
  BY <1>3
<1> QED
  BY <1>4, <1>5, SignedBilled

\* A step that puts only payments to open rows in front of the queue, closes no
\* row and leaves none to a contract but a distribution's own.
LEMMA BilledStep ==
  ASSUME Delivery, Delivery', Billed, NEW new, NEW acts \in Seq(Actions), NEW rest, Rest(rest),
         Continue(new, acts, rest), Settle, ~ Idle => Head(todo).act # "close",
         \A i \in 1 .. Len(acts) :
           /\ acts[i].act = "transfer2" /\ acts[i].ticker \in Tickers /\ acts[i].to \in Accounts
           /\ HasRow(new[acts[i].ticker], acts[i].to),
         \A u \in Tickers, b \in Accounts : HasRow(tokens[u], b) => HasRow(new[u], b),
         \A u \in Tickers, b \in Accounts : new[u].payer[b] \in Contracts =>
           b = Self /\ launch # NoLaunch /\ u = launch.ticker
  PROVE  Billed'
<1>1. /\ Inv /\ todo \in Seq(Actions) /\ rest \in Seq(Actions)
      /\ todo' = acts \o rest /\ tokens' = new
      /\ committed' = (IF todo' = <<>> THEN new ELSE committed)
  BY RestType DEF Delivery, Inv, TypeOK, Continue
<1>2. /\ Len(acts) \in Nat /\ Len(rest) \in Nat
      /\ Len(todo') = Len(acts) + Len(rest)
      /\ \A i \in 1 .. Len(acts) : todo'[i] = acts[i]
      /\ \A i \in 1 .. Len(rest) : todo'[Len(acts) + i] = rest[i]
      /\ todo' \in Seq(Actions)
      /\ rest = <<>> <=> Len(rest) = 0
  BY <1>1, FrontOf
<1>3. todo' = <<>> => launch = NoLaunch
  <2> SUFFICES ASSUME todo' = <<>>, launch # NoLaunch PROVE FALSE
    OBVIOUS
  <2>1. Len(todo') = 0
    BY EmptySeq
  <2>2. rest = <<>>
    BY <1>2, <2>1
  <2>3. ~ Idle /\ todo[Len(todo)] = CloseOf(launch.ticker)
    BY DEF Delivery, Ordered
  <2>4. Tail(todo) = <<>>
    BY <2>2, <2>3 DEF Rest, Idle
  <2>5. Head(todo) = todo[Len(todo)]
    <3>1. Len(todo) \in Nat /\ Len(Tail(todo)) = Len(todo) - 1 /\ Head(todo) = todo[1]
      BY <1>1, <2>3, TailOf DEF Idle
    <3>2. Len(Tail(todo)) = 0
      BY <2>4, EmptySeq
    <3> QED
      BY <3>1, <3>2
  <2> QED
    BY <2>3, <2>5 DEF CloseOf
<1>4. launch' = launch
  BY <1>3 DEF Settle
<1>5. \A u \in Tickers, b \in Accounts : committed'[u].payer[b] \notin Contracts
  BY <1>1, <1>3 DEF Billed
<1>6. \A u \in Tickers, b \in Accounts : tokens'[u].payer[b] \in Contracts =>
        b = Self /\ launch' # NoLaunch /\ u = launch'.ticker
  BY <1>1, <1>4
<1>7. ASSUME NEW j \in 1 .. Len(todo')
      PROVE  /\ j < Len(todo') => todo'[j].act \in {"transfer", "transfer2"}
             /\ launch' = NoLaunch => todo'[j].act = "transfer2"
             /\ todo'[j].act = "transfer" => todo'[j].ticker = launch'.ticker
             /\ todo'[j].act \in {"transfer", "transfer2"} =>
                  HasRow(tokens'[todo'[j].ticker], todo'[j].to)
  <2>1. CASE j \in 1 .. Len(acts)
    <3>1. todo'[j] = acts[j]
      BY <1>2, <2>1
    <3> QED
      BY <1>1, <2>1, <3>1
  <2>2. CASE j \notin 1 .. Len(acts)
    <3>1. PICK k \in 1 .. Len(rest) : j = Len(acts) + k
      <4>1. j - Len(acts) \in 1 .. Len(rest) /\ j = Len(acts) + (j - Len(acts))
        BY <1>2, <2>2
      <4> QED
        BY <4>1
    <3>2. todo'[j] = rest[k] /\ (j < Len(todo') => k < Len(rest))
      BY <1>2, <3>1
    <3>3. PICK i \in 1 .. Len(todo) : rest[k] = todo[i] /\ (k < Len(rest) => i < Len(todo))
      <4>1. CASE rest = todo
        BY <4>1
      <4>2. CASE ~ Idle /\ rest = Tail(todo)
        <5>1. /\ Len(todo) \in Nat /\ Len(rest) = Len(todo) - 1
              /\ \A m \in 1 .. Len(todo) - 1 : rest[m] = todo[m + 1]
          BY <1>1, <4>2, TailOf DEF Idle
        <5>2. k + 1 \in 1 .. Len(todo) /\ rest[k] = todo[k + 1]
              /\ (k < Len(rest) => k + 1 < Len(todo))
          BY <5>1
        <5> QED
          BY <5>2
      <4> QED
        BY <4>1, <4>2 DEF Rest
    <3>4. /\ i < Len(todo) => todo[i].act \in {"transfer", "transfer2"}
          /\ launch = NoLaunch => todo[i].act = "transfer2"
          /\ todo[i].act = "transfer" => todo[i].ticker = launch.ticker
          /\ todo[i].act \in {"transfer", "transfer2"} =>
               HasRow(tokens[todo[i].ticker], todo[i].to)
      BY DEF Billed
    <3>5. todo[i].act \in {"transfer", "transfer2"} =>
            todo[i].ticker \in Tickers /\ todo[i].to \in Accounts
      BY <1>1, TransferIsFields, ElementOfSeq
    <3>6. todo'[j] = todo[i] /\ (j < Len(todo') => i < Len(todo))
      BY <3>2, <3>3
    <3> QED
      BY <1>1, <1>4, <3>4, <3>5, <3>6
  <2> QED
    BY <2>1, <2>2
<1>8. \A j \in 1 .. Len(todo') :
        /\ j < Len(todo') => todo'[j].act \in {"transfer", "transfer2"}
        /\ launch' = NoLaunch => todo'[j].act = "transfer2"
        /\ todo'[j].act = "transfer" => todo'[j].ticker = launch'.ticker
        /\ todo'[j].act \in {"transfer", "transfer2"} =>
             HasRow(tokens'[todo'[j].ticker], todo'[j].to)
  BY <1>7
<1> QED
  BY <1>5, <1>6, <1>8 DEF Billed, HasRow

\* What is queued for from and to, contracts that do not react.
LEMMA NoReactsHere ==
  ASSUME OnlyForwarders, NEW a \in Accounts, NEW q \in Seq(Actions)
  PROVE  Reacts(a) = <<>> /\ Reacts(a) \o q = q
<1>1. Reacts(a) = <<>>
  BY DEF OnlyForwarders, Reacts
<1> QED
  BY <1>1, ConcatEmptySeq

\* A transfer, at the expense of its payer r and, but for transfer2, of from.
LEMMA MoveBilled ==
  ASSUME OnlyForwarders, Delivery, Delivery', Billed,
         NEW from \in Accounts, NEW to, NEW r \in Accounts, NEW t \in Tickers,
         NEW q \in Amounts, NEW rest, Rest(rest), Settle,
         ~ Idle => Head(todo).act # "close",
         \/ /\ TransferThen(from, to, r, t, q, rest)
            /\ from \in Contracts => from = Self /\ launch # NoLaunch /\ t = launch.ticker
         \/ Transfer2Then(from, to, r, t, q, rest),
         r \in Contracts => HasRow(tokens[t], to)
  PROVE  Billed'
<1> DEFINE L == tokens[t]
<1>1. /\ Inv /\ L \in Ledgers /\ tokens \in [Tickers -> Ledgers]
      /\ L.payer \in [Accounts -> Accounts \cup {NoAccount}]
      /\ to \in Accounts /\ from # to /\ CanSub(L, from, q) /\ CanAdd(L, to, q)
      /\ HasRow(L, from) /\ L.payer[from] \in Accounts
  BY LedgerFields DEF Delivery, Inv, TypeOK, TransferThen, Transfer2Then, CanTransfer, CanSub, HasRow
<1>2. NoAccount \notin Accounts /\ NoAccount \notin Contracts
  BY ContractsAreAccounts, TokensAssumption
<1>3. \A u \in Tickers, b \in Accounts : tokens[u].payer[b] \in Contracts =>
        b = Self /\ launch # NoLaunch /\ u = launch.ticker
  BY DEF Billed
<1>4. ASSUME NEW p \in Accounts, NEW N, N = AddBalance(SubBalance(L, from, q, p), to, q, r),
             p \in Contracts => from = Self /\ launch # NoLaunch /\ t = launch.ticker,
             NEW acts \in Seq(Actions), Continue([tokens EXCEPT ![t] = N], acts, rest),
             \A i \in 1 .. Len(acts) :
               /\ acts[i].act = "transfer2" /\ acts[i].ticker = t /\ acts[i].to \in Accounts
               /\ HasRow(N, acts[i].to)
      PROVE  Billed'
  <2> DEFINE new == [tokens EXCEPT ![t] = N]
  <2>1. \A b \in Accounts :
          N.payer[b] = IF b = from THEN p
                       ELSE IF b = to /\ ~ HasRow(L, to) THEN r ELSE L.payer[b]
    BY <1>1, <1>4, MovedFields
  <2>2. new[t] = N /\ \A u \in Tickers \ {t} : new[u] = tokens[u]
    BY <1>1
  <2>3. Continue(new, acts, rest)
    BY <1>4
  <2> HIDE DEF new
  <2>4. ASSUME NEW u \in Tickers, NEW b \in Accounts, HasRow(tokens[u], b)
        PROVE  HasRow(new[u], b)
    <3>1. CASE u = t
      BY <1>2, <2>1, <2>2, <2>4, <3>1 DEF HasRow
    <3>2. CASE u # t
      BY <2>2, <2>4, <3>2
    <3> QED
      BY <3>1, <3>2
  <2>5. ASSUME NEW u \in Tickers, NEW b \in Accounts, new[u].payer[b] \in Contracts
        PROVE  b = Self /\ launch # NoLaunch /\ u = launch.ticker
    <3>1. CASE u = t
      <4>1. new[u].payer[b] = N.payer[b]
        BY <2>2, <3>1
      <4>2. CASE b = from
        BY <1>4, <2>1, <2>5, <3>1, <4>1, <4>2
      <4>3. CASE b # from /\ b = to /\ ~ HasRow(L, to)
        BY <1>1, <2>1, <2>5, <4>1, <4>3
      <4>4. CASE b # from /\ ~ (b = to /\ ~ HasRow(L, to))
        BY <1>3, <2>1, <2>5, <3>1, <4>1, <4>4
      <4> QED
        BY <4>2, <4>3, <4>4
    <3>2. CASE u # t
      BY <1>3, <2>2, <2>5, <3>2
    <3> QED
      BY <3>1, <3>2
  <2>6. \A i \in 1 .. Len(acts) :
          /\ acts[i].act = "transfer2" /\ acts[i].ticker \in Tickers /\ acts[i].to \in Accounts
          /\ HasRow(new[acts[i].ticker], acts[i].to)
    BY <1>4, <2>2
  <2>7. /\ \A u \in Tickers, b \in Accounts : HasRow(tokens[u], b) => HasRow(new[u], b)
        /\ \A u \in Tickers, b \in Accounts : new[u].payer[b] \in Contracts =>
             b = Self /\ launch # NoLaunch /\ u = launch.ticker
    BY <2>4, <2>5
  <2> QED
    BY <2>3, <2>6, <2>7, BilledStep
<1>5. CASE TransferThen(from, to, r, t, q, rest) /\ ~ Transfer2Then(from, to, r, t, q, rest)
  <2> DEFINE N == AddBalance(SubBalance(L, from, q, from), to, q, r)
             back == IF to \in Forwarders THEN Forward(to, t, q) ELSE Reacts(to)
  <2>1. /\ to \in Forwarders => Accepts(to, from, N)
        /\ Continue([tokens EXCEPT ![t] = N], Reacts(from) \o back, rest)
    BY <1>5 DEF TransferThen, CanTransfer
  <2> HIDE DEF N
  <2>2. /\ back \in Seq(Actions)
        /\ \A i \in 1 .. Len(back) :
             /\ back[i].act = "transfer2" /\ back[i].ticker = t /\ back[i].to \in Accounts
             /\ HasRow(N, back[i].to)
    <3>1. CASE to \in Forwarders
      <4> DEFINE d == forwards[to].destination
                 x == Transfer1("transfer2", to, d, t, q)
      <4>1. d \in Accounts /\ HasRow(N, d)
        BY <2>1, <3>1 DEF Accepts
      <4>2. /\ x \in Actions /\ x.act = "transfer2" /\ x.ticker = t /\ x.to = d
        BY <1>1, <4>1, TransferType DEF Transfer1
      <4>3. back = <<x>>
        BY <3>1 DEF Forward
      <4> HIDE DEF x, d, back
      <4>4. back \in Seq(Actions) /\ \A i \in 1 .. Len(back) : back[i] = x
        BY <4>2, <4>3
      <4> QED
        BY <4>1, <4>2, <4>4
    <3>2. CASE to \notin Forwarders
      <4>1. back = <<>>
        BY <1>1, <3>2, NoReactsHere, QueueTypes
      <4> HIDE DEF back
      <4> QED
        BY <4>1
    <3> QED
      BY <3>1, <3>2
  <2> HIDE DEF back
  <2>3. Continue([tokens EXCEPT ![t] = N], back, rest)
    BY <2>1, <2>2, NoReactsHere
  <2> QED
    BY <1>4, <1>5, <2>2, <2>3 DEF N
<1>6. CASE Transfer2Then(from, to, r, t, q, rest)
  <2> DEFINE p == L.payer[from]
             N == AddBalance(SubBalance(L, from, q, p), to, q, r)
  <2>1. Continue([tokens EXCEPT ![t] = N], Reacts(from) \o Reacts(to), rest)
    BY <1>6 DEF Transfer2Then, CanTransfer
  <2> HIDE DEF N
  <2>2. Continue([tokens EXCEPT ![t] = N], <<>>, rest)
    BY <1>1, <2>1, NoReactsHere, QueueTypes
  <2>3. p \in Contracts => from = Self /\ launch # NoLaunch /\ t = launch.ticker
    BY <1>3
  <2>4. \A i \in 1 .. Len(<<>>) : FALSE
    OBVIOUS
  <2>5. p \in Accounts
    BY <1>1
  <2> HIDE DEF p
  <2> QED
    BY <1>4, <2>2, <2>3, <2>4, <2>5, QueueTypes DEF N
<1> QED
  BY <1>5, <1>6

LEMMA TransferBilled ==
  ASSUME OnlyForwarders, Delivery, Delivery', Billed, NEW a \in Active, NEW to \in Accounts,
         NEW t \in Tickers, NEW q \in Amounts, Transfer(a, to, t, q) \/ Transfer2(a, to, t, q)
  PROVE  Billed'
<1>1. /\ Idle /\ launch = NoLaunch /\ todo = <<>> /\ a \in Accounts /\ a \notin Contracts
      /\ Signers \subseteq Accounts /\ Signers \cap Contracts = {}
  BY OnlySignersAct, ContractsAreAccounts, TokensAssumption
<1>2. \A r \in Payers(a, to) : r \in Accounts /\ r \notin Contracts
  BY <1>1 DEF Payers
<1>3. Settle /\ Rest(todo)
  BY <1>1 DEF Transfer, Transfer2, Settle, Rest
<1>4. CASE Transfer(a, to, t, q)
  <2>1. PICK r \in Payers(a, to) : TransferThen(a, to, r, t, q, todo)
    BY <1>4 DEF Transfer
  <2> QED
    BY <1>1, <1>2, <1>3, <2>1, MoveBilled
<1>5. CASE Transfer2(a, to, t, q)
  <2>1. PICK r \in Payers(a, to) : Transfer2Then(a, to, r, t, q, todo)
    BY <1>5 DEF Transfer2
  <2> QED
    BY <1>1, <1>2, <1>3, <2>1, MoveBilled
<1> QED
  BY <1>4, <1>5

\* The first of the queue: what Billed and Ordered say of it.
LEMMA HeadBilled ==
  ASSUME Delivery, Billed, ~ Idle
  PROVE  LET x == Head(todo) IN
           /\ x.act = "transfer" =>
                x.from = Self /\ launch # NoLaunch /\ x.ticker = launch.ticker
           /\ x.act \in {"transfer", "transfer2"} => HasRow(tokens[x.ticker], x.to)
           /\ x.act \notin {"transfer", "transfer2"} =>
                launch # NoLaunch /\ x = CloseOf(launch.ticker) /\ Tail(todo) = <<>>
<1>1. /\ todo \in Seq(Actions) /\ Len(todo) \in Nat /\ Len(todo) >= 1 /\ Head(todo) = todo[1]
      /\ Tail(todo) \in Seq(Actions) /\ Len(Tail(todo)) = Len(todo) - 1
  BY TailOf DEF Delivery, Inv, TypeOK, Idle
<1>2. 1 \in 1 .. Len(todo)
  BY <1>1
<1>3. /\ 1 < Len(todo) => todo[1].act \in {"transfer", "transfer2"}
      /\ launch = NoLaunch => todo[1].act = "transfer2"
      /\ todo[1].act = "transfer" => todo[1].ticker = launch.ticker
      /\ todo[1].act \in {"transfer", "transfer2"} => HasRow(tokens[todo[1].ticker], todo[1].to)
  BY <1>2 DEF Billed
<1>4. /\ todo[1].act = "transfer" => todo[1].from = Self
      /\ launch # NoLaunch => todo[Len(todo)] = CloseOf(launch.ticker)
  BY <1>2 DEF Delivery, Ordered
<1>5. Len(todo) = 1 => Tail(todo) = <<>>
  <2>1. Tail(todo) = <<>> <=> Len(Tail(todo)) = 0
    BY <1>1, QueueTypes, FrontOf
  <2> QED
    BY <1>1, <2>1
<1>6. todo[1].act = "transfer" =>
        todo[1].from = Self /\ launch # NoLaunch /\ todo[1].ticker = launch.ticker
  BY <1>3, <1>4
<1>7. ASSUME todo[1].act \notin {"transfer", "transfer2"}
      PROVE  launch # NoLaunch /\ todo[1] = CloseOf(launch.ticker) /\ Tail(todo) = <<>>
  <2>1. launch # NoLaunch /\ Len(todo) = 1
    BY <1>1, <1>3, <1>7
  <2> QED
    BY <1>4, <1>5, <2>1
<1> QED
  BY <1>1, <1>3, <1>6, <1>7

LEMMA PendingBilled ==
  ASSUME OnlyForwarders, Delivery, Delivery', Billed, Pending
  PROVE  Billed'
<1> DEFINE x == Head(todo)
<1>1. Inv /\ ~ Idle /\ Settle /\ Rest(Tail(todo)) /\ Self \in Accounts
      /\ tokens \in [Tickers -> Ledgers]
  BY TokensAssumption
     DEF Delivery, Inv, TypeOK, Pending, InlineTransfer, InlineTransfer2, InlineClose,
         EndReaction, Rest
<1>2. /\ x.act = "transfer" => x.from = Self /\ launch # NoLaunch /\ x.ticker = launch.ticker
      /\ x.act \in {"transfer", "transfer2"} => HasRow(tokens[x.ticker], x.to)
      /\ x.act \notin {"transfer", "transfer2"} =>
           launch # NoLaunch /\ x = CloseOf(launch.ticker) /\ Tail(todo) = <<>>
  BY <1>1, HeadBilled
<1>3. x.act \in {"transfer", "transfer2"} =>
        x.from \in Accounts /\ x.to \in Accounts /\ x.ticker \in Tickers /\ x.quantity \in Amounts
  BY <1>1, HeadTypes
<1>4. CASE InlineTransfer
  <2>1. x.act = "transfer" /\ TransferThen(x.from, x.to, x.from, x.ticker, x.quantity, Tail(todo))
    BY <1>4 DEF InlineTransfer
  <2> HIDE DEF x
  <2> QED
    BY <1>1, <1>2, <1>3, <2>1, MoveBilled DEF x
<1>5. CASE InlineTransfer2
  <2>1. x.act = "transfer2"
        /\ Transfer2Then(x.from, x.to, x.from, x.ticker, x.quantity, Tail(todo))
    BY <1>5 DEF InlineTransfer2
  <2> HIDE DEF x
  <2> QED
    BY <1>1, <1>2, <1>3, <2>1, MoveBilled DEF x
<1>6. CASE InlineClose
  <2> DEFINE t == launch.ticker
             N == [tokens[t] EXCEPT !.payer[Self] = NoAccount]
  <2>1. x.act = "close" /\ CloseThen(Self, x.ticker, Tail(todo))
    BY <1>6 DEF InlineClose
  <2>2. x.ticker = t /\ Tail(todo) = <<>>
    BY <1>2, <2>1 DEF CloseOf
  <2>3. Continue([tokens EXCEPT ![t] = N], <<>>, <<>>)
    BY <2>1, <2>2 DEF CloseThen, CanClose
  <2>4. tokens' = [tokens EXCEPT ![t] = N] /\ todo' = <<>> \o <<>>
    BY <2>3 DEF Continue
  <2>5. todo' = <<>>
    BY <2>4, EmptySeq, ConcatEmptySeq
  <2>6. t \in Tickers
    BY <1>2, <2>1 DEF Delivery, Ordered
  <2>7. N.payer = [tokens[t].payer EXCEPT ![Self] = NoAccount]
        /\ tokens[t].payer \in [Accounts -> Accounts \cup {NoAccount}]
    BY <1>1, <2>6, LedgerFields DEF Ledgers
  <2> HIDE DEF N, t
  <2>8. ASSUME NEW u \in Tickers, NEW b \in Accounts PROVE tokens'[u].payer[b] \notin Contracts
    <3>1. tokens[u].payer[b] \in Contracts => b = Self /\ u = t
      BY DEF Billed, t
    <3>2. CASE u = t /\ b = Self
      <4>1. tokens'[u].payer[b] = NoAccount
        BY <1>1, <2>4, <2>6, <2>7, <3>2
      <4> QED
        BY <4>1, ContractsAreAccounts
    <3>3. CASE ~ (u = t /\ b = Self)
      <4>1. tokens'[u].payer[b] = tokens[u].payer[b]
        BY <1>1, <2>4, <2>6, <2>7, <3>3
      <4> QED
        BY <3>1, <3>3, <4>1
    <3> QED
      BY <3>2, <3>3
  <2> QED
    BY <2>5, <2>8, IdleBilled
<1>7. ~ EndReaction
  BY <1>1, HeadTypes DEF EndReaction, OnlyForwarders
<1> QED
  BY <1>4, <1>5, <1>6, <1>7 DEF Pending

LEMMA DistributeBilled ==
  ASSUME OnlyForwarders, Delivery, Delivery', Billed, NEW a \in Active, NEW t \in Tickers,
         NEW n \in 1 .. MaxAllocations, NEW allocations \in [1 .. n -> Allocations],
         Distribute(a, t, allocations)
  PROVE  Billed'
<1> DEFINE acts == Distribution(t, allocations)
<1>1. Idle /\ launch = NoLaunch /\ todo = <<>> /\ n \in Nat
  BY OnlySignersAct, TokensAssumption
<1>2. /\ Continue(tokens, acts, <<>>)
      /\ launch' = [ticker |-> t, allocations |-> allocations]
  BY <1>1 DEF Distribute, Distribution, CloseOf
<1>3. /\ acts \in Seq(Actions) /\ Len(acts) = n + 1 /\ acts # <<>>
      /\ acts[n + 1] = CloseOf(t)
      /\ \A i \in 1 .. n :
           /\ allocations[i].receiver \in Accounts /\ allocations[i].quantity \in Amounts
           /\ acts[i] = Transfer1("transfer", Self, allocations[i].receiver, t,
                                  allocations[i].quantity)
  BY <1>1, DistributionFields
<1>4. \A i \in 1 .. n : HasRow(tokens[t], allocations[i].receiver)
  BY DEF Distribute
<1> HIDE DEF acts
<1>5. todo' = acts
  <2>1. acts \o <<>> = acts
    BY <1>3, ConcatEmptySeq
  <2> QED
    BY <1>2, <2>1 DEF Continue
<1>6. tokens' = tokens /\ committed' = committed
  BY <1>2, <1>3, <1>5 DEF Continue
<1>7. launch' # NoLaunch /\ launch'.ticker = t
  <2>1. launch'.allocations = allocations /\ launch'.ticker = t
    BY <1>2
  <2>2. 1 \in DOMAIN allocations
    BY <1>1
  <2>3. NoLaunch.allocations = <<>> /\ DOMAIN <<>> = {}
    BY DEF NoLaunch
  <2> QED
    BY <2>1, <2>2, <2>3, Zenon
<1>8. \A i \in 1 .. Len(todo') :
        /\ i < Len(todo') => todo'[i].act \in {"transfer", "transfer2"}
        /\ todo'[i].act = "transfer" => todo'[i].ticker = t
        /\ todo'[i].act \in {"transfer", "transfer2"} =>
             HasRow(tokens[todo'[i].ticker], todo'[i].to)
  <2> SUFFICES ASSUME NEW i \in 1 .. n + 1
               PROVE  /\ i < n + 1 => acts[i].act \in {"transfer", "transfer2"}
                      /\ acts[i].act = "transfer" => acts[i].ticker = t
                      /\ acts[i].act \in {"transfer", "transfer2"} =>
                           HasRow(tokens[acts[i].ticker], acts[i].to)
    BY <1>3, <1>5
  <2>1. CASE i \in 1 .. n
    <3>1. /\ acts[i].act = "transfer" /\ acts[i].ticker = t
          /\ acts[i].to = allocations[i].receiver
      <4>1. acts[i] = Transfer1("transfer", Self, allocations[i].receiver, t,
                                allocations[i].quantity)
        BY <1>3, <2>1
      <4> QED
        BY <4>1 DEF Transfer1
    <3>2. HasRow(tokens[t], allocations[i].receiver)
      BY <1>4, <2>1
    <3> QED
      BY <3>1, <3>2, Zenon
  <2>2. CASE i = n + 1
    <3>1. acts[i].act = "close"
      BY <1>3, <2>2 DEF CloseOf
    <3> QED
      BY <1>1, <2>2, <3>1
  <2> QED
    BY <1>1, <2>1, <2>2
<1>9. \A u \in Tickers, b \in Accounts :
        tokens[u].payer[b] \notin Contracts /\ committed[u].payer[b] \notin Contracts
  BY <1>1 DEF Billed
<1> QED
  BY <1>6, <1>7, <1>8, <1>9 DEF Billed, HasRow

LEMMA SetupBilled ==
  ASSUME Delivery, Delivery', Billed, Setup
  PROVE  Billed'
<1>1. Idle /\ launch = NoLaunch /\ todo = <<>> /\ tokens \in [Tickers -> Ledgers]
  BY DEF Delivery, Inv, TypeOK, Ordered, Idle, Setup, Create, SetConfig, RegistryChange,
         SetForward
<1>2. \A u \in Tickers, b \in Accounts : tokens[u].payer[b] \notin Contracts
  BY <1>1 DEF Billed
<1>3. todo' = <<>> /\ \A u \in Tickers : tokens'[u].payer = tokens[u].payer
  <2>1. ASSUME NEW issuer \in Accounts, NEW t \in Tickers, NEW max \in Amounts,
               Create(issuer, t, max)
        PROVE  todo' = <<>> /\ \A u \in Tickers : tokens'[u].payer = tokens[u].payer
    <3> DEFINE N == [tokens[t] EXCEPT !.maxSupply = max, !.issuer = issuer]
    <3>1. todo' = <<>> \o <<>> /\ tokens' = [tokens EXCEPT ![t] = N]
      BY <2>1 DEF Create, Continue
    <3>2. N.payer = tokens[t].payer
      BY <1>1 DEF Ledgers
    <3>3. todo' = <<>>
      BY <3>1, EmptySeq, ConcatEmptySeq
    <3> HIDE DEF N
    <3> QED
      BY <1>1, <3>1, <3>2, <3>3
  <2>2. CASE ~ \E issuer \in Accounts, t \in Tickers, max \in Amounts : Create(issuer, t, max)
    BY <1>1, <2>2 DEF Setup, SetConfig, RegistryChange, SetForward
  <2> QED
    BY <2>1, <2>2
<1> QED
  BY <1>2, <1>3, IdleBilled

LEMMA BilledNext == OnlyForwarders /\ Delivery /\ Billed /\ [Next]_vars => Billed'
<1> SUFFICES ASSUME OnlyForwarders, Delivery, Billed, [Next]_vars PROVE Billed'
  OBVIOUS
<1>1. Delivery'
  BY DeliveryNext
<1>2. CASE UNCHANGED vars
  BY <1>2 DEF vars, Billed, HasRow
<1>3. ASSUME NEW a \in Active, ActionOf(a) PROVE Billed'
  BY <1>1, <1>3, SupplyActionsBilled, RowActionsBilled, TransferBilled, DistributeBilled
     DEF ActionOf
<1>4. CASE Setup
  BY <1>1, <1>4, SetupBilled
<1>5. CASE Pending
  BY <1>1, <1>5, PendingBilled
<1>6. CASE Abort
  <2>1. todo' = <<>> /\ tokens' = committed
    BY <1>6 DEF Abort
  <2> QED
    BY <1>1, <2>1, IdleBilled DEF Billed
<1> QED
  BY <1>2, <1>3, <1>4, <1>5, <1>6 DEF Next

LEMMA BilledInit == Init => Billed
<1> SUFFICES ASSUME Init PROVE Billed
  OBVIOUS
<1>1. todo = <<>> /\ \A u \in Tickers, b \in Accounts :
        tokens[u].payer[b] = NoAccount /\ committed[u].payer[b] = NoAccount
  BY DEF Init, NoLedger
<1>2. \A i \in 1 .. Len(todo) : FALSE
  BY <1>1
<1> QED
  BY <1>1, <1>2, ContractsAreAccounts DEF Billed

\* Once a transaction has committed or failed, no row is at the expense of the
\* tokens contract or of a forwarder, whatever was distributed and forwarded to
\* whom: if no other contract acts when it is notified.
THEOREM ContractsPayForNoRow == OnlyForwarders => (Spec => []ContractsPayNoRam)
<1>1. Init => Delivery /\ Billed
  BY DeliveryInit, BilledInit
<1>2. OnlyForwarders /\ Delivery /\ Billed /\ [Next]_vars => (Delivery /\ Billed)'
  BY DeliveryNext, BilledNext
<1>3. Delivery /\ Billed => ContractsPayNoRam
  BY DEF Delivery, Ordered, Billed, ContractsPayNoRam, Contracts
<1> SUFFICES ASSUME OnlyForwarders PROVE Spec => []ContractsPayNoRam
  OBVIOUS
<1> QED
  BY <1>1, <1>2, <1>3, PTL DEF Spec

\* Why the transfers a distribution queues find their receivers' rows open: none
\* that was open when it was accepted closes before its last action.
THEOREM ReceiversStayOpen == OnlyForwarders => (Spec => []AllocationsReachOpenRows)
<1>1. Init => Delivery /\ Billed
  BY DeliveryInit, BilledInit
<1>2. OnlyForwarders /\ Delivery /\ Billed /\ [Next]_vars => (Delivery /\ Billed)'
  BY DeliveryNext, BilledNext
<1>3. Delivery /\ Billed => AllocationsReachOpenRows
  BY HeadBilled DEF AllocationsReachOpenRows
<1> SUFFICES ASSUME OnlyForwarders PROVE Spec => []AllocationsReachOpenRows
  OBVIOUS
<1> QED
  BY <1>1, <1>2, <1>3, PTL DEF Spec

================================================================================
