---------------------------- MODULE SentimentProofs ----------------------------
(******************************************************************************)
(* Proofs about the sentiment contract, for any accounts, fee tokens,         *)
(* configurations, amounts, topics and proposals.  First its balances and     *)
(* topics: the inductive invariant Inv, what follows from it for custody and  *)
(* redemption, and that the contract is an escrow that may also keep a fee    *)
(* nobody receives, or grant one that is negative.  Then its votes: that none *)
(* outlives its topic, and that what is answered about a proposal is what was *)
(* said of it.  The part of a vote's step that concerns balances and topics   *)
(* is a step of Sentiment or none, so Inv holds with the votes as well.       *)
(******************************************************************************)
EXTENDS SentimentVotes, AssetTotalsProofs

USE DEF Inv

----
(* What the building blocks of the actions do. *)

\* A transfer debits one account and credits another, and leaves the rest alone.
LEMMA MoveCoinsEffect ==
  ASSUME TypeOK, NEW T, NEW from \in Accounts, NEW to \in Accounts, NEW q \in Amounts,
         MoveCoins(T, from, to, q)
  PROVE  /\ T \in FeeTokens /\ from # to /\ q > 0
         /\ coins' \in [FeeTokens -> [Accounts -> Amounts]]
         /\ coins[T][from] >= q
         /\ coins'[T][from] = coins[T][from] - q
         /\ coins[T][to] + q <= MaxAmount
         /\ coins'[T][to] = coins[T][to] + q
         /\ \A a \in Accounts : (a # from /\ a # to) => coins'[T][a] = coins[T][a]
         /\ \A U \in FeeTokens \ {T} : coins'[U] = coins[U]
<1> DEFINE row == Credit(Debit(coins[T], from, q), to, q)
<1>1. /\ T \in FeeTokens /\ from # to /\ q > 0
      /\ coins[T][from] >= q /\ coins[T][to] + q <= MaxAmount
      /\ coins' = [coins EXCEPT ![T] = row]
  BY DEF MoveCoins
<1>2. coins \in [FeeTokens -> [Accounts -> Amounts]] /\ coins[T] \in [Accounts -> Amounts]
  BY <1>1 DEF TypeOK
<1>3. /\ row \in [Accounts -> Amounts]
      /\ row[from] = coins[T][from] - q
      /\ row[to] = coins[T][to] + q
      /\ \A a \in Accounts : (a # from /\ a # to) => row[a] = coins[T][a]
  BY <1>1, <1>2, MaxAmountAssumption DEF Credit, Debit, Amounts
<1> HIDE DEF row
<1> QED
  BY <1>1, <1>2, <1>3

\* add_balance credits an open row of the payment's symbol.
LEMMA AddBalanceEffect ==
  ASSUME TypeOK, NEW a \in Accounts, NEW sym, NEW q \in Amounts, AddBalance(a, sym, q)
  PROVE  /\ UNCHANGED <<opened, rowSymbol>>
         /\ a \in opened /\ rowSymbol[a] = sym
         /\ ledger[a] + q <= MaxAmount
         /\ ledger' = Credit(ledger, a, q)
         /\ ledger' \in [Accounts -> Amounts]
         /\ Total(ledger') = Total(ledger) + q
         /\ \A b \in Accounts \ {a} : ledger'[b] = ledger[b]
<1>1. ledger \in [Accounts -> Amounts] /\ q \in Nat /\ IsFiniteSet(Accounts)
  BY SentimentAssumption, MaxAmountAssumption DEF TypeOK, Amounts
<1>2. ledger' = Credit(ledger, a, q) /\ ledger[a] + q <= MaxAmount
  BY DEF AddBalance
<1>3. ledger' \in [Accounts -> Amounts] /\ Total(ledger') = Total(ledger) + q
  BY <1>1, <1>2, TotalCredit
<1>4. \A b \in Accounts \ {a} : ledger'[b] = ledger[b]
  BY <1>1, <1>2 DEF Credit
<1> QED
  BY <1>2, <1>3, <1>4 DEF AddBalance

\* A payment is an integer, and a positive one is an amount.
LEMMA PaymentFacts ==
  /\ Payments \subseteq Int /\ Amounts \subseteq Payments
  /\ \A q \in Payments : (q > 0 => q \in Amounts) /\ (~ (q > 0) => -q \in Amounts)
BY MaxAmountAssumption DEF Payments, Amounts

\* remove_balance charges one row, or raises it if the payment is negative; the
\* row goes when it is spent in full.
LEMMA RemoveBalanceEffect ==
  ASSUME TypeOK, NEW a \in Accounts, NEW sym, NEW q \in Payments,
         RemoveBalance(a, sym, q)
  PROVE  /\ opened' \subseteq opened
         /\ opened' = (IF ledger[a] = q THEN opened \ {a} ELSE opened)
         /\ rowSymbol' = (IF ledger[a] = q THEN [rowSymbol EXCEPT ![a] = NoSymbol] ELSE rowSymbol)
         /\ ledger[a] >= q
         /\ ledger' = Debit(ledger, a, q)
         /\ ledger' \in [Accounts -> Amounts]
         /\ Total(ledger') = Total(ledger) - q
         /\ ledger'[a] = ledger[a] - q
         /\ \A b \in Accounts \ {a} : ledger'[b] = ledger[b]
         /\ rowSymbol' \in [Accounts -> Symbols \cup {NoSymbol}]
<1>1. ledger \in [Accounts -> Amounts] /\ q \in Int /\ IsFiniteSet(Accounts)
  BY SentimentAssumption, PaymentFacts DEF TypeOK
<1>2. ledger' = Debit(ledger, a, q) /\ ledger[a] >= q
  BY DEF RemoveBalance
<1>3. ledger' \in [Accounts -> Amounts] /\ Total(ledger') = Total(ledger) - q
  <2>1. CASE q > 0
    <3>1. q \in Nat
      BY <1>1, <2>1
    <3> QED
      BY <1>1, <1>2, <3>1, TotalDebit
  <2>2. CASE ~ (q > 0)
    <3>1. -q \in Nat /\ ledger[a] \in Nat /\ Total(ledger) \in Int
      BY <1>1, <2>2, MaxAmountAssumption, TotalType DEF Amounts
    <3>2. ledger[a] + (-q) <= MaxAmount
      <4>1. CASE ledger[a] = q
        BY <1>1, <2>2, <3>1, <4>1, MaxAmountAssumption
      <4>2. CASE ledger[a] # q
        <5>1. ledger[a] - q <= MaxAmount
          BY <4>2 DEF RemoveBalance
        <5> QED
          BY <1>1, <3>1, <5>1
      <4> QED
        BY <4>1, <4>2
    <3>3. Debit(ledger, a, q) = Credit(ledger, a, -q)
      <4>1. ledger[a] - q = ledger[a] + (-q)
        BY <1>1, <3>1
      <4> QED
        BY <4>1 DEF Debit, Credit
    <3>4. ledger' \in [Accounts -> Amounts] /\ Total(ledger') = Total(ledger) + (-q)
      BY <1>1, <1>2, <3>1, <3>2, <3>3, TotalCredit
    <3> QED
      BY <1>1, <3>1, <3>4
  <2> QED
    BY <2>1, <2>2
<1>4. ledger'[a] = ledger[a] - q /\ \A b \in Accounts \ {a} : ledger'[b] = ledger[b]
  BY <1>1, <1>2 DEF Debit
<1>5. /\ opened' = (IF ledger[a] = q THEN opened \ {a} ELSE opened)
      /\ rowSymbol' = (IF ledger[a] = q THEN [rowSymbol EXCEPT ![a] = NoSymbol] ELSE rowSymbol)
  BY DEF RemoveBalance
<1>6. rowSymbol' \in [Accounts -> Symbols \cup {NoSymbol}]
  BY <1>5 DEF TypeOK
<1> QED
  BY <1>2, <1>3, <1>4, <1>5, <1>6

\* A fee sent by a transfer reaches the configured receiver.
LEMMA FeeReceived ==
  ASSUME TypeOK, NEW q \in Payments, PayFee(q), config.action \in PayingActions
  PROVE  /\ q > 0
         /\ coins'[config.token][config.receiver] = coins[config.token][config.receiver] + q
<1> DEFINE T == config.token
           to == config.receiver
<1>1. MoveCoins(T, Sentiment, to, q)
  BY DEF PayFee
<1>2. to \in Accounts /\ Sentiment \in Accounts /\ q \in Amounts
  BY <1>1, SentimentAssumption, PaymentFacts DEF MoveCoins
<1> HIDE DEF T, to
<1>3. q > 0 /\ coins'[T][to] = coins[T][to] + q
  BY <1>1, <1>2, MoveCoinsEffect, ZenonT(60)
<1> QED
  BY <1>3 DEF T, to

\* The valid symbols, and the configured one while it is valid.
LEMMA SymbolFacts ==
  /\ NoSymbol \notin Symbols
  /\ \A T \in FeeTokens : T.symbol \in Symbols
  /\ TypeOK => config.token \in FeeTokens \cup {NoToken}
  /\ NoToken.symbol = NoSymbol
  /\ NoToken \notin FeeTokens
BY SentimentAssumption DEF Symbols, TypeOK, NoToken, ConfigRows

----
(* Each action preserves Inv. *)

\* A table of zeros is owed nothing in total; a total of zero owes nobody.
LEMMA NobodyOwed ==
  ASSUME TypeOK, \A a \in Accounts : ~ (ledger[a] > 0)
  PROVE  Total(ledger) = 0
<1>1. ledger = [a \in Accounts |-> 0]
  <2>1. \A a \in Accounts : ledger[a] = 0
    BY MaxAmountAssumption DEF TypeOK, Amounts
  <2> QED
    BY <2>1 DEF TypeOK
<1> QED
  BY <1>1, TotalZero

LEMMA InitInv == Init => Inv
<1> SUFFICES ASSUME Init PROVE Inv
  OBVIOUS
<1>1. TypeOK
  <2>1. 0 \in Amounts
    BY MaxAmountAssumption DEF Amounts
  <2>2. config \in ConfigRows
    BY <2>1, SentimentAssumption DEF Init, DefaultConfig, ConfigRows
  <2>3. /\ ledger \in [Accounts -> Amounts]
        /\ unowned \in [FeeTokens -> Int]
        /\ coins \in [FeeTokens -> [Accounts -> Amounts]]
        /\ rowSymbol \in [Accounts -> Symbols \cup {NoSymbol}]
        /\ topics \in [Topics -> TopicRows \cup {NoTopic}]
    BY <2>1, SentimentAssumption DEF Init, NothingUnowned
  <2> QED
    BY <2>2, <2>3 DEF Init, TypeOK
<1>2. RowsConsistent /\ BalancesInFeeToken
  BY DEF Init, RowsConsistent, BalancesInFeeToken
<1>3. ExactCustody
  <2>1. Total(ledger) = 0
    BY <1>1, NobodyOwed DEF Init
  <2> QED
    BY <2>1, SentimentAssumption DEF Init, NothingUnowned, ExactCustody
<1> QED
  BY <1>1, <1>2, <1>3

\* Opening a row touches no amount.
LEMMA OpenInv ==
  ASSUME Inv, NEW a \in Customers, Open(a)
  PROVE  Inv'
<1>1. a \in Accounts /\ config.token \in FeeTokens /\ config.token.symbol \in Symbols
  BY SentimentAssumption, SymbolFacts DEF Open
<1>2. TypeOK'
  BY <1>1 DEF Open, TypeOK
<1>3. RowsConsistent'
  BY <1>1, SymbolFacts DEF Open, RowsConsistent, TypeOK
<1>4. ExactCustody'
  BY DEF Open, ExactCustody
<1>5. BalancesInFeeToken'
  BY <1>1 DEF Open, BalancesInFeeToken, RowsConsistent, TypeOK
<1> QED
  BY <1>2, <1>3, <1>4, <1>5

\* A deposit is of the configured token, because contract and symbol both match.
LEMMA DepositInv ==
  ASSUME Inv, NEW a \in Customers, NEW T \in FeeTokens, NEW q \in Amounts, Deposit(a, T, q)
  PROVE  Inv'
<1>1. a \in Accounts /\ Sentiment \in Accounts /\ a # Sentiment /\ T.symbol \in Symbols
  BY SentimentAssumption, SymbolFacts DEF Deposit
<1>2. T = config.token
  BY SentimentAssumption DEF Deposit, TypeOK, NoToken, ConfigRows
<1>3. MoveCoins(T, a, Sentiment, q) /\ AddBalance(a, T.symbol, q)
      /\ UNCHANGED <<config, topics, unowned, retokened>>
  BY DEF Deposit
<1>4. /\ coins' \in [FeeTokens -> [Accounts -> Amounts]]
      /\ coins'[T][Sentiment] = coins[T][Sentiment] + q
      /\ \A U \in FeeTokens \ {T} : coins'[U] = coins[U]
  BY <1>1, <1>3, MoveCoinsEffect, ZenonT(60)
<1>5. /\ UNCHANGED <<opened, rowSymbol>>
      /\ a \in opened /\ rowSymbol[a] = T.symbol
      /\ ledger' \in [Accounts -> Amounts]
      /\ Total(ledger') = Total(ledger) + q
      /\ \A b \in Accounts \ {a} : ledger'[b] = ledger[b]
  BY <1>1, <1>3, AddBalanceEffect
<1>6. TypeOK'
  BY <1>3, <1>4, <1>5 DEF TypeOK
<1>7. RowsConsistent'
  BY <1>1, <1>5 DEF RowsConsistent
<1>8. ExactCustody'
  <2> SUFFICES ASSUME ~ retokened', NEW U \in FeeTokens
               PROVE  coins'[U][Sentiment] =
                        unowned'[U] + (IF U = config'.token THEN Total(ledger') ELSE 0)
    BY DEF ExactCustody
  <2>1. coins[U][Sentiment] = unowned[U] + (IF U = config.token THEN Total(ledger) ELSE 0)
    BY <1>3 DEF ExactCustody
  <2>2. unowned[U] \in Int /\ q \in Nat /\ Total(ledger) \in Nat
    BY SentimentAssumption, MaxAmountAssumption, TotalType DEF TypeOK, Amounts
  <2>3. CASE U = T
    BY <1>2, <1>3, <1>4, <1>5, <2>1, <2>2, <2>3
  <2>4. CASE U # T
    BY <1>2, <1>3, <1>4, <2>1, <2>4
  <2> QED
    BY <2>3, <2>4
<1>9. BalancesInFeeToken'
  BY <1>1, <1>2, <1>3, <1>5 DEF BalancesInFeeToken
<1> QED
  BY <1>6, <1>7, <1>8, <1>9

\* Coins that arrive uncredited are accounted as such.
LEMMA UnclaimedTransferInv ==
  ASSUME Inv, NEW a \in Accounts, NEW T \in FeeTokens, NEW q \in Amounts,
         a # Sentiment, MoveCoins(T, a, Sentiment, q), Unclaimed(T, q),
         UNCHANGED <<config, opened, ledger, rowSymbol, topics, retokened>>
  PROVE  Inv'
<1>1. /\ MoveCoins(T, a, Sentiment, q) /\ a # Sentiment /\ Sentiment \in Accounts
      /\ unowned' = IF retokened THEN unowned ELSE Credit(unowned, T, q)
      /\ UNCHANGED <<config, opened, ledger, rowSymbol, topics, retokened>>
  BY SentimentAssumption DEF Unclaimed
<1>2. /\ coins' \in [FeeTokens -> [Accounts -> Amounts]]
      /\ coins'[T][Sentiment] = coins[T][Sentiment] + q
      /\ coins[T][Sentiment] + q <= MaxAmount
      /\ \A U \in FeeTokens \ {T} : coins'[U] = coins[U]
  BY <1>1, MoveCoinsEffect, ZenonT(60)
<1>3. Total(ledger) \in Nat /\ q \in Nat /\ \A U \in FeeTokens : unowned[U] \in Int
  BY SentimentAssumption, MaxAmountAssumption, TotalType DEF TypeOK, Amounts
<1>4. CASE retokened
  BY <1>1, <1>2, <1>4 DEF TypeOK, RowsConsistent, ExactCustody, BalancesInFeeToken
<1>5. CASE ~ retokened
  <2>2. unowned' \in [FeeTokens -> Int] /\ unowned'[T] = unowned[T] + q
        /\ \A U \in FeeTokens \ {T} : unowned'[U] = unowned[U]
    BY <1>1, <1>3, <1>5 DEF Credit, TypeOK
  <2>3. TypeOK'
    BY <1>1, <1>2, <2>2 DEF TypeOK
  <2>4. ExactCustody'
    <3> SUFFICES ASSUME NEW U \in FeeTokens
                 PROVE  coins'[U][Sentiment] =
                          unowned'[U] + (IF U = config'.token THEN Total(ledger') ELSE 0)
      BY DEF ExactCustody
    <3>1. coins[U][Sentiment] = unowned[U] + (IF U = config.token THEN Total(ledger) ELSE 0)
      BY <1>5 DEF ExactCustody
    <3>2. Total(ledger') = Total(ledger)
      BY <1>1
    <3>3. CASE U = T
      <4>1. coins'[T][Sentiment] = coins[T][Sentiment] + q /\ unowned'[T] = unowned[T] + q
        BY <1>2, <2>2
      <4>2. coins[T][Sentiment] = unowned[T] + (IF T = config.token THEN Total(ledger) ELSE 0)
        BY <3>1, <3>3
      <4>3. unowned[T] \in Int /\ config' = config
        BY <1>1, <1>3
      <4> QED
        BY <1>3, <3>2, <3>3, <4>1, <4>2, <4>3
    <3>4. CASE U # T
      BY <1>1, <1>2, <2>2, <3>1, <3>2, <3>4
    <3> QED
      BY <3>3, <3>4
  <2>5. RowsConsistent' /\ BalancesInFeeToken'
    BY <1>1 DEF RowsConsistent, BalancesInFeeToken
  <2> QED
    BY <2>3, <2>4, <2>5
<1> QED
  BY <1>4, <1>5

LEMMA HolderTransferInv ==
  ASSUME Inv, NEW from \in Accounts, NEW to \in Accounts, NEW T \in FeeTokens,
         NEW q \in Amounts, HolderTransfer(from, to, T, q)
  PROVE  Inv'
<1>1. /\ MoveCoins(T, from, to, q) /\ from # Sentiment /\ to # Sentiment /\ Sentiment \in Accounts
      /\ UNCHANGED <<config, opened, ledger, rowSymbol, topics, unowned, retokened>>
  BY SentimentAssumption DEF HolderTransfer
<1>2. /\ coins' \in [FeeTokens -> [Accounts -> Amounts]]
      /\ \A U \in FeeTokens : coins'[U][Sentiment] = coins[U][Sentiment]
  <2>1. /\ coins' \in [FeeTokens -> [Accounts -> Amounts]]
        /\ \A U \in FeeTokens \ {T} : coins'[U] = coins[U]
    BY <1>1, MoveCoinsEffect, ZenonT(60)
  <2>2. coins'[T][Sentiment] = coins[T][Sentiment]
    BY <1>1, MoveCoinsEffect, ZenonT(60)
  <2> QED
    BY <2>1, <2>2
<1>3. Total(ledger') = Total(ledger)
  BY <1>1
<1> QED
  BY <1>1, <1>2, <1>3 DEF TypeOK, RowsConsistent, ExactCustody, BalancesInFeeToken

\* A payment charged to one balance: withdraw and createtopic.
LEMMA ChargedPaymentInv ==
  ASSUME Inv, NEW a \in Accounts, NEW sym, NEW to \in Accounts, NEW q \in Amounts,
         RemoveBalance(a, sym, q), MoveCoins(config.token, Sentiment, to, q),
         topics' \in [Topics -> TopicRows \cup {NoTopic}],
         UNCHANGED <<config, unowned, retokened>>
  PROVE  Inv'
<1> DEFINE T == config.token
<1>1. Sentiment \in Accounts
  BY SentimentAssumption
<1>2. /\ T \in FeeTokens
      /\ coins' \in [FeeTokens -> [Accounts -> Amounts]]
      /\ coins'[T][Sentiment] = coins[T][Sentiment] - q
      /\ coins[T][Sentiment] >= q
      /\ \A U \in FeeTokens \ {T} : coins'[U] = coins[U]
  BY <1>1, MoveCoinsEffect, ZenonT(60)
<1>3. /\ opened' = (IF ledger[a] = q THEN opened \ {a} ELSE opened)
      /\ rowSymbol' = (IF ledger[a] = q THEN [rowSymbol EXCEPT ![a] = NoSymbol] ELSE rowSymbol)
      /\ ledger' \in [Accounts -> Amounts]
      /\ Total(ledger') = Total(ledger) - q
      /\ ledger'[a] = ledger[a] - q
      /\ \A b \in Accounts \ {a} : ledger'[b] = ledger[b]
      /\ rowSymbol' \in [Accounts -> Symbols \cup {NoSymbol}]
  BY RemoveBalanceEffect, PaymentFacts
<1>4. ledger[a] \in Nat /\ q \in Nat
  BY MaxAmountAssumption DEF TypeOK, Amounts
<1>5. TypeOK'
  BY <1>2, <1>3 DEF TypeOK
<1>6. RowsConsistent'
  BY <1>3, <1>4 DEF RowsConsistent, TypeOK, RemoveBalance
<1>7. ExactCustody'
  <2> SUFFICES ASSUME ~ retokened', NEW U \in FeeTokens
               PROVE  coins'[U][Sentiment] =
                        unowned'[U] + (IF U = config'.token THEN Total(ledger') ELSE 0)
    BY DEF ExactCustody
  <2>1. coins[U][Sentiment] = unowned[U] + (IF U = T THEN Total(ledger) ELSE 0)
    BY DEF ExactCustody
  <2>2. unowned[U] \in Int /\ Total(ledger) \in Nat
    BY SentimentAssumption, MaxAmountAssumption, TotalType DEF TypeOK, Amounts
  <2>3. CASE U = T
    BY <1>2, <1>3, <1>4, <2>1, <2>2, <2>3
  <2>4. CASE U # T
    BY <1>2, <1>3, <2>1, <2>4
  <2> QED
    BY <2>3, <2>4
<1>8. BalancesInFeeToken'
  BY <1>2, <1>3, <1>4 DEF BalancesInFeeToken, TypeOK
<1> QED
  BY <1>5, <1>6, <1>7, <1>8

\* A fee whose action pays nobody moves from the balances to what is credited to
\* nobody; a negative one the other way.
LEMMA ForfeitInv ==
  ASSUME Inv, NEW a \in Accounts, NEW sym, NEW q \in Payments,
         sym = config.token.symbol, RemoveBalance(a, sym, q),
         config.token \in FeeTokens, Unclaimed(config.token, q),
         topics' \in [Topics -> TopicRows \cup {NoTopic}],
         UNCHANGED <<config, coins, retokened>>
  PROVE  Inv'
<1> DEFINE T == config.token
<1>1. /\ opened' = (IF ledger[a] = q THEN opened \ {a} ELSE opened)
      /\ rowSymbol' = (IF ledger[a] = q THEN [rowSymbol EXCEPT ![a] = NoSymbol] ELSE rowSymbol)
      /\ ledger[a] >= q
      /\ ledger' \in [Accounts -> Amounts]
      /\ Total(ledger') = Total(ledger) - q
      /\ ledger'[a] = ledger[a] - q
      /\ \A b \in Accounts \ {a} : ledger'[b] = ledger[b]
      /\ rowSymbol' \in [Accounts -> Symbols \cup {NoSymbol}]
  BY RemoveBalanceEffect
<1>2. /\ ledger[a] \in Nat /\ q \in Int /\ Total(ledger) \in Nat
      /\ \A U \in FeeTokens : unowned[U] \in Int
  BY SentimentAssumption, MaxAmountAssumption, PaymentFacts, TotalType DEF TypeOK, Amounts
<1>3. RowsConsistent'
  BY <1>1, <1>2 DEF RowsConsistent, TypeOK, RemoveBalance
<1>4. BalancesInFeeToken'
  <2> SUFFICES ASSUME ~ retokened, NEW b \in Accounts, ledger'[b] > 0
               PROVE  rowSymbol'[b] = config.token.symbol
    BY DEF BalancesInFeeToken
  <2>1. CASE b = a
    <3>1. ledger[a] # q
      BY <1>1, <1>2, <2>1
    <3> QED
      BY <1>1, <2>1, <3>1 DEF RemoveBalance
  <2>2. CASE b # a
    BY <1>1, <2>2 DEF BalancesInFeeToken, TypeOK
  <2> QED
    BY <2>1, <2>2
<1>5. CASE retokened
  <2>1. TypeOK'
    BY <1>1, <1>5 DEF Unclaimed, TypeOK
  <2> QED
    BY <1>3, <1>4, <1>5, <2>1 DEF ExactCustody
<1>6. CASE ~ retokened
  <2>1. coins[T][Sentiment] = unowned[T] + Total(ledger)
    BY <1>6 DEF ExactCustody
  <2>3. unowned' \in [FeeTokens -> Int] /\ unowned'[T] = unowned[T] + q
        /\ \A U \in FeeTokens \ {T} : unowned'[U] = unowned[U]
    <3>1. unowned' = Credit(unowned, T, q)
      BY <1>6 DEF Unclaimed
    <3>2. unowned[T] + q \in Int
      BY <1>2
    <3> QED
      BY <3>1, <3>2 DEF Credit, TypeOK
  <2>4. TypeOK'
    BY <1>1, <2>3 DEF TypeOK
  <2>5. ExactCustody'
    <3> SUFFICES ASSUME NEW U \in FeeTokens
                 PROVE  coins'[U][Sentiment] =
                          unowned'[U] + (IF U = config'.token THEN Total(ledger') ELSE 0)
      BY DEF ExactCustody
    <3>1. coins[U][Sentiment] = unowned[U] + (IF U = T THEN Total(ledger) ELSE 0)
      BY <1>6 DEF ExactCustody
    <3>2. CASE U = T
      BY <1>1, <1>2, <2>1, <2>3, <3>2
    <3>3. CASE U # T
      BY <2>3, <3>1, <3>3
    <3> QED
      BY <3>2, <3>3
  <2> QED
    BY <1>3, <1>4, <2>4, <2>5
<1> QED
  BY <1>5, <1>6

LEMMA WithdrawInv ==
  ASSUME Inv, NEW a \in Customers, NEW sym \in Symbols, NEW q \in Amounts, Withdraw(a, sym, q)
  PROVE  Inv'
<1>1. a \in Accounts /\ topics' \in [Topics -> TopicRows \cup {NoTopic}]
  BY SentimentAssumption DEF Withdraw, TypeOK
<1> QED
  BY <1>1, ChargedPaymentInv DEF Withdraw

LEMMA CreateTopicInv ==
  ASSUME Inv, NEW creator \in Customers, NEW id \in Topics, NEW description \in Descriptions,
         NEW sym \in Symbols, NEW q \in Payments, CreateTopic(creator, id, description, sym, q)
  PROVE  Inv'
<1>1. creator \in Accounts
  BY SentimentAssumption
<1>2. topics' \in [Topics -> TopicRows \cup {NoTopic}]
  <2>1. [creator |-> creator, description |-> description] \in TopicRows
    BY <1>1 DEF TopicRows
  <2> QED
    BY <2>1 DEF CreateTopic, TypeOK
<1>3. RemoveBalance(creator, sym, q) /\ UNCHANGED <<config, retokened>> /\ PayFee(q)
      /\ sym = config.token.symbol
  BY DEF CreateTopic
<1>4. CASE MoveCoins(config.token, Sentiment, config.receiver, q) /\ UNCHANGED unowned
  <2>1. config.receiver \in Accounts /\ q \in Amounts
    BY <1>4, PaymentFacts DEF MoveCoins
  <2> QED
    BY <1>1, <1>2, <1>3, <1>4, <2>1, ChargedPaymentInv
<1>5. CASE config.token \in FeeTokens /\ Unclaimed(config.token, q) /\ UNCHANGED coins
  BY <1>1, <1>2, <1>3, <1>5, ForfeitInv
<1> QED
  BY <1>3, <1>4, <1>5 DEF PayFee

\* The maintenance of topics touches no balance.
LEMMA TopicTableInv ==
  ASSUME Inv, topics' \in [Topics -> TopicRows \cup {NoTopic}],
         UNCHANGED <<config, opened, ledger, rowSymbol, coins, unowned, retokened>>
  PROVE  Inv'
<1>1. TypeOK' /\ RowsConsistent' /\ BalancesInFeeToken'
  BY DEF TypeOK, RowsConsistent, BalancesInFeeToken
<1>2. ExactCustody'
  BY DEF ExactCustody
<1> QED
  BY <1>1, <1>2

\* Replacing the configuration: with balances outstanding and another token it
\* raises retokened; with none, the total owed is zero in either token.
LEMMA SetConfigInv ==
  ASSUME Inv, NEW new \in Configs, SetConfig(new)
  PROVE  Inv'
<1>1. TypeOK'
  <2>1. config' \in ConfigRows
    BY SentimentAssumption DEF SetConfig, TypeOK, ConfigRows
  <2>2. retokened' \in BOOLEAN /\ unowned' \in [FeeTokens -> Int]
    BY DEF SetConfig, TypeOK, NothingUnowned
  <2> QED
    BY <2>1, <2>2 DEF SetConfig, TypeOK
<1>2. RowsConsistent' /\ config'.token = new.token
  BY SentimentAssumption DEF SetConfig, RowsConsistent, ConfigRows
<1>3. CASE retokened'
  BY <1>1, <1>2, <1>3 DEF ExactCustody, BalancesInFeeToken
<1>4. CASE ~ retokened' /\ new.token = config.token
  BY <1>1, <1>2, <1>4 DEF SetConfig, ExactCustody, BalancesInFeeToken
<1>5. CASE ~ retokened' /\ new.token # config.token
  <2>1. ~ retokened /\ \A a \in Accounts : ~ (ledger[a] > 0)
    BY <1>5 DEF SetConfig
  <2>2. Total(ledger) = 0
    BY <2>1, NobodyOwed
  <2>3. ExactCustody'
    BY <2>1, <2>2 DEF SetConfig, ExactCustody
  <2>4. BalancesInFeeToken'
    BY <2>1 DEF SetConfig, BalancesInFeeToken
  <2> QED
    BY <1>1, <1>2, <2>3, <2>4
<1> QED
  BY <1>3, <1>4, <1>5

\* enable and disable keep the token.
LEMMA SwitchInv ==
  ASSUME Inv, Enable \/ Disable
  PROVE  Inv'
<1>1. PICK on \in BOOLEAN :
        /\ config' = [config EXCEPT !.enabled = on]
        /\ UNCHANGED <<opened, ledger, rowSymbol, topics, coins, unowned, retokened>>
  BY DEF Enable, Disable
<1>2. TypeOK' /\ config'.token = config.token
  BY <1>1 DEF TypeOK, ConfigRows
<1>3. ExactCustody' /\ RowsConsistent' /\ BalancesInFeeToken'
  BY <1>1, <1>2 DEF ExactCustody, RowsConsistent, BalancesInFeeToken
<1> QED
  BY <1>2, <1>3

\* Every step preserves the invariant.
LEMMA NextInv == Inv /\ [Next]_vars => Inv'
<1> SUFFICES ASSUME Inv, [Next]_vars PROVE Inv'
  OBVIOUS
<1>1. CASE LedgerNext
  <2>1. ASSUME NEW a \in Customers, Open(a) PROVE Inv'
    BY <2>1, OpenInv
  <2>2. ASSUME NEW a \in Customers, NEW q \in Amounts, NEW T \in FeeTokens, Deposit(a, T, q)
        PROVE  Inv'
    BY <2>2, DepositInv
  <2>3. ASSUME NEW a \in Customers, NEW q \in Amounts, NEW sym \in Symbols, Withdraw(a, sym, q)
        PROVE  Inv'
    BY <2>3, WithdrawInv
  <2>4. ASSUME NEW a \in Accounts, NEW q \in Amounts, NEW T \in FeeTokens,
               ForeignTransfer(a, T, q) \/ SilentTransfer(a, T, q)
        PROVE  Inv'
    BY <2>4, UnclaimedTransferInv DEF ForeignTransfer, SilentTransfer
  <2>5. ASSUME NEW a \in Accounts, NEW q \in Amounts, NEW T \in FeeTokens,
               NEW to \in Accounts, HolderTransfer(a, to, T, q)
        PROVE  Inv'
    BY <2>5, HolderTransferInv
  <2> QED
    BY <1>1, <2>1, <2>2, <2>3, <2>4, <2>5 DEF LedgerNext
<1>2. CASE TopicNext
  <2>1. ASSUME NEW creator \in Customers, NEW id \in Topics, NEW description \in Descriptions,
               NEW sym \in Symbols, NEW q \in Payments,
               CreateTopic(creator, id, description, sym, q)
        PROVE  Inv'
    BY <2>1, CreateTopicInv
  <2>2. ASSUME NEW id \in Topics, NEW description \in Descriptions, UpdateTopic(id, description)
        PROVE  Inv'
    <3>1. topics[id] \in TopicRows
      BY <2>2 DEF UpdateTopic, IsTopic, TypeOK
    <3>2. [topics[id] EXCEPT !.description = description] \in TopicRows
      BY <3>1 DEF TopicRows
    <3>3. topics' = [topics EXCEPT ![id] = [topics[id] EXCEPT !.description = description]]
      BY <2>2 DEF UpdateTopic
    <3>4. topics' \in [Topics -> TopicRows \cup {NoTopic}]
      BY <3>2, <3>3 DEF TypeOK
    <3> QED
      BY <2>2, <3>4, TopicTableInv DEF UpdateTopic
  <2> QED
    BY <1>2, <2>1, <2>2 DEF TopicNext
<1>3. CASE \E id \in Topics : DeleteTopic(id)
  <2>1. topics' \in [Topics -> TopicRows \cup {NoTopic}]
    BY <1>3 DEF DeleteTopic, TypeOK
  <2> QED
    BY <1>3, <2>1, TopicTableInv DEF DeleteTopic
<1>4. CASE ConfigNext
  BY <1>4, SetConfigInv, SwitchInv DEF ConfigNext
<1>5. CASE UNCHANGED vars
  BY <1>5 DEF vars, TypeOK, RowsConsistent, ExactCustody, BalancesInFeeToken
<1> QED
  BY <1>1, <1>2, <1>3, <1>4, <1>5 DEF Next

----
(* Theorems. *)

\* Inv holds throughout.
THEOREM InvAlways == Spec => []Inv
<1>1. Init => Inv
  BY InitInv
<1>2. Inv /\ [Next]_vars => Inv'
  BY NextInv
<1> QED
  BY <1>1, <1>2, PTL DEF Spec

\* The contract's coins of the fee token are exactly its customers' balances and
\* what nobody was credited for, less what negative fees credited without
\* coins, until the token is replaced under balances.
THEOREM CustodyCorrect == Spec => []ExactCustody
<1>1. Inv => ExactCustody
  OBVIOUS
<1> QED
  BY <1>1, InvAlways, PTL

\* Until then every balance can be withdrawn, in full and in part, unless topics
\* at a negative fee credited more than arrived uncredited.
THEOREM RedeemableCorrect == Spec => []Redeemable
<1>1. Inv => Redeemable
  <2> SUFFICES ASSUME Inv, ~ retokened, NEW a \in Accounts, ledger[a] > 0
               PROVE  /\ config.token \in FeeTokens
                      /\ rowSymbol[a] = config.token.symbol
                      /\ unowned[config.token] >= 0 => ledger[a] <= coins[config.token][Sentiment]
    BY DEF Redeemable
  <2>1. config.token \in FeeTokens /\ rowSymbol[a] = config.token.symbol
    BY DEF BalancesInFeeToken
  <2>2. coins[config.token][Sentiment] = unowned[config.token] + Total(ledger)
    BY <2>1 DEF ExactCustody
  <2>3. ledger[a] <= Total(ledger) /\ Total(ledger) \in Nat /\ ledger[a] \in Nat
        /\ unowned[config.token] \in Int
    BY <2>1, SentimentAssumption, MaxAmountAssumption, TotalBoundsEntry, TotalType
       DEF TypeOK, Amounts
  <2> QED
    BY <2>1, <2>2, <2>3
<1> QED
  BY <1>1, InvAlways, PTL

\* A step of a disabled contract moves no balance, opens no row, creates no topic
\* and lets no coins in but those that never reach its check.
THEOREM DisabledIsClosed == Spec => ClosedWhileDisabled
<1> DEFINE Closed ==
             /\ UNCHANGED ledgerVars
             /\ \A id \in Topics : IsTopic(id)' => IsTopic(id)
             /\ \A T \in FeeTokens : coins'[T][Sentiment] # coins[T][Sentiment] =>
                  \/ T.contract \in SilentContracts
                  \/ coins'[T][Ram] < coins[T][Ram]
<1>1. ASSUME Inv, Next, ~ config.enabled PROVE Closed
  <2>1. ASSUME NEW a \in Accounts, NEW T \in FeeTokens, NEW q \in Amounts,
               SilentTransfer(a, T, q)
        PROVE  Closed
    <3>1. /\ MoveCoins(T, a, Sentiment, q) /\ (a = Ram \/ T.contract \in SilentContracts)
          /\ UNCHANGED <<opened, ledger, rowSymbol, topics>> /\ Sentiment \in Accounts
      BY <2>1, SentimentAssumption DEF SilentTransfer
    <3>2. /\ T \in FeeTokens /\ q > 0 /\ coins[T][a] >= q
          /\ coins'[T][a] = coins[T][a] - q
          /\ \A U \in FeeTokens \ {T} : coins'[U] = coins[U]
      <4>1. TypeOK
        BY <1>1
      <4>2. MoveCoins(T, a, Sentiment, q)
        BY <3>1
      <4> QED
        BY <3>1, <4>1, <4>2, MoveCoinsEffect, ZenonT(60)
    <3>3. coins[T][a] \in Nat /\ q \in Nat
      BY <1>1, <3>2, MaxAmountAssumption DEF TypeOK, Amounts
    <3>4. coins'[T][a] < coins[T][a]
      BY <3>2, <3>3
    <3> QED
      BY <3>1, <3>2, <3>4 DEF ledgerVars, IsTopic
  <2>2. ASSUME NEW a \in Accounts, NEW T \in FeeTokens, NEW q \in Amounts,
               NEW to \in Accounts, HolderTransfer(a, to, T, q)
        PROVE  Closed
    <3>1. /\ MoveCoins(T, a, to, q) /\ a # Sentiment /\ to # Sentiment
          /\ UNCHANGED <<opened, ledger, rowSymbol, topics>> /\ Sentiment \in Accounts
      BY <2>2, SentimentAssumption DEF HolderTransfer
    <3>2. /\ \A U \in FeeTokens \ {T} : coins'[U] = coins[U]
          /\ \A b \in Accounts : (b # a /\ b # to) => coins'[T][b] = coins[T][b]
      <4>1. TypeOK
        BY <1>1
      <4>2. MoveCoins(T, a, to, q)
        BY <3>1
      <4> QED
        BY <4>1, <4>2, MoveCoinsEffect, ZenonT(60)
    <3> QED
      BY <3>1, <3>2 DEF ledgerVars, IsTopic
  <2>3. ASSUME ConfigNext \/ \E id \in Topics : DeleteTopic(id) PROVE Closed
    <3>1. UNCHANGED <<opened, ledger, rowSymbol, coins>>
      BY <2>3 DEF ConfigNext, SetConfig, Enable, Disable, DeleteTopic
    <3>2. \A id \in Topics : IsTopic(id)' => IsTopic(id)
      BY <1>1, <2>3 DEF ConfigNext, SetConfig, Enable, Disable, DeleteTopic, IsTopic, TypeOK
    <3> QED
      BY <3>1, <3>2 DEF ledgerVars
  <2>4. ASSUME NEW i \in Topics, NEW description \in Descriptions, UpdateTopic(i, description)
        PROVE  Closed
    BY <1>1, <2>4 DEF UpdateTopic, IsTopic, TypeOK, ledgerVars
  <2>5. ASSUME LedgerNext PROVE Closed
    BY <1>1, <2>1, <2>2, <2>5 DEF LedgerNext, Open, Deposit, Withdraw, ForeignTransfer
  <2>6. ASSUME TopicNext PROVE Closed
    BY <1>1, <2>4, <2>6 DEF TopicNext, CreateTopic
  <2> QED
    BY <1>1, <2>3, <2>5, <2>6 DEF Next
<1>2. Inv /\ [Next]_vars => [~ config.enabled => Closed]_vars
  BY <1>1
<1> QED
  BY <1>2, InvAlways, PTL DEF Spec, ClosedWhileDisabled

\* Who creates a topic pays the fee, its receiver gets it if the fee is sent by a
\* transfer, and the topic keeps its creator for as long as it is there.
THEOREM TopicsArePaid == Spec => TopicsPaidAndKept
<1> DEFINE Paid(id) ==
             LET creator == topics'[id].creator IN
               /\ ledger'[creator] = ledger[creator] - config.fee
               /\ config.action \in PayingActions =>
                    /\ config.fee > 0
                    /\ coins'[config.token][config.receiver] =
                         coins[config.token][config.receiver] + config.fee
           PaidAndKept ==
             \A id \in Topics :
               /\ (~ IsTopic(id) /\ IsTopic(id)') => Paid(id)
               /\ (IsTopic(id) /\ IsTopic(id)') => topics'[id].creator = topics[id].creator
<1>1. ASSUME Inv, Next PROVE PaidAndKept
  <2>1. ASSUME topics' = topics PROVE PaidAndKept
    BY <2>1 DEF IsTopic
  <2>2. ASSUME NEW i \in Topics, NEW description \in Descriptions, UpdateTopic(i, description)
        PROVE  PaidAndKept
    <3>1. topics[i] \in TopicRows /\ IsTopic(i)
      BY <1>1, <2>2 DEF UpdateTopic, IsTopic, TypeOK
    <3>2. topics' = [topics EXCEPT ![i] = [topics[i] EXCEPT !.description = description]]
      BY <2>2 DEF UpdateTopic
    <3>3. topics'[i].creator = topics[i].creator
      BY <1>1, <3>1, <3>2 DEF TopicRows, TypeOK
    <3>4. \A id \in Topics : id # i => topics'[id] = topics[id]
      BY <1>1, <3>2 DEF TypeOK
    <3> QED
      BY <3>1, <3>3, <3>4 DEF IsTopic
  <2>3. ASSUME NEW i \in Topics, DeleteTopic(i) PROVE PaidAndKept
    BY <1>1, <2>3 DEF DeleteTopic, IsTopic, TypeOK
  <2>4. ASSUME NEW creator \in Customers, NEW i \in Topics, NEW description \in Descriptions,
               NEW sym \in Symbols, NEW q \in Payments,
               CreateTopic(creator, i, description, sym, q)
        PROVE  PaidAndKept
    <3>1. /\ creator \in Accounts /\ Sentiment \in Accounts /\ ~ IsTopic(i) /\ q = config.fee
          /\ RemoveBalance(creator, sym, q) /\ PayFee(q)
          /\ topics'[i].creator = creator
          /\ \A id \in Topics : id # i => topics'[id] = topics[id]
      BY <1>1, <2>4, SentimentAssumption DEF CreateTopic, TypeOK
    <3>2. ledger'[creator] = ledger[creator] - q
      BY <1>1, <3>1, RemoveBalanceEffect
    <3>3. ASSUME config.action \in PayingActions
          PROVE  /\ q > 0
                 /\ coins'[config.token][config.receiver] = coins[config.token][config.receiver] + q
      BY <1>1, <3>1, <3>3, FeeReceived
    <3>4. Paid(i)
      BY <3>1, <3>2, <3>3
    <3> QED
      BY <3>1, <3>4 DEF IsTopic
  <2>5. ASSUME LedgerNext \/ ConfigNext PROVE topics' = topics
    BY <2>5 DEF LedgerNext, Open, Deposit, Withdraw, ForeignTransfer, SilentTransfer,
                HolderTransfer, ConfigNext, SetConfig, Enable, Disable
  <2>6. ASSUME TopicNext PROVE PaidAndKept
    BY <2>2, <2>4, <2>6 DEF TopicNext
  <2> HIDE DEF PaidAndKept
  <2> QED
    BY <1>1, <2>1, <2>3, <2>5, <2>6 DEF Next
<1>2. Inv /\ [Next]_vars => [PaidAndKept]_vars
  BY <1>1
<1> QED
  BY <1>2, InvAlways, PTL DEF Spec, TopicsPaidAndKept

----
(* The contract implements the escrow. *)

\* A payment to or from the contract raises or lowers the total it holds.
LEMMA HoldingsEffect ==
  ASSUME TypeOK, NEW T \in FeeTokens, NEW q \in Amounts,
         coins' \in [FeeTokens -> [Accounts -> Amounts]],
         \A U \in FeeTokens \ {T} : coins'[U] = coins[U]
  PROVE  /\ (coins[T][Sentiment] + q <= MaxAmount /\ coins'[T][Sentiment] = coins[T][Sentiment] + q)
              => Total(Holdings') = Total(Holdings) + q
         /\ (coins[T][Sentiment] >= q /\ coins'[T][Sentiment] = coins[T][Sentiment] - q)
              => Total(Holdings') = Total(Holdings) - q
         /\ Total(Holdings) \in Nat /\ Total(Holdings') \in Nat
<1> DEFINE h  == Holdings
           hn == Holdings'
<1>1. Sentiment \in Accounts /\ IsFiniteSet(FeeTokens) /\ q \in Nat
  BY SentimentAssumption, MaxAmountAssumption DEF Amounts
<1>2. /\ h \in [FeeTokens -> Amounts] /\ hn \in [FeeTokens -> Amounts]
      /\ h[T] = coins[T][Sentiment] /\ hn[T] = coins'[T][Sentiment]
      /\ \A U \in FeeTokens : U # T => hn[U] = h[U]
  BY <1>1 DEF Holdings, TypeOK
<1> HIDE DEF h, hn
<1>3. ASSUME h[T] + q <= MaxAmount, hn[T] = h[T] + q PROVE Total(hn) = Total(h) + q
  <2>1. hn = [U \in FeeTokens |-> IF U = T THEN h[T] + q ELSE h[U]]
    <3>1. \A U \in FeeTokens : hn[U] = (IF U = T THEN h[T] + q ELSE h[U])
      BY <1>2, <1>3
    <3> QED
      BY <1>2, <3>1
  <2>2. Credit(h, T, q) = [U \in FeeTokens |-> IF U = T THEN h[T] + q ELSE h[U]]
    BY <1>2 DEF Credit
  <2> QED
    BY <1>1, <1>2, <1>3, <2>1, <2>2, TotalCredit
<1>4. ASSUME h[T] >= q, hn[T] = h[T] - q PROVE Total(hn) = Total(h) - q
  <2>1. hn = [U \in FeeTokens |-> IF U = T THEN h[T] - q ELSE h[U]]
    <3>1. \A U \in FeeTokens : hn[U] = (IF U = T THEN h[T] - q ELSE h[U])
      BY <1>2, <1>4
    <3> QED
      BY <1>2, <3>1
  <2>2. Debit(h, T, q) = [U \in FeeTokens |-> IF U = T THEN h[T] - q ELSE h[U]]
    BY <1>2 DEF Debit
  <2> QED
    BY <1>1, <1>2, <1>4, <2>1, <2>2, TotalDebit
<1>5. Total(h) \in Nat /\ Total(hn) \in Nat
  BY <1>1, <1>2, TotalType
<1> QED
  BY <1>2, <1>3, <1>4, <1>5 DEF h, hn

LEMMA EscrowInitRefined == Init => E!EscrowInit
<1> SUFFICES ASSUME Init PROVE E!EscrowInit
  OBVIOUS
<1>1. Total(ledger) = 0
  BY TotalZero DEF Init
<1>2. Holdings = [T \in FeeTokens |-> 0]
  BY SentimentAssumption DEF Init, Holdings
<1>3. Total(Holdings) = 0
  BY <1>2, TotalZero
<1> QED
  BY <1>1, <1>3 DEF Init, E!EscrowInit

\* Steps that leave the balances and the contract's coins alone stutter.
LEMMA EscrowStutter ==
  ASSUME ledger' = ledger, Holdings' = Holdings
  PROVE  UNCHANGED E!escrowVars
BY DEF E!escrowVars

\* A payment charged to a balance releases what was owed.
LEMMA ChargedPaymentReleases ==
  ASSUME Inv, NEW a \in Accounts, NEW sym, NEW to \in Accounts, NEW q \in Payments,
         RemoveBalance(a, sym, q), MoveCoins(config.token, Sentiment, to, q)
  PROVE  E!EscrowNext
<1>1. Sentiment \in Accounts
  BY SentimentAssumption
<1> q \in Amounts
  BY PaymentFacts DEF MoveCoins
<1>2. /\ config.token \in FeeTokens /\ q > 0
      /\ coins' \in [FeeTokens -> [Accounts -> Amounts]]
      /\ coins[config.token][Sentiment] >= q
      /\ coins'[config.token][Sentiment] = coins[config.token][Sentiment] - q
      /\ \A U \in FeeTokens \ {config.token} : coins'[U] = coins[U]
  BY <1>1, MoveCoinsEffect, ZenonT(60)
<1>3. /\ ledger[a] >= q
      /\ ledger' = Debit(ledger, a, q)
      /\ Total(ledger') = Total(ledger) - q
  BY RemoveBalanceEffect, PaymentFacts
<1>4. Total(Holdings') = Total(Holdings) - q /\ Total(Holdings) \in Nat
  BY <1>2, HoldingsEffect
<1>5. Total(ledger) \in Nat /\ ledger[a] \in Nat /\ q \in Nat
  BY SentimentAssumption, MaxAmountAssumption, TotalType DEF TypeOK, Amounts
<1>6. (Total(Holdings) - Total(ledger))' = Total(Holdings) - Total(ledger)
  BY <1>3, <1>4, <1>5
<1>7. E!Release(a, q)
  BY <1>3, <1>4, <1>5, <1>6 DEF E!Release, E!Debit, Debit
<1>8. q \in E!Amounts \ {0}
  BY <1>2 DEF E!Amounts, Amounts
<1> QED
  BY <1>7, <1>8 DEF E!EscrowNext

LEMMA DepositReceives ==
  ASSUME Inv, NEW a \in Customers, NEW T \in FeeTokens, NEW q \in Amounts, Deposit(a, T, q)
  PROVE  E!EscrowNext
<1>1. Sentiment \in Accounts /\ a \in Accounts /\ T.symbol \in Symbols
  BY SentimentAssumption, SymbolFacts
<1>2. MoveCoins(T, a, Sentiment, q) /\ AddBalance(a, T.symbol, q)
  BY DEF Deposit
<1>3. /\ q > 0
      /\ coins' \in [FeeTokens -> [Accounts -> Amounts]]
      /\ coins[T][Sentiment] + q <= MaxAmount
      /\ coins'[T][Sentiment] = coins[T][Sentiment] + q
      /\ \A U \in FeeTokens \ {T} : coins'[U] = coins[U]
  BY <1>1, <1>2, MoveCoinsEffect, ZenonT(60)
<1>4. /\ ledger[a] + q <= MaxAmount
      /\ ledger' = Credit(ledger, a, q)
      /\ Total(ledger') = Total(ledger) + q
  BY <1>1, <1>2, AddBalanceEffect
<1>5. Total(Holdings') = Total(Holdings) + q /\ Total(Holdings) \in Nat
  BY <1>3, HoldingsEffect
<1>6. Total(ledger) \in Nat /\ q \in Nat
  BY SentimentAssumption, MaxAmountAssumption, TotalType DEF TypeOK, Amounts
<1>7. (Total(Holdings) - Total(ledger))' = Total(Holdings) - Total(ledger)
  BY <1>4, <1>5, <1>6
<1>8. E!Receive(a, q)
  BY <1>4, <1>5, <1>7 DEF E!Receive, E!Credit, Credit
<1>9. q \in E!Amounts \ {0}
  BY <1>3 DEF E!Amounts, Amounts
<1> QED
  BY <1>1, <1>8, <1>9 DEF E!EscrowNext

LEMMA UnclaimedTransferAbsorbs ==
  ASSUME Inv, NEW a \in Accounts, NEW T \in FeeTokens, NEW q \in Amounts,
         MoveCoins(T, a, Sentiment, q), ledger' = ledger
  PROVE  E!EscrowNext
<1>1. Sentiment \in Accounts /\ MoveCoins(T, a, Sentiment, q) /\ ledger' = ledger
  BY SentimentAssumption
<1>2. /\ q > 0
      /\ coins' \in [FeeTokens -> [Accounts -> Amounts]]
      /\ coins[T][Sentiment] + q <= MaxAmount
      /\ coins'[T][Sentiment] = coins[T][Sentiment] + q
      /\ \A U \in FeeTokens \ {T} : coins'[U] = coins[U]
  BY <1>1, MoveCoinsEffect, ZenonT(60)
<1>3. Total(Holdings') = Total(Holdings) + q /\ Total(Holdings) \in Nat
  BY <1>2, HoldingsEffect
<1>4. Total(ledger) \in Nat /\ q \in Nat
  BY SentimentAssumption, MaxAmountAssumption, TotalType DEF TypeOK, Amounts
<1>5. (Total(Holdings) - Total(ledger))' = (Total(Holdings) - Total(ledger)) + q
  BY <1>1, <1>3, <1>4
<1>6. E!Absorb(q)
  BY <1>1, <1>3, <1>5 DEF E!Absorb
<1>7. q \in E!Amounts \ {0}
  BY <1>2 DEF E!Amounts, Amounts
<1> QED
  BY <1>6, <1>7 DEF E!EscrowNext

\* A fee that pays nobody: forfeited if it is positive, granted if it is negative.
LEMMA FeeStays ==
  ASSUME Inv, NEW a \in Accounts, NEW sym, NEW q \in Payments,
         RemoveBalance(a, sym, q), coins' = coins
  PROVE  /\ q > 0 => E!Forfeit(a, q)
         /\ q < 0 => E!Grant(a, -q)
         /\ q = 0 => UNCHANGED E!escrowVars
<1>1. /\ ledger[a] >= q
      /\ ledger' = Debit(ledger, a, q)
      /\ ledger' \in [Accounts -> Amounts]
      /\ ledger'[a] = ledger[a] - q
      /\ Total(ledger') = Total(ledger) - q
  BY RemoveBalanceEffect
<1>2. Holdings \in [FeeTokens -> Amounts] /\ Holdings' = Holdings
  BY SentimentAssumption DEF Holdings, TypeOK
<1>3. Total(Holdings) \in Nat /\ Total(Holdings') = Total(Holdings)
  BY <1>2, SentimentAssumption, TotalType
<1>4. Total(ledger) \in Nat /\ ledger[a] \in Nat /\ q \in Int
  BY SentimentAssumption, MaxAmountAssumption, PaymentFacts, TotalType DEF TypeOK, Amounts
<1>5. (Total(Holdings) - Total(ledger))' = (Total(Holdings) - Total(ledger)) + q
  BY <1>1, <1>3, <1>4
<1>6. ASSUME q > 0 PROVE E!Forfeit(a, q)
  BY <1>1, <1>3, <1>5 DEF E!Forfeit, E!Debit, Debit
<1>7. ASSUME q < 0 PROVE E!Grant(a, -q)
  <2>1. ledger[a] + (-q) <= MaxAmount
    <3>1. ledger'[a] <= MaxAmount
      BY <1>1, MaxAmountAssumption DEF Amounts
    <3> QED
      BY <1>1, <1>4, <3>1
  <2>2. ledger' = Credit(ledger, a, -q)
    <3>1. ledger[a] - q = ledger[a] + (-q)
      BY <1>4
    <3> QED
      BY <1>1, <3>1 DEF Debit, Credit
  <2>3. (Total(Holdings) - Total(ledger))' = (Total(Holdings) - Total(ledger)) - (-q)
    BY <1>3, <1>4, <1>5
  <2> QED
    BY <1>3, <2>1, <2>2, <2>3 DEF E!Grant, E!Credit, Credit
<1>8. ASSUME q = 0 PROVE UNCHANGED E!escrowVars
  <2>1. ledger \in [Accounts -> Amounts] /\ \A b \in Accounts : ledger[b] \in Int
    BY MaxAmountAssumption DEF TypeOK, Amounts
  <2>2. ledger' = ledger
    BY <1>1, <1>8, <2>1 DEF Debit
  <2> QED
    BY <1>2, <2>2, EscrowStutter
<1> QED
  BY <1>6, <1>7, <1>8

LEMMA CreateTopicRefined ==
  ASSUME Inv, NEW creator \in Customers, NEW id \in Topics, NEW description \in Descriptions,
         NEW sym \in Symbols, NEW q \in Payments, CreateTopic(creator, id, description, sym, q)
  PROVE  E!EscrowNext \/ TopicGrants \/ UNCHANGED E!escrowVars
<1>1. creator \in Accounts /\ RemoveBalance(creator, sym, q) /\ PayFee(q)
      /\ config.enabled /\ q = config.fee /\ q \in Int
  BY SentimentAssumption, PaymentFacts DEF CreateTopic
<1>2. CASE MoveCoins(config.token, Sentiment, config.receiver, q)
  <2>1. config.receiver \in Accounts
    BY <1>2 DEF MoveCoins
  <2> QED
    BY <1>1, <1>2, <2>1, ChargedPaymentReleases
<1>3. CASE coins' = coins /\ config.action \notin PayingActions
  <2>1. CASE q > 0
    <3>1. E!Forfeit(creator, q)
      BY <1>1, <1>3, <2>1, FeeStays
    <3>2. q \in E!Amounts \ {0}
      BY <2>1, PaymentFacts DEF E!Amounts, Amounts
    <3> QED
      BY <1>1, <3>1, <3>2 DEF E!EscrowNext
  <2>2. CASE q < 0
    <3>1. E!Grant(creator, -q)
      BY <1>1, <1>3, <2>2, FeeStays
    <3>2. ~ IsTopic(id) /\ topics' = [topics EXCEPT ![id] = [creator |-> creator, description |-> description]]
      BY DEF CreateTopic
    <3>3. topics'[id].creator = creator /\ IsTopic(id)'
      <4>1. [creator |-> creator, description |-> description] # NoTopic
        BY <1>1, SentimentAssumption DEF NoTopic
      <4> QED
        BY <3>2, <4>1 DEF IsTopic, TypeOK
    <3> QED
      BY <1>1, <1>3, <2>2, <3>1, <3>2, <3>3 DEF TopicGrants
  <2>3. CASE q = 0
    BY <1>1, <1>3, <2>3, FeeStays
  <2> QED
    BY <1>1, <2>1, <2>2, <2>3
<1> QED
  BY <1>1, <1>2, <1>3 DEF PayFee

LEMMA EscrowNextRefined == Inv /\ [Next]_vars => [E!EscrowNext \/ TopicGrants]_E!escrowVars
<1> SUFFICES ASSUME Inv, [Next]_vars
             PROVE  E!EscrowNext \/ TopicGrants \/ UNCHANGED E!escrowVars
  OBVIOUS
<1>1. ASSUME ledger' = ledger, coins' = coins PROVE UNCHANGED E!escrowVars
  BY <1>1, EscrowStutter DEF Holdings
<1>2. CASE LedgerNext
  <2>1. ASSUME NEW a \in Customers, Open(a) PROVE UNCHANGED E!escrowVars
    BY <1>1, <2>1 DEF Open
  <2>2. ASSUME NEW a \in Customers, NEW q \in Amounts, NEW T \in FeeTokens, Deposit(a, T, q)
        PROVE  E!EscrowNext
    BY <2>2, DepositReceives
  <2>3. ASSUME NEW a \in Customers, NEW q \in Amounts, NEW sym \in Symbols, Withdraw(a, sym, q)
        PROVE  E!EscrowNext
    <3>1. a \in Accounts /\ q \in Payments
      BY SentimentAssumption, PaymentFacts
    <3> QED
      BY <2>3, <3>1, ChargedPaymentReleases DEF Withdraw
  <2>4. ASSUME NEW a \in Accounts, NEW q \in Amounts, NEW T \in FeeTokens,
               ForeignTransfer(a, T, q) \/ SilentTransfer(a, T, q)
        PROVE  E!EscrowNext
    BY <2>4, UnclaimedTransferAbsorbs DEF ForeignTransfer, SilentTransfer
  <2>5. ASSUME NEW a \in Accounts, NEW q \in Amounts, NEW T \in FeeTokens,
               NEW to \in Accounts, HolderTransfer(a, to, T, q)
        PROVE  UNCHANGED E!escrowVars
    <3>1. MoveCoins(T, a, to, q) /\ a # Sentiment /\ to # Sentiment /\ Sentiment \in Accounts
          /\ ledger' = ledger
      BY <2>5, SentimentAssumption DEF HolderTransfer
    <3>2. /\ \A U \in FeeTokens \ {T} : coins'[U] = coins[U]
          /\ \A b \in Accounts : (b # a /\ b # to) => coins'[T][b] = coins[T][b]
      <4>1. TypeOK
        OBVIOUS
      <4>2. MoveCoins(T, a, to, q)
        BY <3>1
      <4> QED
        BY <4>1, <4>2, MoveCoinsEffect, ZenonT(60)
    <3>3. coins'[T][Sentiment] = coins[T][Sentiment]
      BY <3>1, <3>2
    <3>4. Holdings' = Holdings
      BY <3>2, <3>3 DEF Holdings
    <3> QED
      BY <3>1, <3>4, EscrowStutter
  <2> QED
    BY <1>2, <2>1, <2>2, <2>3, <2>4, <2>5 DEF LedgerNext
<1>3. CASE TopicNext
  <2>1. ASSUME NEW creator \in Customers, NEW id \in Topics, NEW description \in Descriptions,
               NEW sym \in Symbols, NEW q \in Payments,
               CreateTopic(creator, id, description, sym, q)
        PROVE  E!EscrowNext \/ TopicGrants \/ UNCHANGED E!escrowVars
    BY <2>1, CreateTopicRefined
  <2>2. ASSUME NEW id \in Topics, NEW description \in Descriptions, UpdateTopic(id, description)
        PROVE  UNCHANGED E!escrowVars
    BY <1>1, <2>2 DEF UpdateTopic
  <2> QED
    BY <1>3, <2>1, <2>2 DEF TopicNext
<1>4. CASE ConfigNext \/ \E id \in Topics : DeleteTopic(id)
  BY <1>1, <1>4 DEF ConfigNext, SetConfig, Enable, Disable, DeleteTopic
<1>5. CASE UNCHANGED vars
  BY <1>1, <1>5 DEF vars
<1> QED
  BY <1>2, <1>3, <1>4, <1>5 DEF Next

\* Whatever happens to the configuration, over all fee tokens the contract is an
\* escrow, but for what a topic at a negative fee grants.
THEOREM SentimentIsAnEscrow == Spec => EscrowRefined
<1>1. Init => E!EscrowInit
  BY EscrowInitRefined
<1>2. Inv /\ [Next]_vars => [E!EscrowNext \/ TopicGrants]_E!escrowVars
  BY EscrowNextRefined
<1> QED
  BY <1>1, <1>2, InvAlways, PTL DEF Spec, EscrowRefined

----
(* The votes. *)

USE DEF VotesInv

\* A step of the contract with its votes is a step of the contract without them.
LEMMA VotesStepIsAStep == [VotesNext]_allVars => [Next]_vars
<1>1. ASSUME MaintainerNext PROVE Next \/ UNCHANGED vars
  BY <1>1 DEF MaintainerNext, DeleteTopicAndVotes, BulkRmVotes, Next
<1>2. ASSUME TopicVotesNext PROVE UNCHANGED vars
  BY <1>2 DEF TopicVotesNext, VoteTopic, ChangeVote, RmTopicVote
<1>3. ASSUME AccountVotesNext PROVE UNCHANGED vars
  BY <1>3 DEF AccountVotesNext, VoteAccount, RmAcctVote
<1>4. ASSUME MsigVotesNext PROVE UNCHANGED vars
  BY <1>4 DEF MsigVotesNext, Propose, CloseProposal, VoteMsig, RmMsigVote
<1> QED
  BY <1>1, <1>2, <1>3, <1>4 DEF VotesNext, allVars, Next

LEMMA InvWithVotes == VotesSpec => []Inv
<1>1. VotesInit => Inv
  BY InitInv DEF VotesInit
<1>2. Inv /\ [VotesNext]_allVars => Inv'
  BY NextInv, VotesStepIsAStep
<1> QED
  BY <1>1, <1>2, PTL DEF VotesSpec

----
(* Each step preserves VotesInv. *)

LEMMA VotesInitInv == VotesInit => VotesInv
<1> SUFFICES ASSUME VotesInit PROVE VotesInv
  OBVIOUS
<1>1. NoVotes \in [Voters -> Ballots]
  BY DEF NoVotes, Ballots
<1>2. VotesTypeOK
  BY <1>1 DEF VotesInit, VotesTypeOK, NoVotes
<1>3. \A p \in Proposals : Scope(p) \in Scopes
  BY DEF Scopes
<1>4. RowsAreWhatWasSaid
  BY <1>3 DEF VotesInit, RowsAreWhatWasSaid, MsigRow, NoVotes
<1> QED
  BY <1>2, <1>4 DEF VotesInit, NoOrphanedVotes

\* Creating or updating a topic leaves no topic without a row that had one.
LEMMA TopicsKept ==
  ASSUME Inv, TopicNext, NEW id \in Topics, ~ IsTopic(id)'
  PROVE  ~ IsTopic(id)
<1> topics \in [Topics -> TopicRows \cup {NoTopic}]
  BY DEF TypeOK
<1>1. ASSUME NEW creator \in Customers, NEW i \in Topics, NEW description \in Descriptions,
             NEW sym \in Symbols, NEW q \in Payments,
             CreateTopic(creator, i, description, sym, q)
      PROVE  ~ IsTopic(id)
  BY <1>1 DEF CreateTopic, IsTopic
<1>2. ASSUME NEW i \in Topics, NEW description \in Descriptions, UpdateTopic(i, description)
      PROVE  ~ IsTopic(id)
  <2>1. topics[i] \in TopicRows
    BY <1>2 DEF UpdateTopic, IsTopic
  <2>2. [topics[i] EXCEPT !.description = description] \in TopicRows
    BY <2>1 DEF TopicRows
  <2>3. NoTopic \notin TopicRows
    BY SentimentAssumption DEF NoTopic, TopicRows
  <2>4. topics'[i] = [topics[i] EXCEPT !.description = description]
        /\ \A j \in Topics : j # i => topics'[j] = topics[j]
    BY <1>2 DEF UpdateTopic
  <2> QED
    BY <2>2, <2>3, <2>4 DEF IsTopic
<1> QED
  BY <1>1, <1>2 DEF TopicNext

\* The contract's other actions leave the votes alone, and every topic that
\* had votes.
LEMMA SentimentStepInv ==
  ASSUME Inv, VotesInv, LedgerNext \/ TopicNext \/ ConfigNext, UNCHANGED voteVars
  PROVE  VotesInv'
<1>1. VotesTypeOK' /\ RowsAreWhatWasSaid'
  BY DEF voteVars, VotesTypeOK, RowsAreWhatWasSaid, MsigRow
<1>2. ASSUME NEW id \in Topics, ~ IsTopic(id)' PROVE ~ IsTopic(id)
  <2>1. ASSUME LedgerNext \/ ConfigNext PROVE topics' = topics
    BY <2>1 DEF LedgerNext, Open, Deposit, Withdraw, ForeignTransfer, SilentTransfer,
                HolderTransfer, ConfigNext, SetConfig, Enable, Disable
  <2> QED
    BY <1>2, <2>1, TopicsKept DEF IsTopic
<1>3. NoOrphanedVotes'
  BY <1>2 DEF NoOrphanedVotes, voteVars
<1> QED
  BY <1>1, <1>3

\* A change of the votes of a topic that exists.
LEMMA TopicVotesInv ==
  ASSUME VotesInv, NEW i \in Topics, IsTopic(i), NEW ballots \in [Voters -> Ballots],
         topicVotes' = [topicVotes EXCEPT ![i] = ballots],
         UNCHANGED <<topics, accountVotes, msigVotes, proposals, said>>
  PROVE  VotesInv'
<1>1. VotesTypeOK' /\ RowsAreWhatWasSaid'
  BY DEF VotesTypeOK, RowsAreWhatWasSaid, MsigRow
<1>2. NoOrphanedVotes'
  BY DEF NoOrphanedVotes, IsTopic, VotesTypeOK
<1> QED
  BY <1>1, <1>2

LEMMA DeleteTopicInv ==
  ASSUME Inv, VotesInv, NEW i \in Topics, DeleteTopicAndVotes(i)
  PROVE  VotesInv'
<1>1. NoVotes \in [Voters -> Ballots]
  BY DEF NoVotes, Ballots
<1>2. VotesTypeOK' /\ RowsAreWhatWasSaid'
  BY <1>1 DEF DeleteTopicAndVotes, VotesTypeOK, RowsAreWhatWasSaid, MsigRow
<1>3. NoOrphanedVotes'
  BY DEF NoOrphanedVotes, IsTopic, DeleteTopicAndVotes, DeleteTopic, TypeOK, VotesTypeOK
<1> QED
  BY <1>2, <1>3

\* Votes on accounts concern nothing else.
LEMMA AccountVotesInv ==
  ASSUME VotesInv, AccountVotesNext
  PROVE  VotesInv'
<1>1. PICK account \in Subjects, voter \in Voters, ballot \in Ballots :
        /\ accountVotes' = [accountVotes EXCEPT ![account][voter] = ballot]
        /\ UNCHANGED <<vars, topicVotes, msigVotes, proposals, said>>
  BY DEF AccountVotesNext, VoteAccount, RmAcctVote, Ballots
<1>2. VotesTypeOK'
  BY <1>1 DEF VotesTypeOK
<1>3. RowsAreWhatWasSaid' /\ NoOrphanedVotes'
  BY <1>1 DEF RowsAreWhatWasSaid, MsigRow, NoOrphanedVotes, IsTopic, vars
<1> QED
  BY <1>2, <1>3

\* With distinct scopes, an answer and what was said change together.
LEMMA MsigTableInv ==
  ASSUME VotesInv, NEW p \in Proposals, NEW voter \in Voters,
         NEW row \in ProposalVotes \cup {NoVote}, NEW ballot \in Ballots,
         ScopesDistinct => row = (IF ballot = NoVote THEN NoVote ELSE [of |-> p, vote |-> ballot]),
         msigVotes' = [msigVotes EXCEPT ![Scope(p)][voter] = row],
         said' = [said EXCEPT ![p][voter] = ballot],
         UNCHANGED <<vars, topicVotes, accountVotes, proposals>>
  PROVE  VotesInv'
<1>1. \A r \in Proposals : Scope(r) \in Scopes
  BY DEF Scopes
<1>2. VotesTypeOK'
  BY <1>1 DEF VotesTypeOK
<1>3. NoOrphanedVotes'
  BY DEF NoOrphanedVotes, IsTopic, vars
<1>4. RowsAreWhatWasSaid'
  <2> SUFFICES ASSUME ScopesDistinct, NEW r \in Proposals, NEW v \in Voters
               PROVE  msigVotes'[Scope(r)][v] =
                        IF said'[r][v] = NoVote THEN NoVote ELSE [of |-> r, vote |-> said'[r][v]]
    BY DEF RowsAreWhatWasSaid, MsigRow
  <2>1. msigVotes[Scope(r)][v] =
          IF said[r][v] = NoVote THEN NoVote ELSE [of |-> r, vote |-> said[r][v]]
    BY DEF RowsAreWhatWasSaid, MsigRow
  <2>2. CASE r = p /\ v = voter
    BY <1>1, <2>2 DEF VotesTypeOK
  <2>3. CASE r = p /\ v # voter
    BY <1>1, <2>1, <2>3 DEF VotesTypeOK
  <2>4. CASE r # p
    <3>1. Scope(r) # Scope(p)
      BY <2>4 DEF ScopesDistinct
    <3> QED
      BY <1>1, <2>1, <2>4, <3>1 DEF VotesTypeOK
  <2> QED
    BY <2>2, <2>3, <2>4
<1> QED
  BY <1>2, <1>3, <1>4

LEMMA MsigVotesInv ==
  ASSUME VotesInv, MsigVotesNext
  PROVE  VotesInv'
<1>1. ASSUME NEW p \in Proposals, Propose(p) \/ CloseProposal(p) PROVE VotesInv'
  <2>1. UNCHANGED <<vars, topicVotes, accountVotes, msigVotes, said>> /\ proposals' \subseteq Proposals
    BY <1>1 DEF Propose, CloseProposal, VotesTypeOK
  <2> QED
    BY <2>1 DEF VotesTypeOK, NoOrphanedVotes, IsTopic, vars, RowsAreWhatWasSaid, MsigRow
<1>2. ASSUME NEW p \in Proposals, NEW voter \in Voters, NEW type \in VoteTypes,
             VoteMsig(voter, p, type)
      PROVE  VotesInv'
  <2> DEFINE old == msigVotes[Scope(p)][voter]
             row == [of |-> IF old = NoVote THEN p ELSE old.of, vote |-> type]
  <2>1. /\ msigVotes' = [msigVotes EXCEPT ![Scope(p)][voter] = row]
        /\ said' = [said EXCEPT ![p][voter] = type]
        /\ UNCHANGED <<vars, topicVotes, accountVotes, proposals>>
    BY <1>2 DEF VoteMsig
  <2>2. old \in ProposalVotes \cup {NoVote}
    <3>1. Scope(p) \in Scopes
      BY DEF Scopes
    <3> QED
      BY <3>1 DEF VotesTypeOK
  <2>3. row \in ProposalVotes
    BY <2>2 DEF ProposalVotes
  <2>4. type \in Ballots /\ type # NoVote
    BY VotesAssumption DEF Ballots
  <2>5. ASSUME ScopesDistinct PROVE row = [of |-> p, vote |-> type]
    <3>1. old = IF said[p][voter] = NoVote THEN NoVote ELSE [of |-> p, vote |-> said[p][voter]]
      BY <2>5 DEF RowsAreWhatWasSaid, MsigRow
    <3>2. (IF old = NoVote THEN p ELSE old.of) = p
      BY <3>1
    <3> QED
      BY <3>2
  <2> HIDE DEF row
  <2> QED
    BY <2>1, <2>3, <2>4, <2>5, MsigTableInv
<1>3. ASSUME NEW p \in Proposals, NEW voter \in Voters, RmMsigVote(voter, p) PROVE VotesInv'
  <2>1. NoVote \in Ballots /\ NoVote \in ProposalVotes \cup {NoVote}
    BY DEF Ballots
  <2>2. /\ msigVotes' = [msigVotes EXCEPT ![Scope(p)][voter] = NoVote]
        /\ said' = [said EXCEPT ![p][voter] = NoVote]
        /\ UNCHANGED <<vars, topicVotes, accountVotes, proposals>>
    BY <1>3 DEF RmMsigVote
  <2> QED
    BY <2>1, <2>2, MsigTableInv
<1> QED
  BY <1>1, <1>2, <1>3 DEF MsigVotesNext

LEMMA VotesNextInv == Inv /\ VotesInv /\ [VotesNext]_allVars => VotesInv'
<1> SUFFICES ASSUME Inv, VotesInv, [VotesNext]_allVars PROVE VotesInv'
  OBVIOUS
<1>1. ASSUME NEW i \in Topics, NEW voter \in Voters, NEW ballot \in Ballots, IsTopic(i),
             topicVotes' = [topicVotes EXCEPT ![i][voter] = ballot],
             UNCHANGED <<vars, accountVotes, msigVotes, proposals, said>>
      PROVE  VotesInv'
  <2> DEFINE ballots == [topicVotes[i] EXCEPT ![voter] = ballot]
  <2>1. ballots \in [Voters -> Ballots]
    BY DEF VotesTypeOK
  <2>2. topicVotes' = [topicVotes EXCEPT ![i] = ballots] /\ topics' = topics
    BY <1>1 DEF vars
  <2> HIDE DEF ballots
  <2> QED
    BY <1>1, <2>1, <2>2, TopicVotesInv
<1>2. CASE TopicVotesNext
  <2>1. PICK voter \in Voters, id \in Topics :
          \/ \E type \in VoteTypes : VoteTopic(voter, id, type) \/ ChangeVote(voter, id, type)
          \/ RmTopicVote(voter, id)
    BY <1>2 DEF TopicVotesNext
  <2>2. PICK ballot \in Ballots :
          /\ IsTopic(id)
          /\ topicVotes' = [topicVotes EXCEPT ![id][voter] = ballot]
          /\ UNCHANGED <<vars, accountVotes, msigVotes, proposals, said>>
    BY <2>1 DEF VoteTopic, ChangeVote, RmTopicVote, Ballots
  <2> QED
    BY <1>1, <2>2
<1>3. CASE MaintainerNext
  <2>1. ASSUME NEW id \in Topics, DeleteTopicAndVotes(id) PROVE VotesInv'
    BY <2>1, DeleteTopicInv
  <2>2. ASSUME NEW id \in Topics, NEW n \in Counts, BulkRmVotes(id, n) PROVE VotesInv'
    <3>1. PICK removed \in SUBSET TopicVoters(id) :
            topicVotes' = [topicVotes EXCEPT ![id] =
                             [v \in Voters |-> IF v \in removed THEN NoVote ELSE @[v]]]
      BY <2>2 DEF BulkRmVotes
    <3> DEFINE ballots == [v \in Voters |-> IF v \in removed THEN NoVote ELSE topicVotes[id][v]]
    <3>2. topicVotes' = [topicVotes EXCEPT ![id] = ballots]
      BY <3>1
    <3>3. ballots \in [Voters -> Ballots]
      BY DEF VotesTypeOK, Ballots
    <3>4. IsTopic(id) /\ UNCHANGED <<topics, accountVotes, msigVotes, proposals, said>>
      BY <2>2 DEF BulkRmVotes, vars
    <3> HIDE DEF ballots
    <3> QED
      BY <3>2, <3>3, <3>4, TopicVotesInv
  <2> QED
    BY <1>3, <2>1, <2>2 DEF MaintainerNext
<1>4. CASE UNCHANGED allVars
  BY <1>4 DEF allVars, vars, voteVars, VotesTypeOK, NoOrphanedVotes, IsTopic,
              RowsAreWhatWasSaid, MsigRow
<1> QED
  BY <1>2, <1>3, <1>4, SentimentStepInv, AccountVotesInv, MsigVotesInv DEF VotesNext

----
(* Theorems. *)

\* The tables of votes keep their types, no topic that is gone has votes, and
\* the rows about proposals are right.
THEOREM VotesInvAlways == VotesSpec => []VotesInv
<1>1. VotesInit => VotesInv
  BY VotesInitInv
<1>2. Inv /\ VotesInv /\ [VotesNext]_allVars => VotesInv'
  BY VotesNextInv
<1> QED
  BY <1>1, <1>2, InvWithVotes, PTL DEF VotesSpec

\* Whatever the order of votes, bulk removals and deletions, a topic that does
\* not exist has no votes.
THEOREM NoVoteOutlivesItsTopic == VotesSpec => []NoOrphanedVotes
<1>1. VotesInv => NoOrphanedVotes
  OBVIOUS
<1> QED
  BY <1>1, VotesInvAlways, PTL

\* As long as no two proposals share a scope, the answers about a proposal are
\* what its voters last said of it.
THEOREM ProposalAnswersCorrect == VotesSpec => []AnswersAreWhatWasSaid
<1>1. VotesInv => AnswersAreWhatWasSaid
  <2> SUFFICES ASSUME VotesInv, ScopesDistinct, NEW p \in proposals
               PROVE  /\ MsigVoters(p) = {v \in Voters : said[p][v] # NoVote}
                      /\ \A v \in MsigVoters(p) : MsigVote(p, v) = [of |-> p, vote |-> said[p][v]]
    BY DEF AnswersAreWhatWasSaid
  <2>1. p \in Proposals
    BY DEF VotesTypeOK
  <2>2. \A v \in Voters : MsigRow(p, v) = IF said[p][v] = NoVote THEN NoVote
                                          ELSE [of |-> p, vote |-> said[p][v]]
    BY <2>1 DEF RowsAreWhatWasSaid
  <2>3. \A v \in Voters : (MsigRow(p, v) # NoVote) = (said[p][v] # NoVote)
    <3> SUFFICES ASSUME NEW v \in Voters
                 PROVE  (MsigRow(p, v) # NoVote) = (said[p][v] # NoVote)
      OBVIOUS
    <3>1. CASE said[p][v] = NoVote
      BY <2>2, <3>1
    <3>2. CASE said[p][v] # NoVote
      <4>1. said[p][v] \in VoteTypes
        BY <2>1, <3>2 DEF VotesTypeOK, Ballots
      <4>2. [of |-> p, vote |-> said[p][v]] \in ProposalVotes
        BY <2>1, <4>1 DEF ProposalVotes
      <4> QED
        BY <2>2, <3>2, <4>2, VotesAssumption
    <3> QED
      BY <3>1, <3>2
  <2>4. MsigVoters(p) = {v \in Voters : said[p][v] # NoVote}
    BY <2>3 DEF MsigVoters
  <2> QED
    BY <2>2, <2>4 DEF MsigVote
<1> QED
  BY <1>1, VotesInvAlways, PTL

\* A disabled contract only loses votes, and only those of topics; votes on a
\* proposal stay as they are while it does not exist.
THEOREM VotesAreHeld == VotesSpec => VotesHeld
<1> DEFINE Disabled ==
             /\ UNCHANGED <<accountVotes, msigVotes>>
             /\ \A id \in Topics, v \in Voters :
                  topicVotes'[id][v] \in {topicVotes[id][v], NoVote}
           Kept == \A p \in Proposals \ proposals : msigVotes'[Scope(p)] = msigVotes[Scope(p)]
           Held == (~ config.enabled => Disabled) /\ (ScopesDistinct => Kept)
<1>1. ASSUME VotesInv, VotesNext PROVE Held
  <2>1. CASE UNCHANGED voteVars \/ TopicVotesNext \/ AccountVotesNext
    <3>1. UNCHANGED msigVotes
      BY <2>1 DEF voteVars, TopicVotesNext, VoteTopic, ChangeVote, RmTopicVote,
                  AccountVotesNext, VoteAccount, RmAcctVote
    <3>2. config.enabled \/ UNCHANGED voteVars
      BY <2>1 DEF TopicVotesNext, VoteTopic, ChangeVote, RmTopicVote,
                  AccountVotesNext, VoteAccount, RmAcctVote
    <3> QED
      BY <3>1, <3>2 DEF voteVars
  <2>2. ASSUME NEW i \in Topics, DeleteTopicAndVotes(i) PROVE Held
    <3>1. /\ topicVotes' = [topicVotes EXCEPT ![i] = NoVotes]
          /\ UNCHANGED <<accountVotes, msigVotes>>
      BY <2>2 DEF DeleteTopicAndVotes
    <3>2. \A v \in Voters : NoVotes[v] = NoVote
      BY DEF NoVotes
    <3> QED
      BY <1>1, <3>1, <3>2 DEF VotesTypeOK
  <2>3. ASSUME NEW i \in Topics, NEW n \in Counts, BulkRmVotes(i, n) PROVE Held
    <3>1. PICK removed \in SUBSET TopicVoters(i) :
            topicVotes' = [topicVotes EXCEPT ![i] =
                             [v \in Voters |-> IF v \in removed THEN NoVote ELSE @[v]]]
      BY <2>3 DEF BulkRmVotes
    <3>2. UNCHANGED <<accountVotes, msigVotes>>
      BY <2>3 DEF BulkRmVotes
    <3> QED
      BY <1>1, <3>1, <3>2 DEF VotesTypeOK
  <2>4. ASSUME NEW p \in Proposals, Propose(p) \/ CloseProposal(p) PROVE Held
    BY <2>4 DEF Propose, CloseProposal
  <2>5. ASSUME NEW p \in Proposals, NEW voter \in Voters,
               (\E type \in VoteTypes : VoteMsig(voter, p, type)) \/ RmMsigVote(voter, p)
        PROVE  Held
    <3>1. config.enabled /\ p \in proposals
      BY <2>5 DEF VoteMsig, RmMsigVote
    <3>2. PICK row : msigVotes' = [msigVotes EXCEPT ![Scope(p)][voter] = row]
      BY <2>5 DEF VoteMsig, RmMsigVote
    <3>3. ASSUME ScopesDistinct, NEW r \in Proposals \ proposals
          PROVE  msigVotes'[Scope(r)] = msigVotes[Scope(r)]
      <4>1. Scope(r) # Scope(p) /\ Scope(r) \in Scopes
        BY <3>1, <3>3 DEF ScopesDistinct, Scopes
      <4> QED
        BY <1>1, <3>2, <4>1 DEF VotesTypeOK
    <3> QED
      BY <3>1, <3>3
  <2> QED
    BY <1>1, <2>1, <2>2, <2>3, <2>4, <2>5 DEF VotesNext, MaintainerNext, MsigVotesNext
<1>2. VotesInv /\ [VotesNext]_allVars => [Held]_allVars
  BY <1>1
<1> QED
  BY <1>2, VotesInvAlways, PTL DEF VotesSpec, VotesHeld
================================================================================
