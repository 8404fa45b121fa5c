----------------------------- MODULE RegistryProofs -----------------------------
(******************************************************************************)
(* Proofs about the registry, for any accounts, fee tokens, tickers and       *)
(* amounts: the inductive invariant Inv, the custody and redeemability        *)
(* results that follow from it, that the registry is an escrow, and that an   *)
(* escrow is solvent.                                                         *)
(******************************************************************************)
EXTENDS Registry, Escrow, AssetTotalsProofs

USE DEF Inv

----
(* What the building blocks of the actions do. *)

\* A transfer debits one account and credits another, and leaves the rest alone.
LEMMA MoveCoinsEffect ==
  ASSUME TypeOK, NEW T, NEW from \in Accounts, NEW to \in Accounts, NEW q \in Amounts,
         MoveCoins(T, from, to, q)
  PROVE  /\ T \in FeeTokens /\ from # to /\ q > 0
         /\ coins' \in [FeeTokens -> [Accounts -> Amounts]]
         /\ coins[T][from] >= q
         /\ coins'[T][from] = coins[T][from] - q
         /\ coins[T][to] + q <= MaxAmount
         /\ coins'[T][to] = coins[T][to] + q
         /\ \A a \in Accounts : (a # from /\ a # to) => coins'[T][a] = coins[T][a]
         /\ \A U \in FeeTokens \ {T} : coins'[U] = coins[U]
<1> DEFINE row == Credit(Debit(coins[T], from, q), to, q)
<1>1. /\ T \in FeeTokens /\ from # to /\ q > 0
      /\ coins[T][from] >= q /\ coins[T][to] + q <= MaxAmount
      /\ coins' = [coins EXCEPT ![T] = row]
  BY DEF MoveCoins
<1>2. coins \in [FeeTokens -> [Accounts -> Amounts]] /\ coins[T] \in [Accounts -> Amounts]
  BY <1>1 DEF TypeOK
<1>3. /\ row \in [Accounts -> Amounts]
      /\ row[from] = coins[T][from] - q
      /\ row[to] = coins[T][to] + q
      /\ \A a \in Accounts : (a # from /\ a # to) => row[a] = coins[T][a]
  BY <1>1, <1>2, MaxAmountAssumption DEF Credit, Debit, Amounts
<1> HIDE DEF row
<1> QED
  BY <1>1, <1>2, <1>3

\* add_balance credits one row, which has the payment's symbol afterwards.
LEMMA AddBalanceEffect ==
  ASSUME TypeOK, NEW a \in Accounts, NEW sym \in Symbols, NEW q \in Amounts,
         AddBalance(a, sym, q)
  PROVE  /\ opened' = opened \cup {a}
         /\ ledger' \in [Accounts -> Amounts]
         /\ Total(ledger') = Total(ledger) + q
         /\ ledger[a] + q <= MaxAmount
         /\ ledger' = Credit(ledger, a, q)
         /\ ledger'[a] = ledger[a] + q
         /\ \A b \in Accounts \ {a} : ledger'[b] = ledger[b]
         /\ rowSymbol' \in [Accounts -> Symbols \cup {NoSymbol}]
         /\ rowSymbol'[a] = sym
         /\ \A b \in Accounts \ {a} : rowSymbol'[b] = rowSymbol[b]
<1>1. ledger \in [Accounts -> Amounts] /\ q \in Nat /\ IsFiniteSet(Accounts)
  BY RegistryAssumption, MaxAmountAssumption DEF TypeOK, Amounts
<1>2. ledger' = Credit(ledger, a, q) /\ ledger[a] + q <= MaxAmount
  BY DEF AddBalance
<1>3. ledger' \in [Accounts -> Amounts] /\ Total(ledger') = Total(ledger) + q
  BY <1>1, <1>2, TotalCredit
<1>4. ledger'[a] = ledger[a] + q /\ \A b \in Accounts \ {a} : ledger'[b] = ledger[b]
  BY <1>1, <1>2 DEF Credit
<1> QED
  BY <1>2, <1>3, <1>4 DEF AddBalance, TypeOK

\* remove_balance charges one row; the row goes when it is spent in full.
LEMMA RemoveBalanceEffect ==
  ASSUME TypeOK, NEW a \in Accounts, NEW sym, NEW q \in Amounts,
         RemoveBalance(a, sym, q)
  PROVE  /\ opened' \subseteq opened
         /\ opened' = (IF ledger[a] = q THEN opened \ {a} ELSE opened)
         /\ rowSymbol' = (IF ledger[a] = q THEN [rowSymbol EXCEPT ![a] = NoSymbol] ELSE rowSymbol)
         /\ ledger[a] >= q
         /\ ledger' = Debit(ledger, a, q)
         /\ ledger' \in [Accounts -> Amounts]
         /\ Total(ledger') = Total(ledger) - q
         /\ ledger'[a] = ledger[a] - q
         /\ \A b \in Accounts \ {a} : ledger'[b] = ledger[b]
         /\ rowSymbol' \in [Accounts -> Symbols \cup {NoSymbol}]
<1>1. ledger \in [Accounts -> Amounts] /\ q \in Nat /\ IsFiniteSet(Accounts)
  BY RegistryAssumption, MaxAmountAssumption DEF TypeOK, Amounts
<1>2. ledger' = Debit(ledger, a, q) /\ ledger[a] >= q
  BY DEF RemoveBalance
<1>3. ledger' \in [Accounts -> Amounts] /\ Total(ledger') = Total(ledger) - q
  BY <1>1, <1>2, TotalDebit
<1>4. ledger'[a] = ledger[a] - q /\ \A b \in Accounts \ {a} : ledger'[b] = ledger[b]
  BY <1>1, <1>2 DEF Debit
<1>5. /\ opened' = (IF ledger[a] = q THEN opened \ {a} ELSE opened)
      /\ rowSymbol' = (IF ledger[a] = q THEN [rowSymbol EXCEPT ![a] = NoSymbol] ELSE rowSymbol)
  BY DEF RemoveBalance
<1>6. rowSymbol' \in [Accounts -> Symbols \cup {NoSymbol}]
  BY <1>5 DEF TypeOK
<1> QED
  BY <1>2, <1>3, <1>4, <1>5, <1>6

\* The valid symbols, and the configured one while it is valid.
LEMMA SymbolFacts ==
  /\ NoSymbol \notin Symbols
  /\ \A T \in FeeTokens : T.symbol \in Symbols
  /\ TypeOK => config.token \in FeeTokens \cup {NoToken}
  /\ NoToken.symbol = NoSymbol
  /\ NoToken \notin FeeTokens
BY RegistryAssumption DEF Symbols, TypeOK, NoToken
----
(* Each action preserves Inv. *)

\* A table of zeros is owed nothing in total; a total of zero owes nobody.
LEMMA NobodyOwed ==
  ASSUME TypeOK, \A a \in Accounts : ~ (ledger[a] > 0)
  PROVE  Total(ledger) = 0
<1>1. ledger = [a \in Accounts |-> 0]
  <2>1. \A a \in Accounts : ledger[a] = 0
    BY MaxAmountAssumption DEF TypeOK, Amounts
  <2> QED
    BY <2>1 DEF TypeOK
<1> QED
  BY <1>1, TotalZero

LEMMA InitInv == Init => Inv
<1> SUFFICES ASSUME Init PROVE Inv
  OBVIOUS
<1>1. TypeOK
  <2>1. 0 \in Amounts
    BY MaxAmountAssumption DEF Amounts
  <2>2. config \in [enabled : BOOLEAN, token : FeeTokens \cup {NoToken},
                    receiver : Accounts \cup {NoAccount}, fee : Amounts, minlength : Nat]
    BY <2>1 DEF Init, DefaultConfig
  <2>3. /\ ledger \in [Accounts -> Amounts]
        /\ unowned \in [FeeTokens -> Amounts]
        /\ coins \in [FeeTokens -> [Accounts -> Amounts]]
        /\ rowSymbol \in [Accounts -> Symbols \cup {NoSymbol}]
        /\ registered \in [Tickers -> TokenRows \cup {Unregistered}]
    BY <2>1, RegistryAssumption DEF Init
  <2> QED
    BY <2>2, <2>3 DEF Init, TypeOK
<1>2. RowsConsistent /\ BalancesInFeeToken
  BY DEF Init, RowsConsistent, BalancesInFeeToken
<1>3. ExactCustody
  <2>1. Total(ledger) = 0
    BY <1>1, NobodyOwed DEF Init
  <2> QED
    BY <2>1, RegistryAssumption DEF Init, ExactCustody
<1> QED
  BY <1>1, <1>2, <1>3

\* Opening and closing rows touches no amount.
LEMMA OpenBalanceInv ==
  ASSUME Inv, NEW a \in Customers, OpenBalance(a)
  PROVE  Inv'
<1>1. a \in Accounts /\ config.token \in FeeTokens /\ config.token.symbol \in Symbols
  BY RegistryAssumption, SymbolFacts DEF OpenBalance
<1>2. TypeOK'
  BY <1>1 DEF OpenBalance, TypeOK
<1>3. RowsConsistent'
  BY <1>1, SymbolFacts DEF OpenBalance, RowsConsistent, TypeOK
<1>4. ExactCustody'
  BY DEF OpenBalance, ExactCustody
<1>5. BalancesInFeeToken'
  BY <1>1 DEF OpenBalance, BalancesInFeeToken, RowsConsistent, TypeOK
<1> QED
  BY <1>2, <1>3, <1>4, <1>5

LEMMA CloseBalanceInv ==
  ASSUME Inv, NEW a \in Customers, CloseBalance(a)
  PROVE  Inv'
<1>1. a \in Accounts
  BY RegistryAssumption
<1>2. TypeOK'
  BY <1>1 DEF CloseBalance, TypeOK
<1>3. RowsConsistent'
  BY <1>1 DEF CloseBalance, RowsConsistent, TypeOK
<1>4. ExactCustody'
  BY DEF CloseBalance, ExactCustody
<1>5. BalancesInFeeToken'
  BY <1>1 DEF CloseBalance, BalancesInFeeToken, TypeOK
<1> QED
  BY <1>2, <1>3, <1>4, <1>5

\* A deposit is of the configured token, because contract and symbol both match.
LEMMA DepositInv ==
  ASSUME Inv, NEW a \in Customers, NEW T \in FeeTokens, NEW q \in Amounts, Deposit(a, T, q)
  PROVE  Inv'
<1>1. a \in Accounts /\ Registry \in Accounts /\ a # Registry /\ T.symbol \in Symbols
  BY RegistryAssumption, SymbolFacts DEF Deposit
<1>2. T = config.token
  BY RegistryAssumption DEF Deposit, TypeOK, NoToken
<1>3. MoveCoins(T, a, Registry, q) /\ AddBalance(a, T.symbol, q)
      /\ UNCHANGED <<config, registered, contracts, unowned, retokened>>
  BY DEF Deposit
<1>4. /\ coins' \in [FeeTokens -> [Accounts -> Amounts]]
      /\ coins'[T][Registry] = coins[T][Registry] + q
      /\ \A U \in FeeTokens \ {T} : coins'[U] = coins[U]
  BY <1>1, <1>3, MoveCoinsEffect, ZenonT(60)
<1>5. /\ opened' = opened \cup {a}
      /\ ledger' \in [Accounts -> Amounts]
      /\ Total(ledger') = Total(ledger) + q
      /\ \A b \in Accounts \ {a} : ledger'[b] = ledger[b]
      /\ rowSymbol' \in [Accounts -> Symbols \cup {NoSymbol}]
      /\ rowSymbol'[a] = T.symbol
      /\ \A b \in Accounts \ {a} : rowSymbol'[b] = rowSymbol[b]
  BY <1>1, <1>3, AddBalanceEffect
<1>6. TypeOK'
  BY <1>1, <1>3, <1>4, <1>5 DEF TypeOK
<1>7. RowsConsistent'
  BY <1>1, <1>5, SymbolFacts DEF RowsConsistent
<1>8. ExactCustody'
  <2> SUFFICES ASSUME ~ retokened', NEW U \in FeeTokens
               PROVE  coins'[U][Registry] =
                        unowned'[U] + (IF U = config'.token THEN Total(ledger') ELSE 0)
    BY DEF ExactCustody
  <2>1. coins[U][Registry] = unowned[U] + (IF U = config.token THEN Total(ledger) ELSE 0)
    BY <1>3 DEF ExactCustody
  <2>2. unowned[U] \in Nat /\ q \in Nat /\ Total(ledger) \in Nat
    BY RegistryAssumption, MaxAmountAssumption, TotalType DEF TypeOK, Amounts
  <2>3. CASE U = T
    BY <1>2, <1>3, <1>4, <1>5, <2>1, <2>2, <2>3
  <2>4. CASE U # T
    BY <1>2, <1>3, <1>4, <2>1, <2>4
  <2> QED
    BY <2>3, <2>4
<1>9. BalancesInFeeToken'
  BY <1>1, <1>2, <1>3, <1>5 DEF BalancesInFeeToken
<1> QED
  BY <1>6, <1>7, <1>8, <1>9

\* Coins that arrive uncredited are accounted as such, and no amount overflows
\* because they are part of what the registry holds.
LEMMA UncreditedTransferInv ==
  ASSUME Inv, NEW a \in Accounts, NEW T \in FeeTokens, NEW q \in Amounts,
         UncreditedTransfer(a, T, q)
  PROVE  Inv'
<1>1. /\ MoveCoins(T, a, Registry, q) /\ a # Registry /\ Registry \in Accounts
      /\ unowned' = IF retokened THEN unowned ELSE Credit(unowned, T, q)
      /\ UNCHANGED <<config, opened, ledger, rowSymbol, registered, contracts, retokened>>
  BY RegistryAssumption DEF UncreditedTransfer
<1>2. /\ coins' \in [FeeTokens -> [Accounts -> Amounts]]
      /\ coins'[T][Registry] = coins[T][Registry] + q
      /\ coins[T][Registry] + q <= MaxAmount
      /\ \A U \in FeeTokens \ {T} : coins'[U] = coins[U]
  BY <1>1, MoveCoinsEffect, ZenonT(60)
<1>3. Total(ledger) \in Nat /\ q \in Nat /\ \A U \in FeeTokens : unowned[U] \in Nat
  BY RegistryAssumption, MaxAmountAssumption, TotalType DEF TypeOK, Amounts
<1>4. CASE retokened
  BY <1>1, <1>2, <1>4 DEF TypeOK, RowsConsistent, ExactCustody, BalancesInFeeToken
<1>5. CASE ~ retokened
  <2>1. unowned[T] + q <= MaxAmount
    <3>1. coins[T][Registry] = unowned[T] + (IF T = config.token THEN Total(ledger) ELSE 0)
      BY <1>5 DEF ExactCustody
    <3>2. coins[T][Registry] \in Nat
      BY <1>1, MaxAmountAssumption DEF TypeOK, Amounts
    <3>3. unowned[T] <= coins[T][Registry]
      BY <1>3, <3>1
    <3> QED
      BY <1>2, <1>3, <3>2, <3>3, MaxAmountAssumption
  <2>2. unowned' \in [FeeTokens -> Amounts] /\ unowned'[T] = unowned[T] + q
        /\ \A U \in FeeTokens \ {T} : unowned'[U] = unowned[U]
    BY <1>1, <1>3, <1>5, <2>1, MaxAmountAssumption DEF Credit, TypeOK, Amounts
  <2>3. TypeOK'
    BY <1>1, <1>2, <2>2 DEF TypeOK
  <2>4. ExactCustody'
    <3> SUFFICES ASSUME NEW U \in FeeTokens
                 PROVE  coins'[U][Registry] =
                          unowned'[U] + (IF U = config'.token THEN Total(ledger') ELSE 0)
      BY DEF ExactCustody
    <3>1. coins[U][Registry] = unowned[U] + (IF U = config.token THEN Total(ledger) ELSE 0)
      BY <1>5 DEF ExactCustody
    <3>2. Total(ledger') = Total(ledger)
      BY <1>1
    <3>3. CASE U = T
      <4>1. coins'[T][Registry] = coins[T][Registry] + q /\ unowned'[T] = unowned[T] + q
        BY <1>2, <2>2
      <4>2. coins[T][Registry] = unowned[T] + (IF T = config.token THEN Total(ledger) ELSE 0)
        BY <3>1, <3>3
      <4>3. unowned[T] \in Nat /\ config' = config
        BY <1>1, <1>3
      <4> QED
        BY <1>3, <3>2, <3>3, <4>1, <4>2, <4>3
    <3>4. CASE U # T
      BY <1>1, <1>2, <2>2, <3>1, <3>2, <3>4
    <3> QED
      BY <3>3, <3>4
  <2>5. RowsConsistent' /\ BalancesInFeeToken'
    BY <1>1 DEF RowsConsistent, BalancesInFeeToken
  <2> QED
    BY <2>3, <2>4, <2>5
<1> QED
  BY <1>4, <1>5

LEMMA HolderTransferInv ==
  ASSUME Inv, NEW from \in Accounts, NEW to \in Accounts, NEW T \in FeeTokens,
         NEW q \in Amounts, HolderTransfer(from, to, T, q)
  PROVE  Inv'
<1>1. /\ MoveCoins(T, from, to, q) /\ from # Registry /\ to # Registry /\ Registry \in Accounts
      /\ UNCHANGED <<config, opened, ledger, rowSymbol, registered, contracts, unowned, retokened>>
  BY RegistryAssumption DEF HolderTransfer
<1>2. /\ coins' \in [FeeTokens -> [Accounts -> Amounts]]
      /\ \A U \in FeeTokens : coins'[U][Registry] = coins[U][Registry]
  <2>1. /\ coins' \in [FeeTokens -> [Accounts -> Amounts]]
        /\ \A U \in FeeTokens \ {T} : coins'[U] = coins[U]
    BY <1>1, MoveCoinsEffect
  <2>2. coins'[T][Registry] = coins[T][Registry]
    BY <1>1, MoveCoinsEffect, ZenonT(60)
  <2> QED
    BY <2>1, <2>2
<1>3. Total(ledger') = Total(ledger)
  BY <1>1
<1> QED
  BY <1>1, <1>2, <1>3 DEF TypeOK, RowsConsistent, ExactCustody, BalancesInFeeToken

\* A payment charged to one balance: withdraw and regtoken.
LEMMA ChargedPaymentInv ==
  ASSUME Inv, NEW a \in Accounts, NEW sym, NEW to \in Accounts, NEW q \in Amounts,
         RemoveBalance(a, sym, q), MoveCoins(config.token, Registry, to, q),
         registered' \in [Tickers -> TokenRows \cup {Unregistered}],
         UNCHANGED <<config, contracts, unowned, retokened>>
  PROVE  Inv'
<1> DEFINE T == config.token
<1>1. Registry \in Accounts
  BY RegistryAssumption
<1>2. /\ T \in FeeTokens
      /\ coins' \in [FeeTokens -> [Accounts -> Amounts]]
      /\ coins'[T][Registry] = coins[T][Registry] - q
      /\ coins[T][Registry] >= q
      /\ \A U \in FeeTokens \ {T} : coins'[U] = coins[U]
  BY <1>1, MoveCoinsEffect, ZenonT(60)
<1>3. /\ opened' = (IF ledger[a] = q THEN opened \ {a} ELSE opened)
      /\ rowSymbol' = (IF ledger[a] = q THEN [rowSymbol EXCEPT ![a] = NoSymbol] ELSE rowSymbol)
      /\ ledger' \in [Accounts -> Amounts]
      /\ Total(ledger') = Total(ledger) - q
      /\ ledger'[a] = ledger[a] - q
      /\ \A b \in Accounts \ {a} : ledger'[b] = ledger[b]
      /\ rowSymbol' \in [Accounts -> Symbols \cup {NoSymbol}]
  BY RemoveBalanceEffect
<1>4. ledger[a] \in Nat /\ q \in Nat
  BY MaxAmountAssumption DEF TypeOK, Amounts
<1>5. TypeOK'
  BY <1>2, <1>3 DEF TypeOK
<1>6. RowsConsistent'
  BY <1>3, <1>4 DEF RowsConsistent, TypeOK, RemoveBalance
<1>7. ExactCustody'
  <2> SUFFICES ASSUME ~ retokened', NEW U \in FeeTokens
               PROVE  coins'[U][Registry] =
                        unowned'[U] + (IF U = config'.token THEN Total(ledger') ELSE 0)
    BY DEF ExactCustody
  <2>1. coins[U][Registry] = unowned[U] + (IF U = T THEN Total(ledger) ELSE 0)
    BY DEF ExactCustody
  <2>2. unowned[U] \in Nat /\ Total(ledger) \in Nat
    BY RegistryAssumption, MaxAmountAssumption, TotalType DEF TypeOK, Amounts
  <2>3. CASE U = T
    BY <1>2, <1>3, <1>4, <2>1, <2>2, <2>3
  <2>4. CASE U # T
    BY <1>2, <1>3, <2>1, <2>4
  <2> QED
    BY <2>3, <2>4
<1>8. BalancesInFeeToken'
  BY <1>2, <1>3, <1>4 DEF BalancesInFeeToken, TypeOK
<1> QED
  BY <1>5, <1>6, <1>7, <1>8

LEMMA WithdrawInv ==
  ASSUME Inv, NEW a \in Customers, NEW sym \in Symbols, NEW q \in Amounts, Withdraw(a, sym, q)
  PROVE  Inv'
<1>1. a \in Accounts /\ registered' \in [Tickers -> TokenRows \cup {Unregistered}]
  BY RegistryAssumption DEF Withdraw, TypeOK
<1> QED
  BY <1>1, ChargedPaymentInv DEF Withdraw

\* A new row is well typed: its precision is within the limit.
LEMMA AddRowType ==
  ASSUME TypeOK, NEW t \in Tickers, NEW p \in Precisions, NEW creator \in Accounts,
         NEW payer \in Accounts, AddRow(t, p, creator, payer)
  PROVE  registered' \in [Tickers -> TokenRows \cup {Unregistered}]
<1>1. p \in 0 .. 18
  <2>1. p \in Nat /\ p <= 18
    BY RegistryAssumption DEF AddRow
  <2> QED
    BY <2>1
<1>2. NewRow(creator, p, payer) \in TokenRows
  BY <1>1 DEF NewRow, TokenRows
<1> QED
  BY <1>2 DEF AddRow, TypeOK

LEMMA RegTokenInv ==
  ASSUME Inv, NEW creator \in Customers, NEW t \in Tickers, NEW p \in Precisions,
         NEW sym \in Symbols, NEW q \in Amounts, RegToken(creator, t, p, sym, q)
  PROVE  Inv'
<1>1. creator \in Accounts /\ config.receiver \in Accounts
  BY RegistryAssumption DEF RegToken, MoveCoins
<1>2. registered' \in [Tickers -> TokenRows \cup {Unregistered}]
  BY <1>1, AddRowType DEF RegToken
<1> QED
  BY <1>1, <1>2, ChargedPaymentInv DEF RegToken

\* The administration of tokens and contracts touches no balance.
LEMMA TableActionInv ==
  ASSUME Inv,
         registered' \in [Tickers -> TokenRows \cup {Unregistered}],
         contracts' \subseteq Contracts,
         UNCHANGED <<config, opened, ledger, rowSymbol, coins, unowned, retokened>>
  PROVE  Inv'
<1>1. TypeOK' /\ RowsConsistent' /\ BalancesInFeeToken'
  BY DEF TypeOK, RowsConsistent, BalancesInFeeToken
<1>2. ExactCustody'
  BY DEF ExactCustody
<1> QED
  BY <1>1, <1>2

\* Replacing the configuration: with balances outstanding and another token it
\* raises retokened; with none, the total owed is zero in either token.
LEMMA SetConfigInv ==
  ASSUME Inv, NEW new \in Configs, SetConfig(new)
  PROVE  Inv'
<1>1. TypeOK'
  BY RegistryAssumption DEF SetConfig, TypeOK
<1>2. RowsConsistent'
  BY DEF SetConfig, RowsConsistent
<1>3. CASE retokened'
  BY <1>1, <1>2, <1>3 DEF ExactCustody, BalancesInFeeToken
<1>4. CASE new.token = config.token
  BY <1>1, <1>2, <1>4 DEF SetConfig, ExactCustody, BalancesInFeeToken
<1>5. CASE ~ retokened' /\ new.token # config.token
  <2>1. ~ retokened /\ \A a \in Accounts : ~ (ledger[a] > 0)
    BY <1>5 DEF SetConfig
  <2>2. Total(ledger) = 0
    BY <2>1, NobodyOwed
  <2>3. ExactCustody'
    BY <2>1, <2>2 DEF SetConfig, ExactCustody
  <2>4. BalancesInFeeToken'
    BY <2>1 DEF SetConfig, BalancesInFeeToken
  <2> QED
    BY <1>1, <1>2, <2>3, <2>4
<1> QED
  BY <1>3, <1>4, <1>5

\* enable and disable keep the token.
LEMMA SwitchInv ==
  ASSUME Inv, Enable \/ Disable
  PROVE  Inv'
<1>1. PICK on \in BOOLEAN :
        /\ config' = [config EXCEPT !.enabled = on]
        /\ UNCHANGED <<opened, ledger, rowSymbol, registered, contracts, coins, unowned, retokened>>
  BY DEF Enable, Disable
<1>2. TypeOK' /\ config'.token = config.token
  BY <1>1 DEF TypeOK
<1>3. ExactCustody' /\ RowsConsistent' /\ BalancesInFeeToken'
  BY <1>1, <1>2 DEF ExactCustody, RowsConsistent, BalancesInFeeToken
<1> QED
  BY <1>2, <1>3

\* Every step preserves the invariant.
LEMMA NextInv == Inv /\ [Next]_vars => Inv'
<1> SUFFICES ASSUME Inv, [Next]_vars PROVE Inv'
  OBVIOUS
<1>1. CASE LedgerNext
  <2>1. ASSUME NEW a \in Customers, OpenBalance(a) PROVE Inv'
    BY <2>1, OpenBalanceInv
  <2>2. ASSUME NEW a \in Customers, CloseBalance(a) PROVE Inv'
    BY <2>2, CloseBalanceInv
  <2>3. ASSUME NEW a \in Customers, NEW q \in Amounts, NEW T \in FeeTokens, Deposit(a, T, q)
        PROVE  Inv'
    BY <2>3, DepositInv
  <2>4. ASSUME NEW a \in Customers, NEW q \in Amounts, NEW sym \in Symbols, Withdraw(a, sym, q)
        PROVE  Inv'
    BY <2>4, WithdrawInv
  <2>5. ASSUME NEW a \in Accounts, NEW q \in Amounts, NEW T \in FeeTokens,
               UncreditedTransfer(a, T, q)
        PROVE  Inv'
    BY <2>5, UncreditedTransferInv
  <2>6. ASSUME NEW a \in Accounts, NEW q \in Amounts, NEW T \in FeeTokens,
               NEW to \in Accounts, HolderTransfer(a, to, T, q)
        PROVE  Inv'
    BY <2>6, HolderTransferInv
  <2> QED
    BY <1>1, <2>1, <2>2, <2>3, <2>4, <2>5, <2>6 DEF LedgerNext
<1>2. CASE TokenNext
  <2>1. ASSUME NEW creator \in Customers, NEW t \in Tickers, NEW p \in Precisions,
               AddToken(creator, t, p)
        PROVE  Inv'
    <3>1. creator \in Accounts /\ Registry \in Accounts
      BY RegistryAssumption
    <3>2. registered' \in [Tickers -> TokenRows \cup {Unregistered}]
      BY <2>1, <3>1, AddRowType DEF AddToken
    <3> QED
      BY <2>1, <3>2, TableActionInv DEF AddToken, TypeOK
  <2>2. ASSUME NEW creator \in Customers, NEW t \in Tickers, NEW p \in Precisions,
               NEW sym \in Symbols, NEW q \in Amounts, RegToken(creator, t, p, sym, q)
        PROVE  Inv'
    BY <2>2, RegTokenInv
  <2>3. ASSUME NEW t \in Tickers, RmToken(t) PROVE Inv'
    <3>1. registered' \in [Tickers -> TokenRows \cup {Unregistered}]
      BY <2>3 DEF RmToken, TypeOK
    <3> QED
      BY <2>3, <3>1, TableActionInv DEF RmToken, TypeOK
  <2>4. ASSUME NEW t \in Tickers, NEW c \in Contracts, SetContract(t, c) PROVE Inv'
    <3>1. registered[t] \in TokenRows
      BY <2>4 DEF SetContract, IsRegistered, TypeOK
    <3>2. [registered[t] EXCEPT !.contract = c] \in TokenRows
      BY <3>1 DEF TokenRows
    <3>3. registered' = [registered EXCEPT ![t] = [registered[t] EXCEPT !.contract = c]]
      BY <2>4 DEF SetContract
    <3>4. registered' \in [Tickers -> TokenRows \cup {Unregistered}]
      BY <3>2, <3>3 DEF TypeOK
    <3> QED
      BY <2>4, <3>4, TableActionInv DEF SetContract, TypeOK
  <2>5. ASSUME NEW c \in Contracts, AddContract(c) \/ RmContract(c) PROVE Inv'
    <3>1. registered' \in [Tickers -> TokenRows \cup {Unregistered}] /\ contracts' \subseteq Contracts
      BY <2>5 DEF AddContract, RmContract, TypeOK
    <3> QED
      BY <2>5, <3>1, TableActionInv DEF AddContract, RmContract
  <2> QED
    BY <1>2, <2>1, <2>2, <2>3, <2>4, <2>5 DEF TokenNext
<1>3. CASE ConfigNext
  BY <1>3, SetConfigInv, SwitchInv DEF ConfigNext
<1>4. CASE UNCHANGED vars
  BY <1>4 DEF vars, TypeOK, RowsConsistent, ExactCustody, BalancesInFeeToken
<1> QED
  BY <1>1, <1>2, <1>3, <1>4 DEF Next
----
(* Theorems. *)

\* Inv holds throughout.
THEOREM InvAlways == Spec => []Inv
<1>1. Init => Inv
  BY InitInv
<1>2. Inv /\ [Next]_vars => Inv'
  BY NextInv
<1> QED
  BY <1>1, <1>2, PTL DEF Spec

\* Every variable keeps its type: in particular no balance goes below zero or
\* beyond asset::max_amount, whatever the customers and the administrator do.
THEOREM TypeCorrect == Spec => []TypeOK
<1>1. Inv => TypeOK
  OBVIOUS
<1> QED
  BY <1>1, InvAlways, PTL

\* The registry's coins are exactly its customers' balances and what nobody was
\* credited for, until the fee token is replaced under outstanding balances.
THEOREM CustodyCorrect == Spec => []ExactCustody
<1>1. Inv => ExactCustody
  OBVIOUS
<1> QED
  BY <1>1, InvAlways, PTL

\* Until then, every balance can be withdrawn.
THEOREM RedeemableCorrect == Spec => []Redeemable
<1>1. Inv => Redeemable
  <2> SUFFICES ASSUME Inv, ~ retokened, NEW a \in Accounts, ledger[a] > 0
               PROVE  /\ config.token \in FeeTokens
                      /\ rowSymbol[a] = config.token.symbol
                      /\ ledger[a] <= coins[config.token][Registry]
    BY DEF Redeemable
  <2>1. config.token \in FeeTokens /\ rowSymbol[a] = config.token.symbol
    BY DEF BalancesInFeeToken
  <2>2. coins[config.token][Registry] = unowned[config.token] + Total(ledger)
    BY <2>1 DEF ExactCustody
  <2>3. ledger[a] <= Total(ledger) /\ Total(ledger) \in Nat /\ ledger[a] \in Nat
        /\ unowned[config.token] \in Nat
    BY <2>1, RegistryAssumption, MaxAmountAssumption, TotalBoundsEntry, TotalType
       DEF TypeOK, Amounts
  <2> QED
    BY <2>1, <2>2, <2>3
<1> QED
  BY <1>1, InvAlways, PTL

\* A step of a disabled registry leaves every balance as it is.
THEOREM DisabledIsFrozen == Spec => FrozenWhileDisabled
<1>1. Inv /\ [Next]_vars => [~ config.enabled => ledger' = ledger]_vars
  BY DEF vars, Next, LedgerNext, TokenNext, ConfigNext, OpenBalance, CloseBalance, Deposit,
         UncreditedTransfer, HolderTransfer, Withdraw, AddToken, RegToken, RmToken,
         SetContract, AddContract, RmContract, SetConfig, Enable, Disable
<1> QED
  BY <1>1, InvAlways, PTL DEF Spec, FrozenWhileDisabled

\* Who registers a ticker pays the fee, and the receiver gets it.
THEOREM RegistrationsArePaid == Spec => RegistrationPaid
<1> DEFINE Paid == \A t \in Tickers :
             (~ IsRegistered(t) /\ IsRegistered(t)' /\ registered'[t].payer # Registry) =>
               LET payer == registered'[t].payer IN
                 /\ config.fee > 0
                 /\ ledger'[payer] = ledger[payer] - config.fee
                 /\ coins'[config.token][config.receiver] =
                      coins[config.token][config.receiver] + config.fee
<1>1. ASSUME Inv, Next PROVE Paid
  <2> SUFFICES ASSUME NEW t \in Tickers, ~ IsRegistered(t), IsRegistered(t)',
                      registered'[t].payer # Registry
               PROVE  LET payer == registered'[t].payer IN
                        /\ config.fee > 0
                        /\ ledger'[payer] = ledger[payer] - config.fee
                        /\ coins'[config.token][config.receiver] =
                             coins[config.token][config.receiver] + config.fee
    OBVIOUS
  <2>1. registered'[t] # registered[t]
    BY DEF IsRegistered
  <2>2. PICK creator \in Customers, u \in Tickers, p \in Precisions :
           \/ AddToken(creator, u, p)
           \/ \E sym \in Symbols, q \in Amounts : RegToken(creator, u, p, sym, q)
    <3>1. ASSUME LedgerNext \/ ConfigNext PROVE FALSE
      BY <2>1, <3>1 DEF LedgerNext, ConfigNext, OpenBalance, CloseBalance, Deposit, Withdraw,
                        UncreditedTransfer, HolderTransfer, SetConfig, Enable, Disable
    <3>2. ASSUME NEW u \in Tickers, RmToken(u) PROVE FALSE
      BY <2>1, <3>2 DEF RmToken, IsRegistered, TypeOK
    <3>3. ASSUME NEW u \in Tickers, NEW c \in Contracts, SetContract(u, c) PROVE FALSE
      BY <2>1, <3>3 DEF SetContract, IsRegistered, TypeOK
    <3>4. ASSUME NEW c \in Contracts, AddContract(c) \/ RmContract(c) PROVE FALSE
      BY <2>1, <3>4 DEF AddContract, RmContract
    <3> QED
      BY <1>1, <3>1, <3>2, <3>3, <3>4 DEF Next, TokenNext
  <2>3. u = t
    BY <1>1, <2>1, <2>2 DEF AddToken, RegToken, AddRow, TypeOK
  <2>4. PICK sym \in Symbols, q \in Amounts : RegToken(creator, t, p, sym, q)
    <3>1. ASSUME AddToken(creator, t, p) PROVE registered'[t].payer = Registry
      BY <1>1, <3>1 DEF AddToken, AddRow, NewRow, TypeOK
    <3> QED
      BY <2>2, <2>3, <3>1
  <2>5. registered'[t].payer = creator
    BY <1>1, <2>4 DEF RegToken, AddRow, NewRow, TypeOK
  <2>6. creator \in Accounts /\ config.receiver \in Accounts /\ Registry \in Accounts
    BY <2>4, RegistryAssumption DEF RegToken, MoveCoins
  <2>7. q = config.fee /\ RemoveBalance(creator, sym, q)
        /\ MoveCoins(config.token, Registry, config.receiver, q)
    BY <2>4 DEF RegToken
  <2>8. ledger'[creator] = ledger[creator] - q
    BY <1>1, <2>6, <2>7, RemoveBalanceEffect
  <2>9. /\ q > 0
         /\ coins'[config.token][config.receiver] = coins[config.token][config.receiver] + q
    BY <1>1, <2>6, <2>7, MoveCoinsEffect
  <2> QED
    BY <2>5, <2>7, <2>8, <2>9
<1>2. Inv /\ [Next]_vars => [Paid]_vars
  BY <1>1
<1> QED
  BY <1>2, InvAlways, PTL DEF Spec, RegistrationPaid

\* Whatever else is registered, removed, whitelisted or configured, a registration
\* that stays is the one that was made, and its contract is set once.
THEOREM RegistrationsAreStable == Spec => RegistrationStable
<1> DEFINE Stable(t) ==
             /\ registered'[t].precision = registered[t].precision
             /\ registered'[t].creator = registered[t].creator
             /\ registered[t].contract \notin {Unset, NoAccount} =>
                  registered'[t].contract = registered[t].contract
           AllStable == \A t \in Tickers : (IsRegistered(t) /\ IsRegistered(t)') => Stable(t)
<1>1. ASSUME Inv, Next PROVE AllStable
  <2> SUFFICES ASSUME NEW t \in Tickers, IsRegistered(t), IsRegistered(t)' PROVE Stable(t)
    OBVIOUS
  <2>1. registered[t] \in TokenRows
    BY <1>1 DEF TypeOK, IsRegistered
  <2>2. ASSUME registered'[t] = registered[t] PROVE Stable(t)
    BY <2>2
  <2>3. ASSUME LedgerNext \/ ConfigNext PROVE registered' = registered
    BY <2>3 DEF LedgerNext, ConfigNext, OpenBalance, CloseBalance, Deposit, Withdraw,
                UncreditedTransfer, HolderTransfer, SetConfig, Enable, Disable
  <2>4. ASSUME NEW creator \in Customers, NEW u \in Tickers, NEW p \in Precisions,
               \/ AddToken(creator, u, p)
               \/ \E sym \in Symbols, q \in Amounts : RegToken(creator, u, p, sym, q)
        PROVE  registered'[t] = registered[t]
    <3>1. ~ IsRegistered(u)
      BY <2>4 DEF AddToken, RegToken
    <3>2. PICK row : registered' = [registered EXCEPT ![u] = row]
      BY <2>4 DEF AddToken, RegToken, AddRow
    <3> QED
      BY <1>1, <3>1, <3>2 DEF TypeOK
  <2>5. ASSUME NEW u \in Tickers, RmToken(u) PROVE registered'[t] = registered[t]
    <3>1. u # t
      BY <1>1, <2>5 DEF RmToken, IsRegistered, TypeOK
    <3> QED
      BY <1>1, <2>5, <3>1 DEF RmToken, TypeOK
  <2>6. ASSUME NEW u \in Tickers, NEW c \in Contracts, SetContract(u, c) PROVE Stable(t)
    <3>1. /\ registered[u].contract \in {Unset, NoAccount}
          /\ registered' = [registered EXCEPT ![u].contract = c]
      BY <2>6 DEF SetContract
    <3>2. CASE u # t
      BY <1>1, <3>1, <3>2 DEF TypeOK
    <3>3. CASE u = t
      <4>1. registered'[t] = [registered[t] EXCEPT !.contract = c]
        BY <1>1, <3>1, <3>3 DEF TypeOK
      <4>2. /\ registered'[t].precision = registered[t].precision
            /\ registered'[t].creator = registered[t].creator
        BY <2>1, <4>1 DEF TokenRows
      <4> QED
        BY <3>1, <3>3, <4>2
    <3> QED
      BY <3>2, <3>3
  <2>7. ASSUME NEW c \in Contracts, AddContract(c) \/ RmContract(c) PROVE registered' = registered
    BY <2>7 DEF AddContract, RmContract
  <2> QED
    BY <1>1, <2>2, <2>3, <2>4, <2>5, <2>6, <2>7 DEF Next, TokenNext
<1>2. Inv /\ [Next]_vars => [AllStable]_vars
  BY <1>1
<1> QED
  BY <1>2, InvAlways, PTL DEF Spec, RegistrationStable
----
(* The registry implements the escrow. *)

\* A payment to or from the registry raises or lowers the total it holds.
LEMMA HoldingsEffect ==
  ASSUME TypeOK, NEW T \in FeeTokens, NEW q \in Amounts,
         coins' \in [FeeTokens -> [Accounts -> Amounts]],
         \A U \in FeeTokens \ {T} : coins'[U] = coins[U]
  PROVE  /\ (coins[T][Registry] + q <= MaxAmount /\ coins'[T][Registry] = coins[T][Registry] + q)
              => Total(Holdings') = Total(Holdings) + q
         /\ (coins[T][Registry] >= q /\ coins'[T][Registry] = coins[T][Registry] - q)
              => Total(Holdings') = Total(Holdings) - q
         /\ Total(Holdings) \in Nat /\ Total(Holdings') \in Nat
<1> DEFINE h  == Holdings
           hn == Holdings'
<1>1. Registry \in Accounts /\ IsFiniteSet(FeeTokens) /\ q \in Nat
  BY RegistryAssumption, MaxAmountAssumption DEF Amounts
<1>2. /\ h \in [FeeTokens -> Amounts] /\ hn \in [FeeTokens -> Amounts]
      /\ h[T] = coins[T][Registry] /\ hn[T] = coins'[T][Registry]
      /\ \A U \in FeeTokens : U # T => hn[U] = h[U]
  BY <1>1 DEF Holdings, TypeOK
<1> HIDE DEF h, hn
<1>3. ASSUME h[T] + q <= MaxAmount, hn[T] = h[T] + q PROVE Total(hn) = Total(h) + q
  <2>1. hn = [U \in FeeTokens |-> IF U = T THEN h[T] + q ELSE h[U]]
    <3>1. \A U \in FeeTokens : hn[U] = (IF U = T THEN h[T] + q ELSE h[U])
      BY <1>2, <1>3
    <3> QED
      BY <1>2, <3>1
  <2>2. Credit(h, T, q) = [U \in FeeTokens |-> IF U = T THEN h[T] + q ELSE h[U]]
    BY <1>2 DEF Credit
  <2> QED
    BY <1>1, <1>2, <1>3, <2>1, <2>2, TotalCredit
<1>4. ASSUME h[T] >= q, hn[T] = h[T] - q PROVE Total(hn) = Total(h) - q
  <2>1. hn = [U \in FeeTokens |-> IF U = T THEN h[T] - q ELSE h[U]]
    <3>1. \A U \in FeeTokens : hn[U] = (IF U = T THEN h[T] - q ELSE h[U])
      BY <1>2, <1>4
    <3> QED
      BY <1>2, <3>1
  <2>2. Debit(h, T, q) = [U \in FeeTokens |-> IF U = T THEN h[T] - q ELSE h[U]]
    BY <1>2 DEF Debit
  <2> QED
    BY <1>1, <1>2, <1>4, <2>1, <2>2, TotalDebit
<1>5. Total(h) \in Nat /\ Total(hn) \in Nat
  BY <1>1, <1>2, TotalType
<1> QED
  BY <1>2, <1>3, <1>4, <1>5 DEF h, hn

LEMMA EscrowInitRefined == Init => E!EscrowInit
<1> SUFFICES ASSUME Init PROVE E!EscrowInit
  OBVIOUS
<1>1. Total(ledger) = 0
  BY TotalZero DEF Init
<1>2. Holdings = [T \in FeeTokens |-> 0]
  BY RegistryAssumption DEF Init, Holdings
<1>3. Total(Holdings) = 0
  BY <1>2, TotalZero
<1> QED
  BY <1>1, <1>3 DEF Init, E!EscrowInit

\* Steps that leave the balances and the registry's coins alone stutter.
LEMMA EscrowStutter ==
  ASSUME ledger' = ledger, Holdings' = Holdings
  PROVE  UNCHANGED E!escrowVars
BY DEF E!escrowVars

\* A payment charged to a balance releases what was owed.
LEMMA ChargedPaymentReleases ==
  ASSUME Inv, NEW a \in Accounts, NEW sym, NEW to \in Accounts, NEW q \in Amounts,
         RemoveBalance(a, sym, q), MoveCoins(config.token, Registry, to, q)
  PROVE  E!EscrowNext
<1>1. Registry \in Accounts
  BY RegistryAssumption
<1>2. /\ config.token \in FeeTokens /\ q > 0
      /\ coins' \in [FeeTokens -> [Accounts -> Amounts]]
      /\ coins[config.token][Registry] >= q
      /\ coins'[config.token][Registry] = coins[config.token][Registry] - q
      /\ \A U \in FeeTokens \ {config.token} : coins'[U] = coins[U]
  BY <1>1, MoveCoinsEffect
<1>3. /\ ledger[a] >= q
      /\ ledger' = Debit(ledger, a, q)
      /\ Total(ledger') = Total(ledger) - q
  BY RemoveBalanceEffect
<1>4. Total(Holdings') = Total(Holdings) - q /\ Total(Holdings) \in Nat
  BY <1>2, HoldingsEffect
<1>5. Total(ledger) \in Nat /\ ledger[a] \in Nat /\ q \in Nat
  BY RegistryAssumption, MaxAmountAssumption, TotalType DEF TypeOK, Amounts
<1>6. (Total(Holdings) - Total(ledger))' = Total(Holdings) - Total(ledger)
  BY <1>3, <1>4, <1>5
<1>7. E!Release(a, q)
  BY <1>3, <1>4, <1>5, <1>6 DEF E!Release, E!Debit, Debit
<1>8. q \in E!Amounts \ {0}
  BY <1>2 DEF E!Amounts, Amounts
<1> QED
  BY <1>7, <1>8 DEF E!EscrowNext

LEMMA DepositReceives ==
  ASSUME Inv, NEW a \in Customers, NEW T \in FeeTokens, NEW q \in Amounts, Deposit(a, T, q)
  PROVE  E!EscrowNext
<1>1. Registry \in Accounts /\ a \in Accounts /\ T.symbol \in Symbols
  BY RegistryAssumption, SymbolFacts
<1>2. MoveCoins(T, a, Registry, q) /\ AddBalance(a, T.symbol, q)
  BY DEF Deposit
<1>3. /\ q > 0
      /\ coins' \in [FeeTokens -> [Accounts -> Amounts]]
      /\ coins[T][Registry] + q <= MaxAmount
      /\ coins'[T][Registry] = coins[T][Registry] + q
      /\ \A U \in FeeTokens \ {T} : coins'[U] = coins[U]
  BY <1>1, <1>2, MoveCoinsEffect, ZenonT(60)
<1>4. /\ ledger[a] + q <= MaxAmount
      /\ ledger' = Credit(ledger, a, q)
      /\ Total(ledger') = Total(ledger) + q
  BY <1>1, <1>2, AddBalanceEffect
<1>5. Total(Holdings') = Total(Holdings) + q /\ Total(Holdings) \in Nat
  BY <1>3, HoldingsEffect
<1>6. Total(ledger) \in Nat /\ q \in Nat
  BY RegistryAssumption, MaxAmountAssumption, TotalType DEF TypeOK, Amounts
<1>7. (Total(Holdings) - Total(ledger))' = Total(Holdings) - Total(ledger)
  BY <1>4, <1>5, <1>6
<1>8. E!Receive(a, q)
  BY <1>4, <1>5, <1>7 DEF E!Receive, E!Credit, Credit
<1>9. q \in E!Amounts \ {0}
  BY <1>3 DEF E!Amounts, Amounts
<1> QED
  BY <1>1, <1>8, <1>9 DEF E!EscrowNext

LEMMA UncreditedTransferAbsorbs ==
  ASSUME Inv, NEW a \in Accounts, NEW T \in FeeTokens, NEW q \in Amounts,
         UncreditedTransfer(a, T, q)
  PROVE  E!EscrowNext
<1>1. Registry \in Accounts /\ MoveCoins(T, a, Registry, q) /\ ledger' = ledger
  BY RegistryAssumption DEF UncreditedTransfer
<1>2. /\ q > 0
      /\ coins' \in [FeeTokens -> [Accounts -> Amounts]]
      /\ coins[T][Registry] + q <= MaxAmount
      /\ coins'[T][Registry] = coins[T][Registry] + q
      /\ \A U \in FeeTokens \ {T} : coins'[U] = coins[U]
  BY <1>1, MoveCoinsEffect, ZenonT(60)
<1>3. Total(Holdings') = Total(Holdings) + q /\ Total(Holdings) \in Nat
  BY <1>2, HoldingsEffect
<1>4. Total(ledger) \in Nat /\ q \in Nat
  BY RegistryAssumption, MaxAmountAssumption, TotalType DEF TypeOK, Amounts
<1>5. (Total(Holdings) - Total(ledger))' = (Total(Holdings) - Total(ledger)) + q
  BY <1>1, <1>3, <1>4
<1>6. E!Absorb(q)
  BY <1>1, <1>3, <1>5 DEF E!Absorb
<1>7. q \in E!Amounts \ {0}
  BY <1>2 DEF E!Amounts, Amounts
<1> QED
  BY <1>6, <1>7 DEF E!EscrowNext

LEMMA EscrowNextRefined == Inv /\ [Next]_vars => [E!EscrowNext]_E!escrowVars
<1> SUFFICES ASSUME Inv, [Next]_vars PROVE E!EscrowNext \/ UNCHANGED E!escrowVars
  OBVIOUS
<1>1. ASSUME ledger' = ledger, coins' = coins PROVE UNCHANGED E!escrowVars
  BY <1>1, EscrowStutter DEF Holdings
<1>2. CASE LedgerNext
  <2>1. ASSUME NEW a \in Customers, OpenBalance(a) \/ CloseBalance(a)
        PROVE  UNCHANGED E!escrowVars
    BY <1>1, <2>1 DEF OpenBalance, CloseBalance
  <2>2. ASSUME NEW a \in Customers, NEW q \in Amounts, NEW T \in FeeTokens, Deposit(a, T, q)
        PROVE  E!EscrowNext
    BY <2>2, DepositReceives
  <2>3. ASSUME NEW a \in Customers, NEW q \in Amounts, NEW sym \in Symbols, Withdraw(a, sym, q)
        PROVE  E!EscrowNext
    <3>1. a \in Accounts
      BY RegistryAssumption
    <3> QED
      BY <2>3, <3>1, ChargedPaymentReleases DEF Withdraw
  <2>4. ASSUME NEW a \in Accounts, NEW q \in Amounts, NEW T \in FeeTokens,
               UncreditedTransfer(a, T, q)
        PROVE  E!EscrowNext
    BY <2>4, UncreditedTransferAbsorbs
  <2>5. ASSUME NEW a \in Accounts, NEW q \in Amounts, NEW T \in FeeTokens,
               NEW to \in Accounts, HolderTransfer(a, to, T, q)
        PROVE  UNCHANGED E!escrowVars
    <3>1. MoveCoins(T, a, to, q) /\ a # Registry /\ to # Registry /\ Registry \in Accounts
          /\ ledger' = ledger
      BY <2>5, RegistryAssumption DEF HolderTransfer
    <3>2. /\ \A U \in FeeTokens \ {T} : coins'[U] = coins[U]
          /\ \A b \in Accounts : (b # a /\ b # to) => coins'[T][b] = coins[T][b]
      <4>1. TypeOK
        OBVIOUS
      <4>2. MoveCoins(T, a, to, q)
        BY <3>1
      <4> QED
        BY <4>1, <4>2, MoveCoinsEffect, ZenonT(60)
    <3>3. coins'[T][Registry] = coins[T][Registry]
      BY <3>1, <3>2
    <3>4. Holdings' = Holdings
      BY <3>2, <3>3 DEF Holdings
    <3> QED
      BY <3>1, <3>4, EscrowStutter
  <2> QED
    BY <1>2, <2>1, <2>2, <2>3, <2>4, <2>5 DEF LedgerNext
<1>3. CASE TokenNext
  <2>1. ASSUME NEW creator \in Customers, NEW t \in Tickers, NEW p \in Precisions,
               NEW sym \in Symbols, NEW q \in Amounts, RegToken(creator, t, p, sym, q)
        PROVE  E!EscrowNext
    <3>1. creator \in Accounts /\ config.receiver \in Accounts
      BY <2>1, RegistryAssumption DEF RegToken, MoveCoins
    <3> QED
      BY <2>1, <3>1, ChargedPaymentReleases DEF RegToken
  <2>2. ASSUME NEW creator \in Customers, NEW t \in Tickers, NEW p \in Precisions,
               AddToken(creator, t, p)
        PROVE  UNCHANGED E!escrowVars
    BY <1>1, <2>2 DEF AddToken
  <2>3. ASSUME NEW t \in Tickers, RmToken(t) \/ \E c \in Contracts : SetContract(t, c)
        PROVE  UNCHANGED E!escrowVars
    BY <1>1, <2>3 DEF RmToken, SetContract
  <2>4. ASSUME NEW c \in Contracts, AddContract(c) \/ RmContract(c)
        PROVE  UNCHANGED E!escrowVars
    BY <1>1, <2>4 DEF AddContract, RmContract
  <2> QED
    BY <1>3, <2>1, <2>2, <2>3, <2>4 DEF TokenNext
<1>4. CASE ConfigNext
  BY <1>1, <1>4 DEF ConfigNext, SetConfig, Enable, Disable
<1>5. CASE UNCHANGED vars
  BY <1>1, <1>5 DEF vars
<1> QED
  BY <1>2, <1>3, <1>4, <1>5 DEF Next

\* Whatever happens to the configuration, over all fee tokens the registry is an
\* escrow, hence (EscrowSolvent) never owes more than it holds.
THEOREM RegistryIsAnEscrow == Spec => EscrowRefined
<1>1. Init => E!EscrowInit
  BY EscrowInitRefined
<1>2. Inv /\ [Next]_vars => [E!EscrowNext]_E!escrowVars
  BY EscrowNextRefined
<1> QED
  BY <1>1, <1>2, InvAlways, PTL DEF Spec, E!EscrowSpec, EscrowRefined

----
(* An escrow is always solvent, for any holders and any amounts. *)

EscrowInv == EscrowTypeOK /\ Solvent

LEMMA EscrowInitInv == EscrowInit => EscrowInv
<1> SUFFICES ASSUME EscrowInit PROVE EscrowInv
  OBVIOUS
<1>1. EscrowTypeOK
  BY MaxAmountAssumption DEF EscrowInit, EscrowTypeOK, Amounts
<1>2. Total(owed) = 0
  BY TotalZero DEF EscrowInit
<1> QED
  BY <1>1, <1>2 DEF EscrowInit, EscrowInv, Solvent

LEMMA EscrowNextInv ==
  ASSUME IsFiniteSet(Holders), EscrowInv, [EscrowNext]_escrowVars
  PROVE  EscrowInv'
<1> USE DEF EscrowInv, EscrowTypeOK, Solvent
<1>1. Total(owed) \in Nat /\ IsFiniteSet(Holders)
  BY TotalType
<1>2. ASSUME NEW q \in Amounts \ {0}, Absorb(q) PROVE EscrowInv'
  BY <1>1, <1>2, MaxAmountAssumption DEF Absorb, Amounts
<1>3. ASSUME NEW q \in Amounts \ {0}, NEW a \in Holders, Receive(a, q) PROVE EscrowInv'
  <2>1. q \in Nat /\ owed[a] + q <= MaxAmount /\ owed' = Credit(owed, a, q)
        /\ held' = held + q /\ surplus' = surplus
    BY <1>3, MaxAmountAssumption DEF Receive, Amounts
  <2>2. owed' \in [Holders -> Amounts] /\ Total(owed') = Total(owed) + q
    BY <1>1, <2>1, TotalCredit
  <2> QED
    BY <1>1, <2>1, <2>2
<1>4. ASSUME NEW q \in Amounts \ {0}, NEW a \in Holders, Release(a, q) PROVE EscrowInv'
  <2>1. q \in Nat /\ q <= owed[a] /\ owed' = Debit(owed, a, q)
        /\ held' = held - q /\ surplus' = surplus
    BY <1>4, MaxAmountAssumption DEF Release, Amounts
  <2>2. owed' \in [Holders -> Amounts] /\ Total(owed') = Total(owed) - q
    BY <1>1, <2>1, TotalDebit
  <2>3. Total(owed') \in Nat
    BY <1>1, <2>2, TotalType
  <2> QED
    BY <1>1, <2>1, <2>2, <2>3
<1>5. ASSUME NEW q \in Amounts \ {0}, NEW a \in Holders, Forfeit(a, q) PROVE EscrowInv'
  <2>1. q \in Nat /\ q <= owed[a] /\ owed' = Debit(owed, a, q)
        /\ held' = held /\ surplus' = surplus + q
    BY <1>5, MaxAmountAssumption DEF Forfeit, Amounts
  <2>2. owed' \in [Holders -> Amounts] /\ Total(owed') = Total(owed) - q
    BY <1>1, <2>1, TotalDebit
  <2>3. Total(owed') \in Nat
    BY <1>1, <2>2, TotalType
  <2> QED
    BY <1>1, <2>1, <2>2, <2>3
<1>6. CASE UNCHANGED escrowVars
  BY <1>6 DEF escrowVars
<1> QED
  BY <1>2, <1>3, <1>4, <1>5, <1>6 DEF EscrowNext

\* Everybody can be paid at once; a contract that implements EscrowSpec inherits it.
THEOREM EscrowSolvent ==
  ASSUME IsFiniteSet(Holders)
  PROVE  EscrowSpec => [](EscrowTypeOK /\ Solvent)
<1>1. EscrowInit => EscrowInv
  BY EscrowInitInv
<1>2. EscrowInv /\ [EscrowNext]_escrowVars => EscrowInv'
  BY EscrowNextInv
<1>3. EscrowInv => EscrowTypeOK /\ Solvent
  BY DEF EscrowInv
<1> QED
  BY <1>1, <1>2, <1>3, PTL DEF EscrowSpec

================================================================================
