-------------------------------- MODULE Registry --------------------------------
(******************************************************************************)
(* The registry contract (contracts/registry): prepaid balances in the fee    *)
(* token, the registered tickers, the whitelisted token contracts and the     *)
(* configuration, together with the accounts' balances in the token contracts *)
(* it takes payment from.                                                     *)
(*                                                                            *)
(* One step is one action of a transaction: the handler, the notifications    *)
(* and the inline actions it causes commit together or not at all, so a       *)
(* failed check is a step that is not taken.                                  *)
(*                                                                            *)
(* The registry's own authority signs its administrative actions and the      *)
(* payments withdraw and regtoken send, never a token transfer of its own.    *)
(******************************************************************************)
EXTENDS AssetTotals

CONSTANTS
  Accounts,         \* every account on the chain
  Customers,        \* those that sign deposits, withdrawals and registrations
  Registry,         \* the account the contract is deployed to
  Ram,              \* eosio.ram
  NoAccount,        \* the empty name
  NoSymbol,         \* the default, invalid symbol
  FeeTokens,        \* [contract, symbol] pairs the fees may be taken in
  Tickers,
  TickerLength,     \* symbol_code::length() of each ticker
  Precisions,       \* the precisions callers may ask for
  Contracts,        \* names the administrator may whitelist
  Unset,            \* the empty optional a row's contract starts as
  InitialCoins,     \* what each account holds of each fee token at first
  Configs           \* the configurations the administrator may store

NoToken == [contract |-> NoAccount, symbol |-> NoSymbol]

ASSUME RegistryAssumption ==
  /\ IsFiniteSet(Accounts) /\ IsFiniteSet(FeeTokens)
  /\ {Registry, Ram} \cup Customers \subseteq Accounts /\ Registry # Ram
  /\ NoAccount \notin Accounts
  /\ NoToken \notin FeeTokens
  /\ \A T \in FeeTokens : T = [contract |-> T.contract, symbol |-> T.symbol]
  /\ \A T \in FeeTokens : T.symbol # NoSymbol
  /\ TickerLength \in [Tickers -> Nat]
  /\ Precisions \subseteq Nat
  /\ Configs \subseteq [enabled : BOOLEAN, token : FeeTokens \cup {NoToken},
                        receiver : Accounts \cup {NoAccount}, fee : Amounts, minlength : Nat]
  /\ InitialCoins \in [FeeTokens -> [Accounts -> Amounts]]
  /\ \A T \in FeeTokens : InitialCoins[T][Registry] = 0

VARIABLES
  config,       \* the config singleton
  opened,       \* accounts with a row in the balance table
  ledger,       \* the amount in that row (0 without a row)
  rowSymbol,    \* the symbol in that row
  registered,   \* the tokens table
  contracts,    \* the whitelist
  coins,        \* external: balances in the fee tokens' contracts
  retokened,    \* history: the fee token was replaced while someone held a balance
  unowned       \* history, until then: coins received without crediting anyone

ledgerVars == <<opened, ledger, rowSymbol>>
vars == <<config, opened, ledger, rowSymbol, registered, contracts,
          coins, unowned, retokened>>

Symbols == {T.symbol : T \in FeeTokens}

DefaultConfig == [enabled |-> FALSE, token |-> NoToken, receiver |-> NoAccount,
                  fee |-> 0, minlength |-> 1]

Unregistered == [creator |-> NoAccount]
TokenRows == [precision : 0 .. 18, creator : Accounts,
              contract : Contracts \cup {Unset}, payer : Accounts]

IsRegistered(t) == registered[t] # Unregistered

Init ==
  /\ config = DefaultConfig
  /\ opened = {}
  /\ ledger = [a \in Accounts |-> 0]
  /\ rowSymbol = [a \in Accounts |-> NoSymbol]
  /\ registered = [t \in Tickers |-> Unregistered]
  /\ contracts = {}
  /\ coins = InitialCoins
  /\ unowned = [T \in FeeTokens |-> 0]
  /\ retokened = FALSE

----
(* The token contract's transfer, as users and the registry's inline actions call it. *)

\* external: the token moves q of T, which both parties' rows must allow.
MoveCoins(T, from, to, q) ==
  /\ from # to /\ q > 0
  /\ T \in FeeTokens /\ to \in Accounts
  /\ coins[T][from] >= q
  /\ coins[T][to] + q <= MaxAmount
  /\ coins' = [coins EXCEPT ![T] = Credit(Debit(@, from, q), to, q)]

(* The balance table. *)

\* Fault: a credit that trusts the symbol of the row it finds.
AddBalanceAnySymbol(a, sym, q) ==
  /\ ledger[a] + q <= MaxAmount
  /\ opened' = opened \cup {a}
  /\ ledger' = Credit(ledger, a, q)
  /\ rowSymbol' = IF a \in opened THEN rowSymbol ELSE [rowSymbol EXCEPT ![a] = sym]

\* add_balance: asset's += wants one symbol and a sum in range.
AddBalance(a, sym, q) ==
  /\ a \in opened => rowSymbol[a] = sym
  /\ ledger[a] + q <= MaxAmount
  /\ opened' = opened \cup {a}
  /\ ledger' = Credit(ledger, a, q)
  /\ rowSymbol' = [rowSymbol EXCEPT ![a] = sym]

\* Fault: a charge that does not look at what the row holds.
RemoveBalanceUnchecked(a, sym, q) ==
  /\ a \in opened
  /\ ledger' = Debit(ledger, a, q)
  /\ UNCHANGED <<opened, rowSymbol>>

\* Fault: a charge that erases a spent row but forgets to lower a larger one.
RemoveBalanceForgetful(a, sym, q) ==
  /\ a \in opened
  /\ ledger[a] >= q
  /\ IF ledger[a] = q
     THEN /\ ledger' = Debit(ledger, a, q)
          /\ opened' = opened \ {a}
          /\ rowSymbol' = [rowSymbol EXCEPT ![a] = NoSymbol]
     ELSE UNCHANGED ledgerVars

\* remove_balance: only the branch that keeps the row reaches -=, which
\* compares symbols; a row spent in full is erased whatever its symbol.
RemoveBalance(a, sym, q) ==
  /\ a \in opened
  /\ ledger[a] >= q
  /\ ledger' = Debit(ledger, a, q)
  /\ \/ /\ ledger[a] = q
        /\ opened' = opened \ {a}
        /\ rowSymbol' = [rowSymbol EXCEPT ![a] = NoSymbol]
     \/ /\ ledger[a] # q
        /\ rowSymbol[a] = sym
        /\ UNCHANGED <<opened, rowSymbol>>

OpenBalance(account) ==
  /\ account \notin opened
  /\ config.token.symbol # NoSymbol      \* asset(0, symbol) checks it
  /\ opened' = opened \cup {account}
  /\ rowSymbol' = [rowSymbol EXCEPT ![account] = config.token.symbol]
  /\ UNCHANGED <<config, ledger, registered, contracts, coins, unowned, retokened>>

\* Fault: a row closed with funds in it.
CloseBalanceAny(account) ==
  /\ account \in opened
  /\ opened' = opened \ {account}
  /\ rowSymbol' = [rowSymbol EXCEPT ![account] = NoSymbol]
  /\ UNCHANGED <<config, ledger, registered, contracts, coins, unowned, retokened>>

CloseBalance(account) ==
  /\ account \in opened
  /\ ledger[account] = 0
  /\ opened' = opened \ {account}
  /\ rowSymbol' = [rowSymbol EXCEPT ![account] = NoSymbol]
  /\ UNCHANGED <<config, ledger, registered, contracts, coins, unowned, retokened>>

(* Payments. *)

\* Fault: a deposit that takes any contract's token of the right symbol.
DepositAnyContract(from, T, q) ==
  /\ from \notin {Ram, Registry}
  /\ config.enabled
  /\ T.symbol = config.token.symbol
  /\ MoveCoins(T, from, Registry, q)
  /\ AddBalance(from, T.symbol, q)
  /\ UNCHANGED <<config, registered, contracts, unowned, retokened>>

\* on_transfer past its early returns: a holder pays the registry.
Deposit(from, T, q) ==
  /\ from \notin {Ram, Registry}
  /\ config.enabled
  /\ T.contract = config.token.contract
  /\ T.symbol = config.token.symbol
  /\ MoveCoins(T, from, Registry, q)
  /\ AddBalance(from, T.symbol, q)
  /\ UNCHANGED <<config, registered, contracts, unowned, retokened>>

\* Coins that arrive with no credit: on_transfer returns at once for proceeds of
\* eosio.ram, and transfer2 of a token contract never notifies it.
UncreditedTransfer(from, T, q) ==
  /\ from # Registry
  /\ MoveCoins(T, from, Registry, q)
  /\ unowned' = IF retokened THEN unowned ELSE Credit(unowned, T, q)
  /\ UNCHANGED <<config, opened, ledger, rowSymbol, registered, contracts, retokened>>

\* A transfer between other accounts.
HolderTransfer(from, to, T, q) ==
  /\ from # Registry /\ to # Registry
  /\ MoveCoins(T, from, to, q)
  /\ UNCHANGED <<config, opened, ledger, rowSymbol, registered, contracts, unowned, retokened>>

\* Fault: a withdrawal from a disabled registry.
WithdrawAlways(account, sym, q) ==
  /\ sym = config.token.symbol
  /\ q > 0
  /\ RemoveBalance(account, sym, q)
  /\ MoveCoins(config.token, Registry, account, q)
  /\ UNCHANGED <<config, registered, contracts, unowned, retokened>>

Withdraw(account, sym, q) ==
  /\ config.enabled
  /\ sym = config.token.symbol
  /\ q > 0
  /\ RemoveBalance(account, sym, q)
  /\ MoveCoins(config.token, Registry, account, q)
  /\ UNCHANGED <<config, registered, contracts, unowned, retokened>>

(* The tokens table. *)

NewRow(creator, precision, payer) ==
  [precision |-> precision, creator |-> creator, contract |-> Unset, payer |-> payer]

AddRow(ticker, precision, creator, payer) ==
  /\ precision <= 18
  /\ registered' = [registered EXCEPT ![ticker] = NewRow(creator, precision, payer)]

\* Fault: a registration for whatever the creator offers.
RegTokenAnyPayment(creator, ticker, precision, sym, q) ==
  /\ config.enabled
  /\ TickerLength[ticker] >= config.minlength
  /\ ~ IsRegistered(ticker)
  /\ sym = config.token.symbol
  /\ RemoveBalance(creator, sym, q)
  /\ MoveCoins(config.token, Registry, config.receiver, q)
  /\ AddRow(ticker, precision, creator, creator)
  /\ UNCHANGED <<config, contracts, unowned, retokened>>

RegToken(creator, ticker, precision, sym, q) ==
  /\ config.enabled
  /\ TickerLength[ticker] >= config.minlength
  /\ ~ IsRegistered(ticker)
  /\ sym = config.token.symbol
  /\ q = config.fee
  /\ (IF creator \in opened THEN ledger[creator] ELSE 0) >= q
  /\ RemoveBalance(creator, sym, q)
  /\ MoveCoins(config.token, Registry, config.receiver, q)
  /\ AddRow(ticker, precision, creator, creator)
  /\ UNCHANGED <<config, contracts, unowned, retokened>>

AddToken(creator, ticker, precision) ==
  /\ ~ IsRegistered(ticker)
  /\ AddRow(ticker, precision, creator, Registry)
  /\ UNCHANGED <<config, opened, ledger, rowSymbol, contracts, coins, unowned, retokened>>

RmToken(ticker) ==
  /\ IsRegistered(ticker)
  /\ registered' = [registered EXCEPT ![ticker] = Unregistered]
  /\ UNCHANGED <<config, opened, ledger, rowSymbol, contracts, coins, unowned, retokened>>

\* Fault: a token bound to another contract after the first.
SetContractAgain(ticker, contract) ==
  /\ IsRegistered(ticker)
  /\ contract \in contracts
  /\ registered' = [registered EXCEPT ![ticker].contract = contract]
  /\ UNCHANGED <<config, opened, ledger, rowSymbol, contracts, coins, unowned, retokened>>

\* The code reads the value of an optional that is empty until the first
\* setcontract: undefined, so a first binding may go through or be refused.
\* A refusal changes nothing, which leaves the step to be taken or not.
SetContract(ticker, contract) ==
  /\ IsRegistered(ticker)
  /\ contract \in contracts
  /\ registered[ticker].contract \in {Unset, NoAccount}
  /\ registered' = [registered EXCEPT ![ticker].contract = contract]
  /\ UNCHANGED <<config, opened, ledger, rowSymbol, contracts, coins, unowned, retokened>>

AddContract(contract) ==
  /\ contract \notin contracts
  /\ contracts' = contracts \cup {contract}
  /\ UNCHANGED <<config, opened, ledger, rowSymbol, registered, coins, unowned, retokened>>

RmContract(contract) ==
  /\ contract \in contracts
  /\ contracts' = contracts \ {contract}
  /\ UNCHANGED <<config, opened, ledger, rowSymbol, registered, coins, unowned, retokened>>

(* The configuration. *)

\* setconfig stores the row it is given, the enabled flag with it, unvalidated.
SetConfig(new) ==
  /\ config' = new
  /\ retokened' = (retokened \/ (new.token # config.token /\ \E a \in Accounts : ledger[a] > 0))
  /\ UNCHANGED <<opened, ledger, rowSymbol, registered, contracts, coins, unowned>>

Enable ==
  /\ config.token.symbol # NoSymbol
  /\ config.token.contract # NoAccount
  /\ config.receiver # NoAccount
  /\ config.fee > 0
  /\ config' = [config EXCEPT !.enabled = TRUE]
  /\ UNCHANGED <<opened, ledger, rowSymbol, registered, contracts, coins, unowned, retokened>>

Disable ==
  /\ config' = [config EXCEPT !.enabled = FALSE]
  /\ UNCHANGED <<opened, ledger, rowSymbol, registered, contracts, coins, unowned, retokened>>

----
LedgerNext ==
  \/ \E a \in Customers :
       \/ OpenBalance(a)
       \/ CloseBalance(a)
       \/ \E q \in Amounts :
            \/ \E T \in FeeTokens : Deposit(a, T, q)
            \/ \E sym \in Symbols : Withdraw(a, sym, q)
  \/ \E from \in Accounts, T \in FeeTokens, q \in Amounts :
       \/ UncreditedTransfer(from, T, q)
       \/ \E to \in Accounts : HolderTransfer(from, to, T, q)

TokenNext ==
  \/ \E creator \in Customers, ticker \in Tickers, precision \in Precisions :
       \/ AddToken(creator, ticker, precision)
       \/ \E sym \in Symbols, q \in Amounts : RegToken(creator, ticker, precision, sym, q)
  \/ \E ticker \in Tickers : RmToken(ticker) \/ \E c \in Contracts : SetContract(ticker, c)
  \/ \E c \in Contracts : AddContract(c) \/ RmContract(c)

ConfigNext == Enable \/ Disable \/ \E new \in Configs : SetConfig(new)

Next == LedgerNext \/ TokenNext \/ ConfigNext

Spec == Init /\ [][Next]_vars

----
(* Properties. *)

TypeOK ==
  /\ config \in [enabled : BOOLEAN, token : FeeTokens \cup {NoToken},
                 receiver : Accounts \cup {NoAccount}, fee : Amounts, minlength : Nat]
  /\ opened \subseteq Accounts
  /\ ledger \in [Accounts -> Amounts]
  /\ rowSymbol \in [Accounts -> Symbols \cup {NoSymbol}]
  /\ registered \in [Tickers -> TokenRows \cup {Unregistered}]
  /\ contracts \subseteq Contracts
  /\ coins \in [FeeTokens -> [Accounts -> Amounts]]
  /\ unowned \in [FeeTokens -> Amounts]
  /\ retokened \in BOOLEAN

\* A row carries a valid symbol; an account without a row is owed nothing.
RowsConsistent ==
  \A a \in Accounts :
    /\ (a \in opened) = (rowSymbol[a] # NoSymbol)
    /\ a \notin opened => ledger[a] = 0

\* As long as the fee token was never replaced under outstanding balances, the
\* registry holds, of the fee token, exactly the balances it keeps plus what
\* arrived uncredited, and of any other token only what arrived uncredited:
\* no handler credits without a payment, pays without a charge, or takes
\* one contract's token for another's.
ExactCustody ==
  ~ retokened =>
    \A T \in FeeTokens :
      coins[T][Registry] = unowned[T] + (IF T = config.token THEN Total(ledger) ELSE 0)

\* Under the same condition every balance can be withdrawn in full and in part:
\* its row has the symbol withdraw asks for, and the registry holds the coins.
Redeemable ==
  ~ retokened =>
    \A a \in Accounts : ledger[a] > 0 =>
      /\ config.token \in FeeTokens
      /\ rowSymbol[a] = config.token.symbol
      /\ ledger[a] <= coins[config.token][Registry]

\* Under the same condition, a balance is in the configured fee token.
BalancesInFeeToken ==
  ~ retokened =>
    \A a \in Accounts : ledger[a] > 0 =>
      config.token \in FeeTokens /\ rowSymbol[a] = config.token.symbol

\* The inductive invariant behind ExactCustody and Redeemable.
Inv == TypeOK /\ RowsConsistent /\ ExactCustody /\ BalancesInFeeToken

\* What the registry holds of each fee token.
Holdings == [T \in FeeTokens |-> coins[T][Registry]]

E == INSTANCE Escrow WITH Holders <- Accounts, owed <- ledger, held <- Total(Holdings),
                          surplus <- Total(Holdings) - Total(ledger)

\* Whatever the configuration goes through, over all fee tokens together the
\* registry is an escrow: a change of token may pay one token's balance in
\* another, never one balance twice, and never out of what nobody is owed.
EscrowRefined == E!EscrowSpec

\* A ticker that regtoken (and not the administrator) registers costs its creator
\* the configured fee, and the configured receiver gets it in the same step.
RegistrationPaid ==
  [][\A t \in Tickers :
       (~ IsRegistered(t) /\ IsRegistered(t)' /\ registered'[t].payer # Registry) =>
         LET payer == registered'[t].payer IN
           /\ config.fee > 0
           /\ ledger'[payer] = ledger[payer] - config.fee
           /\ coins'[config.token][config.receiver] =
                coins[config.token][config.receiver] + config.fee]_vars

\* While the registry is disabled no balance is credited, paid out or spent.
FrozenWhileDisabled ==
  [][~ config.enabled => ledger' = ledger]_vars

\* Until the administrator removes it, a registration keeps its precision and
\* its creator, and a contract once set (to a real name) is never changed.
RegistrationStable ==
  [][\A t \in Tickers :
       (IsRegistered(t) /\ IsRegistered(t)') =>
         /\ registered'[t].precision = registered[t].precision
         /\ registered'[t].creator = registered[t].creator
         /\ registered[t].contract \notin {Unset, NoAccount} =>
              registered'[t].contract = registered[t].contract]_vars

\* An enabled registry has a valid fee token, a receiver and a positive fee, as
\* enable requires (registry.cpp:257-260).  setconfig does not keep it.
EnabledOnlyWhenConfigured ==
  config.enabled =>
    /\ config.token.symbol # NoSymbol
    /\ config.token.contract # NoAccount
    /\ config.receiver # NoAccount
    /\ config.fee > 0

================================================================================
