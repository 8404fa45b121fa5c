------------------------------- MODULE Sentiment -------------------------------
(******************************************************************************)
(* The sentiment contract (contracts/sentiment), without its votes: prepaid   *)
(* balances, the topics they pay for and the configuration, together with the *)
(* accounts' balances in the token contracts.  SentimentVotes adds the votes. *)
(*                                                                            *)
(* As in Registry, a step is one action of a transaction with everything it   *)
(* causes, and a failed check is a step that is not taken.  The contract's    *)
(* own authority signs administrative actions and what withdraw and           *)
(* createtopic send.                                                          *)
(******************************************************************************)
EXTENDS AssetTotals

CONSTANTS
  Accounts,         \* every account on the chain
  Customers,        \* those that sign deposits, withdrawals and topics
  Sentiment,        \* the account the contract is deployed to
  Ram,              \* eosio.ram
  NoAccount,        \* the empty name
  NoSymbol,         \* the default, invalid symbol
  FeeTokens,        \* [contract, symbol] pairs the fee may be taken in
  SilentContracts,  \* the token contracts that also have transfer2
  Actions,          \* names the fee may be sent by
  PayingActions,    \* those that move coins: transfer and transfer2
  Topics,           \* identifiers of topics
  Descriptions,
  InitialCoins,     \* what each account holds of each fee token at first
  Configs           \* what setconfig may be called with

NoToken == [contract |-> NoAccount, symbol |-> NoSymbol]

\* The fee is whatever amount setconfig was given, of either sign.
ConfigRows == [enabled : BOOLEAN, token : FeeTokens \cup {NoToken}, action : Actions,
               receiver : Accounts \cup {NoAccount}, fee : Int]

\* The amounts an asset may have; a topic's payment is one of these.
Payments == -MaxAmount .. MaxAmount

ASSUME SentimentAssumption ==
  /\ IsFiniteSet(Accounts) /\ IsFiniteSet(FeeTokens)
  /\ {Sentiment, Ram} \cup Customers \subseteq Accounts /\ Sentiment # Ram
  /\ NoAccount \notin Accounts
  /\ NoToken \notin FeeTokens
  /\ \A T \in FeeTokens : T = [contract |-> T.contract, symbol |-> T.symbol]
  /\ \A T \in FeeTokens : T.symbol # NoSymbol
  /\ PayingActions \subseteq Actions /\ "transfer" \in PayingActions
  /\ Configs \subseteq ConfigRows
  /\ InitialCoins \in [FeeTokens -> [Accounts -> Amounts]]
  /\ \A T \in FeeTokens : InitialCoins[T][Sentiment] = 0

VARIABLES
  config,       \* the config singleton
  opened,       \* accounts with a row in the balance table
  ledger,       \* the amount in that row (0 without a row)
  rowSymbol,    \* the symbol in that row
  topics,       \* the topics table
  coins,        \* external: balances in the fee tokens' contracts
  retokened,    \* history: the fee token was replaced while someone held a balance
  unowned       \* history, until then: coins held that are credited to nobody, less
                \* what topics at a negative fee credited without coins

ledgerVars == <<opened, ledger, rowSymbol>>
vars == <<config, opened, ledger, rowSymbol, topics, coins, retokened, unowned>>

Symbols == {T.symbol : T \in FeeTokens}

DefaultConfig == [enabled |-> FALSE, token |-> NoToken, action |-> "transfer",
                  receiver |-> NoAccount, fee |-> 0]

NoTopic == [creator |-> NoAccount]
TopicRows == [creator : Accounts, description : Descriptions]

NothingUnowned == [T \in FeeTokens |-> 0]

IsTopic(id) == topics[id] # NoTopic

Init ==
  /\ config = DefaultConfig
  /\ opened = {}
  /\ ledger = [a \in Accounts |-> 0]
  /\ rowSymbol = [a \in Accounts |-> NoSymbol]
  /\ topics = [id \in Topics |-> NoTopic]
  /\ coins = InitialCoins
  /\ retokened = FALSE
  /\ unowned = NothingUnowned

----
(* The token contracts, and the balance table. *)

\* external: T's contract moves q, if the holder has it and the sum is in range.
MoveCoins(T, from, to, q) ==
  /\ from # to /\ q > 0
  /\ T \in FeeTokens /\ to \in Accounts
  /\ coins[T][from] >= q
  /\ coins[T][to] + q <= MaxAmount
  /\ coins' = [coins EXCEPT ![T] = Credit(Debit(@, from, q), to, q)]

\* q more that the contract holds on nobody's behalf; less, if q is negative.
Unclaimed(T, q) == unowned' = IF retokened THEN unowned ELSE Credit(unowned, T, q)

\* Fault: a credit that takes the row's symbol for granted.
AddBalanceAnySymbol(a, sym, q) ==
  /\ a \in opened
  /\ ledger[a] + q <= MaxAmount
  /\ ledger' = Credit(ledger, a, q)
  /\ UNCHANGED <<opened, rowSymbol>>

\* add_balance: the row must be open, and asset's += wants its symbol and a sum in range.
AddBalance(a, sym, q) ==
  /\ a \in opened /\ rowSymbol[a] = sym
  /\ ledger[a] + q <= MaxAmount
  /\ ledger' = Credit(ledger, a, q)
  /\ UNCHANGED <<opened, rowSymbol>>

\* Fault: a spent row is emptied and left behind, without its owner.
RemoveBalanceForgetful(a, sym, q) ==
  /\ a \in opened
  /\ ledger[a] >= q
  /\ IF ledger[a] = q
     THEN /\ ledger' = Debit(ledger, a, q)
          /\ opened' = opened \ {a}
          /\ rowSymbol' = [rowSymbol EXCEPT ![a] = NoSymbol]
     ELSE UNCHANGED ledgerVars

\* Fault: the row is erased with what is left in it.
RemoveBalanceErasing(a, sym, q) ==
  /\ a \in opened
  /\ ledger[a] >= q
  /\ ledger' = Debit(ledger, a, q)
  /\ opened' = opened \ {a}
  /\ rowSymbol' = [rowSymbol EXCEPT ![a] = NoSymbol]

\* remove_balance: a row spent in full is erased whatever its symbol, only the
\* branch that keeps it reaches -=, which compares symbols and wants the result in
\* range.  Nothing looks at q's sign: a negative one raises the row.
RemoveBalance(a, sym, q) ==
  /\ a \in opened
  /\ ledger[a] >= q
  /\ ledger' = Debit(ledger, a, q)
  /\ \/ /\ ledger[a] = q
        /\ opened' = opened \ {a}
        /\ rowSymbol' = [rowSymbol EXCEPT ![a] = NoSymbol]
     \/ /\ ledger[a] # q
        /\ rowSymbol[a] = sym
        /\ ledger[a] - q <= MaxAmount
        /\ UNCHANGED <<opened, rowSymbol>>

\* An account that has a row already is left as it is.
Open(account) ==
  /\ config.enabled
  /\ account \notin opened
  /\ config.token.symbol # NoSymbol      \* asset(0, symbol) checks it
  /\ opened' = opened \cup {account}
  /\ rowSymbol' = [rowSymbol EXCEPT ![account] = config.token.symbol]
  /\ UNCHANGED <<config, ledger, topics, coins, retokened, unowned>>

\* Fault: any contract's token of the right symbol is credited.
DepositAnyContract(from, T, q) ==
  /\ from \notin {Ram, Sentiment}
  /\ config.enabled
  /\ T.symbol = config.token.symbol
  /\ MoveCoins(T, from, Sentiment, q)
  /\ AddBalance(from, T.symbol, q)
  /\ UNCHANGED <<config, topics, retokened, unowned>>

\* on_transfer past its early returns, from an account whose row is open.
Deposit(from, T, q) ==
  /\ from \notin {Ram, Sentiment}
  /\ config.enabled
  /\ T.contract = config.token.contract
  /\ T.symbol = config.token.symbol
  /\ MoveCoins(T, from, Sentiment, q)
  /\ AddBalance(from, T.symbol, q)
  /\ UNCHANGED <<config, topics, retokened, unowned>>

\* Fault: the contract is recognised before the switch is looked at.
ForeignTransferAlways(from, T, q) ==
  /\ from \notin {Ram, Sentiment}
  /\ T.contract # config.token.contract
  /\ MoveCoins(T, from, Sentiment, q)
  /\ Unclaimed(T, q)
  /\ UNCHANGED <<config, opened, ledger, rowSymbol, topics, retokened>>

\* on_transfer returns at another contract's token, but only once it has
\* required the contract to be enabled.
ForeignTransfer(from, T, q) ==
  /\ from \notin {Ram, Sentiment}
  /\ config.enabled
  /\ T.contract # config.token.contract
  /\ MoveCoins(T, from, Sentiment, q)
  /\ Unclaimed(T, q)
  /\ UNCHANGED <<config, opened, ledger, rowSymbol, topics, retokened>>

\* on_transfer returns at once for eosio.ram, and transfer2 never calls it.
SilentTransfer(from, T, q) ==
  /\ from # Sentiment
  /\ from = Ram \/ T.contract \in SilentContracts
  /\ MoveCoins(T, from, Sentiment, q)
  /\ Unclaimed(T, q)
  /\ UNCHANGED <<config, opened, ledger, rowSymbol, topics, retokened>>

\* A transfer between other accounts.
HolderTransfer(from, to, T, q) ==
  /\ from # Sentiment /\ to # Sentiment
  /\ MoveCoins(T, from, to, q)
  /\ UNCHANGED <<config, opened, ledger, rowSymbol, topics, retokened, unowned>>

Withdraw(account, sym, q) ==
  /\ config.enabled
  /\ sym = config.token.symbol
  /\ q > 0
  /\ RemoveBalance(account, sym, q)
  /\ MoveCoins(config.token, Sentiment, account, q)
  /\ UNCHANGED <<config, topics, retokened, unowned>>

(* The topics table. *)

\* The fee is sent by the configured action.  A transfer refuses one that is not
\* positive.  An action that the token's contract accepts without moving coins
\* leaves the fee with the contract, whatever its sign.
PayFee(q) ==
  \/ /\ config.action \in PayingActions
     /\ MoveCoins(config.token, Sentiment, config.receiver, q)
     /\ UNCHANGED unowned
  \/ /\ config.action \notin PayingActions
     /\ config.token \in FeeTokens
     /\ Unclaimed(config.token, q)
     /\ UNCHANGED coins

\* Fault: the fee is sent, but the creator's balance is not charged for it.
CreateTopicUncharged(creator, id, description, sym, q) ==
  /\ config.enabled
  /\ ~ IsTopic(id)
  /\ sym = config.token.symbol
  /\ q = config.fee
  /\ (IF creator \in opened THEN ledger[creator] ELSE 0) >= q
  /\ PayFee(q)
  /\ topics' = [topics EXCEPT ![id] = [creator |-> creator, description |-> description]]
  /\ UNCHANGED <<config, opened, ledger, rowSymbol, retokened>>

CreateTopic(creator, id, description, sym, q) ==
  /\ config.enabled
  /\ ~ IsTopic(id)
  /\ sym = config.token.symbol
  /\ q = config.fee
  /\ (IF creator \in opened THEN ledger[creator] ELSE 0) >= q
  /\ RemoveBalance(creator, sym, q)
  /\ PayFee(q)
  /\ topics' = [topics EXCEPT ![id] = [creator |-> creator, description |-> description]]
  /\ UNCHANGED <<config, retokened>>

UpdateTopic(id, description) ==
  /\ IsTopic(id)
  /\ topics' = [topics EXCEPT ![id].description = description]
  /\ UNCHANGED <<config, opened, ledger, rowSymbol, coins, retokened, unowned>>

DeleteTopic(id) ==
  /\ IsTopic(id)
  /\ topics' = [topics EXCEPT ![id] = NoTopic]
  /\ UNCHANGED <<config, opened, ledger, rowSymbol, coins, retokened, unowned>>

(* The configuration. *)

\* setconfig replaces everything but the switch, unvalidated.
SetConfig(new) ==
  /\ config' = [new EXCEPT !.enabled = config.enabled]
  /\ retokened' = (retokened \/ (new.token # config.token /\ \E a \in Accounts : ledger[a] > 0))
  /\ unowned' = IF retokened' THEN NothingUnowned ELSE unowned
  /\ UNCHANGED <<opened, ledger, rowSymbol, topics, coins>>

Enable ==
  /\ config.token.symbol # NoSymbol
  /\ config.token.contract # NoAccount
  /\ config.receiver # NoAccount
  /\ config.fee > 0
  /\ config' = [config EXCEPT !.enabled = TRUE]
  /\ UNCHANGED <<opened, ledger, rowSymbol, topics, coins, retokened, unowned>>

Disable ==
  /\ config' = [config EXCEPT !.enabled = FALSE]
  /\ UNCHANGED <<opened, ledger, rowSymbol, topics, coins, retokened, unowned>>

----
LedgerNext ==
  \/ \E a \in Customers :
       \/ Open(a)
       \/ \E q \in Amounts :
            \/ \E T \in FeeTokens : Deposit(a, T, q)
            \/ \E sym \in Symbols : Withdraw(a, sym, q)
  \/ \E from \in Accounts, T \in FeeTokens, q \in Amounts :
       \/ ForeignTransfer(from, T, q)
       \/ SilentTransfer(from, T, q)
       \/ \E to \in Accounts : HolderTransfer(from, to, T, q)

TopicNext ==
  \E id \in Topics, description \in Descriptions :
    \/ \E creator \in Customers, sym \in Symbols, q \in Payments :
         CreateTopic(creator, id, description, sym, q)
    \/ UpdateTopic(id, description)

ConfigNext == Enable \/ Disable \/ \E new \in Configs : SetConfig(new)

Next ==
  \/ LedgerNext
  \/ TopicNext
  \/ \E id \in Topics : DeleteTopic(id)
  \/ ConfigNext

Spec == Init /\ [][Next]_vars

----
(* Properties. *)

TypeOK ==
  /\ config \in ConfigRows
  /\ opened \subseteq Accounts
  /\ ledger \in [Accounts -> Amounts]
  /\ rowSymbol \in [Accounts -> Symbols \cup {NoSymbol}]
  /\ topics \in [Topics -> TopicRows \cup {NoTopic}]
  /\ coins \in [FeeTokens -> [Accounts -> Amounts]]
  /\ retokened \in BOOLEAN
  /\ unowned \in [FeeTokens -> Int]

\* A row carries a valid symbol; an account without a row is owed nothing.
RowsConsistent ==
  \A a \in Accounts :
    /\ (a \in opened) = (rowSymbol[a] # NoSymbol)
    /\ a \notin opened => ledger[a] = 0

\* As long as the fee token was never replaced under outstanding balances, the
\* contract holds, of the fee token, exactly the balances it keeps plus what
\* is credited to nobody: transfers that on_transfer lets pass and fees that
\* createtopic charged but whose action paid nobody.  A negative one of these
\* counts against it: nothing but such fees makes the contract hold less than
\* it owes.
ExactCustody ==
  ~ retokened =>
    \A T \in FeeTokens :
      coins[T][Sentiment] = unowned[T] + (IF T = config.token THEN Total(ledger) ELSE 0)

\* Under the same condition, a balance is in the configured fee token.
BalancesInFeeToken ==
  ~ retokened =>
    \A a \in Accounts : ledger[a] > 0 =>
      config.token \in FeeTokens /\ rowSymbol[a] = config.token.symbol

\* The inductive invariant behind ExactCustody and Redeemable.
Inv == TypeOK /\ RowsConsistent /\ ExactCustody /\ BalancesInFeeToken

\* Under the same condition every balance is in a row of the symbol withdraw
\* asks for, and can be withdrawn in full and in part: the contract holds the
\* coins, unless topics at a negative fee credited more than arrived uncredited.
\* Rows opened for one symbol and spent rows, which vanish, do not get in the way.
Redeemable ==
  ~ retokened =>
    \A a \in Accounts : ledger[a] > 0 =>
      /\ config.token \in FeeTokens
      /\ rowSymbol[a] = config.token.symbol
      /\ unowned[config.token] >= 0 => ledger[a] <= coins[config.token][Sentiment]

\* What the contract holds of each fee token.
Holdings == [T \in FeeTokens |-> coins[T][Sentiment]]

E == INSTANCE Escrow WITH Holders <- Accounts, owed <- ledger, held <- Total(Holdings),
                          surplus <- Total(Holdings) - Total(ledger)

\* A topic made at a negative fee, sent by an action that moves no coins, gives its
\* creator a balance that nothing backs.
TopicGrants ==
  /\ config.enabled /\ config.fee < 0 /\ config.action \notin PayingActions
  /\ \E id \in Topics :
       /\ ~ IsTopic(id) /\ IsTopic(id)'
       /\ E!Grant(topics'[id].creator, -config.fee)

\* Also when its token is replaced under balances, over all fee tokens together
\* the contract is an escrow, but for such topics: it never pays out what it
\* has not charged, owes nothing that it was not paid or that such a topic did
\* not grant, and a fee whose action pays nobody is forfeited to it, not lost.
EscrowRefined == E!EscrowInit /\ [][E!EscrowNext \/ TopicGrants]_E!escrowVars

\* A topic costs its creator the configured fee, exactly, and the configured
\* receiver gets it in the same step if the configured action is a transfer.
\* After that only the maintainer changes the topic, and not its creator.
TopicsPaidAndKept ==
  [][\A id \in Topics :
       /\ (~ IsTopic(id) /\ IsTopic(id)') =>
            LET creator == topics'[id].creator IN
              /\ ledger'[creator] = ledger[creator] - config.fee
              /\ config.action \in PayingActions =>
                   /\ config.fee > 0
                   /\ coins'[config.token][config.receiver] =
                        coins[config.token][config.receiver] + config.fee
       /\ (IsTopic(id) /\ IsTopic(id)') => topics'[id].creator = topics[id].creator]_vars

\* While the contract is disabled no balance moves, no row opens and no topic
\* appears; and no transfer of any token gets in, not even one that an enabled
\* contract would ignore, except the two kinds that never reach its check.
ClosedWhileDisabled ==
  [][~ config.enabled =>
       /\ UNCHANGED ledgerVars
       /\ \A id \in Topics : IsTopic(id)' => IsTopic(id)
       /\ \A T \in FeeTokens : coins'[T][Sentiment] # coins[T][Sentiment] =>
            \/ T.contract \in SilentContracts
            \/ coins'[T][Ram] < coins[T][Ram]]_vars
================================================================================
