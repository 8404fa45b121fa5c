# Verification of the Vaulta contracts

TLA+ models of the Vaulta smart contracts (`src/contracts`), the TLC configurations that
check them on small instances, and TLAPS proofs of the main results for every value of the
constants. Every definition is a translation of the C++ named for it in `PROJECT.json`
(`map`).

## The system

Contracts are deployed to accounts of an Antelope chain. A *transaction* is a sequence of
*actions*; an action runs one handler of one contract, then the handlers of the accounts it
notified (`require_recipient`), then, depth first, the *inline actions* these queued. All of
it commits together, or a failed `check` anywhere undoes all of it. There is no other
concurrency: what makes the contracts hard is the order in which independent parties send
legal actions, configuration that changes under state made for an earlier one, and the code
of other contracts that runs between two inline actions of one transaction.

| Component | State | Operations | Talks to |
|---|---|---|---|
| `registry` | configuration, balance rows, registered tickers, whitelist | deposit (by notification), `withdraw`, `openbalance`, `closebalance`, `regtoken`, `setcontract`, `addtoken`, `rmtoken`, `addcontract`, `rmcontract`, `setconfig`, `enable`, `disable` | the fee token's contract: notified of deposits, sends payments inline |
| `tokens` | per ticker a stat row and the accounts' rows; the registry's name | the standard token actions, `transfer2`, `setsupply`, `distribute`, `setconfig` | reads the registry's table; `distribute` sends itself transfers and a close, whose receivers are notified |
| `mockreceiver` | token contract, sender, destination | forwards what it is paid with an inline `transfer2`; `setconfig` | notified by `tokens`, reads its rows |
| `eosio.token` | per token a stat row and the accounts' rows | `create`, `issue`, `retire`, `transfer`, `open`, `close` | notifies both parties; its tables are read by `api` and `sentiment` |
| `sentiment` | configuration, balance rows, topics, votes on topics, accounts and proposals | deposit, `withdraw`, `open`, topics, votes, queries of votes, weights and metrics | the fee token's contract, `eosio.msig`, the system's tables and those of four tokens |
| `gift` | per creator a quota and its use in the current window | `addcreator`, `rmcreator`, `setquota`, `giftacct` | `eosio`: `giftram` inline, the transaction's other actions |
| `create` | none | on payment: `newaccount`, `buyram`, refund of the excess, `logcreation` | `eosio`, `core.vaulta`, the RAM market's reserves, the payer's own contract |
| `api` | configuration | read-only queries | everybody's tables |
| shared code | none | RAM prices (`ram.cpp`), public keys (`publickey.cpp`), `check_allocations` | |
| `mocksystem`, `ctemplate`, debug actions | for tests | | |

What makes each of them correct:

- **registry**: it owes nobody more than it holds, takes on a debt only against a payment in
  the configured token, pays only what it charges; a registration is paid for and not changed
  behind its creator's back; nothing moves while it is disabled.
- **tokens**: balances sum to the supply within its maximum, always; a distribution is all or
  nothing and gives everybody their allocation; neither the contract nor a forwarder pays for
  rows.
- **sentiment**: the same promise about balances; a topic is paid for by whom it names; one
  vote per voter and subject, belonging to that subject only, and none left of a deleted one;
  metrics count nobody's coins twice.
- **gift**: a creator never gifts more than the quota in a window, rows included, and never to
  an account that is not just being created.
- **create**: of each payment come an account with the key that the memo encodes, the RAM and
  the excess, to the last unit, or nothing at all.
- **api**: the answers add up to what there is, and count every balance once.

## Modules

| Module | Contents |
|---|---|
| `AssetTotals` | amounts of `eosio::asset`, and the total of a table of amounts as a cardinality (which the provers can handle without induction) |
| `AssetTotalsProofs` | lemmas: what a credit, a debit, a move, a renaming or a rounding does to a total, and what parts and sums of tables have of it |
| `Escrow` | abstract: a contract that keeps prepaid balances |
| `Registry` | the registry with the balances in the fee tokens' contracts |
| `MCRegistry` | an instance of it |
| `RegistryProofs` | invariant, custody, registration, and the refinement of `Escrow`; an escrow is solvent |
| `Tokens` | the tokens contract and its forwarding receivers, with the inline action queue |
| `MCTokens` | instances of it |
| `TokensProofs` | well-formedness, conservation, delivery of distributions, to the unit and to the end, and who pays for rows |
| `Launch` | `Registry` and `Tokens` composed over the table of registered tickers |
| `MCLaunch` | an instance of it |
| `LaunchProofs` | the registry as the environment of the tokens contract; what a launched token remains |
| `Gift` | the gift contract, with the transaction it looks at and the system contract's `giftram` |
| `MCGift` | an instance of it |
| `GiftProofs` | the quota, the daily bound, and who gets gifts |
| `Sentiment` | the sentiment contract without its votes, with the balances in the fee tokens' contracts |
| `SentimentVotes` | extends it: votes on topics, accounts and proposals, with the proposals |
| `MCSentiment`, `MCSentimentVotes` | instances of them |
| `SentimentProofs` | invariant, custody, paid topics, the closed contract, and the refinement of `Escrow`; then the invariant of the votes, over that of the balances |
| `RamMarket` | RAM prices, as operators |
| `PublicKey` | public keys as texts: decoding as the code does it, and encoding by division as the reference |
| `Create` | the account creation contract and the transactions it is called in, over those two |
| `MCCreate` | an instance of it, with the texts to be decoded |
| `CreateProofs` | what the roundings of prices may do, and the account-creating transaction |
| `EosioToken` | the system's token contract, for several tokens |
| `SystemTables` | extends it: the system's tables and those of the wrapping and staking contracts, as far as they are read (external) |
| `Api`, `VoterMetrics` | the queries of `api` and the metrics of `sentiment`, as operators over those tables, and their configurations |
| `Queries`, `MCQueries` | all of it as one state machine, and an instance |
| `QueriesProofs` | the books behind the answers, and what they add up to |

### Registry

The state is that of the tables: `config` the singleton, `opened`, `ledger` and `rowSymbol`
the balance table (existence, amount and symbol of a row), `registered` and `contracts` the
other two. `coins` is outside the contract: who holds how much of each token that can be the
fee token, in that token's contract. Two variables are history: `unowned` counts coins that
arrived without being credited, and `retokened` remembers that `setconfig` replaced the fee
token while someone held a balance.

There is one action per handler, each with everything the handler calls: `Deposit` is the
token's transfer together with `on_transfer` and `add_balance`; `Withdraw` is
`remove_balance` and the payment sent inline; `RegToken` charges, pays and writes the row in
one step, because the chain commits them as one. A failed check is a step not taken.

- The registry's own key signs its administrative actions; no transfer signed by it directly
  is modelled, since this would be a payment the contract does not know of.
- `setcontract` reads the value of an optional that is empty until the first binding. That is
  undefined, so a first binding may go through or be refused; one after it is refused. If the
  administrator whitelists the empty name, a row bound to it counts as unbound, as in the code.
- The host refuses to bill a new balance row to the depositor inside a notification when the
  contract is not privileged. The code takes the branch, and the model does; on a chain with
  that rule a first deposit without an open row fails. This only removes steps.
- `regtoken` stores only a row without a contract, `addtoken` one paid for by the registry;
  the payer is kept in the row because the difference is what tells the two apart.

### Tokens

`tokens` holds, for each ticker, one record: supply, maximum, issuer, and for each account
balance and RAM payer of its row (no payer: no row). `committed` is what the last transaction
left, to which `Abort` returns. `todo` is the queue of inline actions. `Continue` is the one
place where a step changes ledgers, queues what it sends in front of what is pending, and
commits when nothing is.

`TransferThen` is the whole of `transfer`: both parties' notifications included. A receiver
that is a forwarder runs its handler (which refuses or queues a `transfer2`); an account in
`Handlers` has an unknown contract, and a `react` entry in the queue marks the point where it
may act: it may take any of the actions open to an account, any number of times, and these
queue and nest as the chain has them. `Distribute` makes its checks, queues one transfer per
allocation and the closing of the contract's own row. `IssueFixed` is `Issue` of a difference;
`SetSupply` puts the whole supply into the contract's row.

- Left out: the precision of symbols (all handlers refuse another one before any change),
  memos, and transactions of several independent actions (the same as several transactions as
  far as the ledgers are concerned, except that they would roll back together).
- The registry's table is an environment here: `RegistryChange` replaces any row between
  transactions. This allows everything the registry does and more (`RegistryIsTheEnvironment`);
  `Launch` has the registry in its place.
- `MaxPending` bounds the queue (the chain bounds its depth), `MaxAllocations` a distribution.

### Launch

`Launch` extends `Tokens` and instantiates `Registry`, whose table of tickers is `rows`. What
`setsupply` and `distribute` read of it is `registered`, which is `Found` of each row: `get_token`
as far as its callers compare what it returned. A step is one of the registry's (`RegistryStep`) or
one of the tokens contract's that leaves the registry alone (`TokensStep`). `origin` and `removed`
are history: the row under which a ticker's supply was set, and the tickers with a supply whose row
has been removed since.

`LaunchedAsRegistered` speaks of the time until the administrator removes the row. Whoever
registers the ticker after that has a token with another one's supply, possibly in another
precision: `setsupply` is refused, `distribute` takes the registration of the day. What holds
regardless is that the supply never changes (`LaunchedSupplyIsFinal`) and that the contract gives
away what it holds only for a ticker registered to it, and all of it (`HeldUntilDistributed`).

- The registry acts between transactions of the tokens contract. A notified contract that sends an
  action to the registry in the middle of a distribution is left out: what `distribute` reads of the
  table, it reads before it queues anything, but a nested `setsupply` could then see another row.
- Fees are paid in tokens of other contracts, not in tickers of the tokens contract.
- The registry's key signs only its administrative actions, here and in `transfer`
  (`LaunchAssumption`).

### Gift

`creators` is the contract's table and `gifted` the system contract's, as its stub in
`mocksystem` keeps it. `giftacct` unpacks the transaction it runs in, so a transaction is part
of the state: `trx` holds the accounts its `newaccount` actions name, `before` the accounts
that existed when it began. Names in `trx` may not have been created yet, and accounts created
inline are not in it. `spent` is history: the RAM each creator cost the contract, second by
second, the system contract's row included. It starts again with `addcreator`, as the quota
does.

- No roll-back is modelled: whatever a transaction did so far is also the whole of a shorter
  one, once its `newaccount` actions have run (`NextTransaction` waits for them).
- `GiftByOther` gifts RAM of other accounts, also to new ones before the contract does. Gifts
  the contract's own key would make directly are left out.
- `ClockAssumption` keeps the sum of two `uint32_t` in `giftacct` from wrapping. It would on
  the last day of the 32-bit clock, in 2106, when every gift starts a new window.

### Sentiment

`config`, `opened`, `ledger`, `rowSymbol`, `coins`, `unowned` and `retokened` are as in
`Registry`; `topics` is the topics table. The contract differs from the registry where it
matters for custody, and the model with it: `RemoveBalance` erases a row that is spent in full
whatever its symbol; rows vanish with the last coin and can be opened again under another
symbol; the notification refuses every transfer while the contract is disabled, also those it
would ignore (`ForeignTransfer`); and the fee for a topic is sent by an action whose name is
configured. `PayFee` is that action: `transfer` or `transfer2` moves coins, any other that the
token's contract has and accepts moves none, which the abstract escrow calls `Forfeit`.

The amount of that fee is whatever `setconfig` was given. `createtopic` compares amounts and
`remove_balance` subtracts, neither looks at a sign, so a negative fee *raises* the creator's
balance. A transfer would refuse it; an action that moves no coins does not, and the contract then
owes what it was never paid. The properties say so instead of excluding it: `unowned` counts such
a topic as so much less (`ExactCustody` is still an equation), `Redeemable` claims the coins only
while `unowned` of the fee token is not negative, and `EscrowRefined` allows, besides the steps of
an escrow, exactly these topics (`TopicGrants`, the abstract step `Grant`) and for exactly the fee.
The registry cannot come to this: its fee goes by `transfer` always.

`SentimentVotes` adds the tables of votes. A table's scope is its subject. A name is the set of
bits of its 64-bit value, so that the exclusive or in `get_proposal_scope` is the symmetric
difference it is. `VoteMsig` keeps, as the code does, the proposer and the name that a row was
made with; `said` is history: what each voter last said of each proposal. `BulkRmVotes` removes
any `n` rows of the topic, since the order of keys means nothing here. Proposals are made and
closed by others (`Propose`, `CloseProposal`); votes on closed ones stay.

- Queries of votes on a proposal are refused when it does not exist, so `MsigVote` and
  `MsigVoters` answer nothing then, although the rows stay (`MsigRow`).
- The contract's own key signs administrative actions only, as for the registry.
- The row's payer and `is_account` of the *voter* are left out: whoever signs exists.

### Create

The contract keeps no table, so the model is about one transaction: `todo` holds the inline
actions still to run, depth first, and `saved` the state to which `Abort` returns. `Pay` is all
of `ontransfer` past its early returns: it prices the RAM at that moment and queues
`newaccount`, `buyram`, the refund and `logcreation`. The token notifies the payer's account
first, so a payer in `Reactive` has a `react` entry in front: its contract may trade RAM, take
the name, pay again, or do nothing. `Retain` is the early returns. `BuyRam` is what
`core.vaulta` and `eosio` do with the payment, as `bytes_cost_with_fee` computes it. `CanEnd` is
the chain's check that accounts have the RAM that they use.

`RamMarket` has the prices. The code multiplies doubles and truncates; the model divides
integers exactly, which agrees while the products stay below 2^53. When the bytes asked for are
all there are, the double is infinite and the code converts it to an integer; `Priced` leaves
that out, since no such purchase could succeed.

`PublicKey` is `DecodeBase58` byte by byte: the skipped spaces, the leading zeros, the buffer of
`733 / 1000` of the text's length, digit after digit. Results are sets, empty where the code
refuses. The hash and the lengths of key and checksum are parameters. The reference is the
opposite direction: `Encoding` divides by 58. `KeysAsEncoded` compares the two.

- The asset symbol in `ontransfer` (`A` only) is the only token of the contract it accepts; other
  contracts' tokens are `Contracts \ {Proxy}`.
- Three things that `ontransfer` does not look at may still refuse a payment when its inline actions
  run. `CanCreate`: a name that needs more authority, and a key that the chain does not read
  (`Deserializable`: one of type WA with an empty domain, which `parsememo` accepts; the contract's
  tests leave it out for that reason). `CanEnd`: the RAM. The account pays for itself (`Usage`), but
  the row of its refund is new and billed to the contract: `room` is the number of rows that its own
  RAM is still enough for, `SendRefund` takes one, and others may provide more (`Provide`). In all
  these cases `Abort` undoes the payment too. The contract's own rows are taken as there and billed
  to it.

### Queries

`api` and the weights of `sentiment` have no state but configurations, and everything in their
answers is read from tables of others. `EosioToken` is a full state machine. `SystemTables` is
external: actions that stake, refund, lend, swap and wrap, each of which moves tokens to an
account of the system and records whose they are. The rows are those of the vendored headers;
the actions are as simple as their bookkeeping allows. Each query is an operator of the state;
one that may be refused is the set of its answers. Rows that are answered unchanged (global
state, RAM market, power-up, voter and proposal rows, hashes) are opaque records.

- All queries read the tables of configured accounts: `AtSystem` says whether that is the system
  contract, and otherwise they are empty. Only `rex_system_initialized` asks `eosio` always.
- `balance`, `balances`, `accounts`, `network` and the rows answered unchanged are translated, but no
  property is stated of them alone: that two queries agree would hold by the shape of the operators.
- Amounts are answered in the configured token's symbol; only rows of token contracts carry a
  precision of their own, and `Distribution` is refused when it is another one than asked for.
- `NothingCountsTwice` is about metrics that name each token for what it is and none twice. A token
  configured twice counts twice, which is what `setmetriccfg` was asked for.
- The voters table's stake is taken to be all that the voter delegates.
- In every beginning nothing is staked or in REX, and what is wrapped is backed. Accounts that keep
  tokens for others are no users and sign nothing but what their contracts do, and the contract of V
  does not keep the stakes of V itself (`SystemAssumption`, `QueriesAssumption`).
- A row of the system token is decoded with the flag `core.vaulta` adds to its rows, so
  configuring another token as the system token makes the metrics of its holders fail
  (`Readable`).

## What the runs show

| Run | Question | Instance |
|---|---|---|
| `registry` | does the registry always hold what it owes, and is a registration paid for and stable? | two customers, three tokens (two of one contract, two of one symbol), amounts up to 2, the administrator switching between all three, enabled or not; tickers shorter and longer than the minimum, precisions on both sides of the limit, fees of 1, 2 and none, a whitelist with the empty name |
| `registry_enabled` | is an enabled registry configured? No | as above |
| `tokens_launch` | does an accepted distribution complete, and deliver what was allocated, to the unit? | supply up to 2, up to two allocations to a signer, the registry's account and a forwarder, any forwarding configuration |
| `tokens_reactive` | and with receivers that act in the middle? | a creator and receiver with a contract of its own, queue of up to 4 |
| `tokens_open_rows` | does every allocation reach an open row? No | one receiver with a contract, queue of up to 5 |
| `launch` | does a launched token stay what it was registered as? | one ticker and one precision, a customer and the tokens contract itself as creators, a whitelist of this contract and another, one fee token, amounts of 1, no reacting contract |
| `gift_quota` | what can a creator's gifts cost, and who gets them? | one creator, two accounts to be created, quotas of 2 and 3 bytes, windows of 2 seconds out of 4, rows of 1 byte |
| `sentiment_custody` | does sentiment hold what it owes, but for what a negative fee grants, and is every topic paid for? | two customers, three tokens as above, one with `transfer2`, four configurations: fees by transfer, by an action that pays nobody, at a fee of 1 and of -1, and none |
| `sentiment_votes` | is what is answered what was said? | two voters, one topic, an account and a name that is none, two proposals of one name by two proposers |
| `sentiment_scopes` | is every answer about the proposal asked of? No | two proposals, each named after the other's proposer |
| `create` | what does a payment become? | two payers, one with a contract; three names, one of which `newaccount` refuses; three states of the market; payments of 3 and 4 for 4 bytes of which 3 are used; RAM for a row or none; every key encoded and some 270 texts, most of them with a character changed, dropped or added |
| `queries` | do the answers add up? | ten accounts, two of which act, four tokens, three beginnings |

The bounds: amounts of 0, 1 and 2 tell a row that is empty, spent in part and spent in full
apart, and make sums overflow `MaxAmount`; two customers are enough for one to be paid out of
what the other is owed; two fee tokens that agree in the symbol only and two that agree in the
contract only are all the ways to confuse tokens. `OneQuestion`
bounds `registry` to one question at a time: states in which coins have moved and no ticker or whitelist
exists yet, at a fee of 1, or in which at most one ticker is registered and only one fee token has
moved, all of it credited. Steps out of these are checked, but not followed. A distribution of two allocations can pay
the same account twice, directly or through a forwarder, and leaves one transfer pending while
a receiver acts. For the launch, one ticker
that is registered, bound, supplied, distributed, removed and registered again by the other creator
is every order of events on a ticker, and tickers do not touch each other; the larger amounts,
allocations and reacting contracts are those of the runs `tokens_launch` and `tokens_reactive`, and
the theorems have any. For gifts, a quota
that is filled exactly and one that leaves an unusable rest, and time for two windows, next to
each other or not, are what the checks at both ends of a window depend on; the two new accounts
are symmetric. For `create`, the prices of 4 bytes are, with the fee, 3, 4 and none (the last market
has just those left), and a market that moves between the price and the purchase makes the RAM too little; an account
without a contract and one with a contract that pays twice are all the payers there can be.
Keys of one byte and checksums of two have texts of up to a dozen digits, with and without
leading zeros, and buffers that are one byte too long as well as exact.

`queries` begins in one of three ways, because the tables are independent: EOS to stake, lend
and refund by two accounts, with no V and no RAM; RAM and V, which is created and issued while
the run goes on, with no EOS to stake; and one EOS, with the metrics configured to take EOS for
A. Two configurations of `api` make the accounts that hold locked tokens one or two. A pool of up
to three tokens at three shares each is enough for a share's value to be rounded.

Violations of the mutants listed in `PROJECT.json` show that the instances
can tell a wrong handler from the right one.

Only `create` assumes fairness (`FairSpec`): the next inline action of a transaction runs or
fails, and the payer's contract, when called, returns. Both are the chain's: it never leaves a
transaction half-way. Nothing is assumed about payers, traders or other creators. Under it
`AcceptedPaymentsComplete` says that a payment for a name and a key that `newaccount` takes, priced at
the reserves it is carried out at and with room for its refund's row, leads to the account. It says
nothing of the payments listed above, which `ontransfer` accepts and the chain undoes. The other contracts promise nothing that must happen:
their actions are somebody's choice. `tokens_launch` states that an accepted distribution cannot
get stuck as an invariant (`AcceptedDistributionCompletes`): the next action's checks, rather than
ENABLED, so that it can be proved. `queries` does not check for
deadlock: a chain on which nobody has anything to move may stop.

### Where the code and its documentation differ

- `registry_enabled`: `enable` refuses a configuration without token, receiver or fee, and a
  test requires it to; `setconfig` stores the `enabled` flag it is handed along with the rest.
- `tokens_open_rows`: `distribute` looks at the receivers' rows before the first of its
  transfers runs. A receiver that is named twice, and whose contract sends the first payment
  on and closes its row, gets a new row at the expense of the tokens contract.
- `sentiment_scopes`: `msig.cpp` calls the scope of a proposal's votes unique and reads all its
  rows as votes on that proposal. It is the exclusive or of the proposer's and the proposal's
  name; swapped, they give the same. The voter's row for one is then reported, changed and
  removed as theirs on the other. `AnswersAreWhatWasSaid` and its proof state what holds when no
  two proposals share a scope.

## What is proved

All proofs hold for any finite set of accounts, any tokens, tickers, configurations, quotas,
window, voters, proposals, reserves and `MaxAmount` (`RegistryAssumption`, `TokensAssumption`,
`LaunchAssumption`, `GiftAssumption` with `ClockAssumption`, `SentimentAssumption`, `VotesAssumption`,
`CreateAssumption`, `EosioTokenAssumption`, `SystemAssumption`, `ApiAssumption`,
`MetricsAssumption`, `QueriesAssumption`, `MaxAmountAssumption`).

- **Totals** (`AssetTotalsProofs`). The total of a table is the number of units in it, so a
  credit of `q` adds exactly `q` pairs to a finite set, and facts about totals are facts about
  sets of pairs. `TotalCredit`, `TotalDebit` and `TotalMove` are all the arithmetic that most of
  the other proofs need. Those about queries compare tables: `SplitAdds` and `PartWithin` for
  parts of one, `TotalOfSums` and `TotalGrows` for two entry by entry, `TotalRenamed` for one under
  other names, and `TotalScaled` for entries rounded down one by one, by an injection of one table's
  units into the other's.
- **Registry** (`RegistryProofs`). `ExactCustody` is not inductive alone: that a withdrawal
  lowers the right coins needs rows to be in the fee token, which needs rows and symbols to go
  together. `Inv` adds `RowsConsistent` and `BalancesInFeeToken`. Each action has a lemma; the
  theorems `CustodyCorrect` and `RedeemableCorrect` follow from `Inv`, and the action
  properties `DisabledIsFrozen`, `RegistrationsArePaid` and `RegistrationsAreStable` from `Inv`
  and one step.
- **Refinement** (`RegistryIsAnEscrow`). Every step of the registry is a step of `Escrow` or
  leaves it alone, with what is held summed over all fee tokens; no condition on the
  configuration is needed. `EscrowSolvent` then gives solvency.
- **Tokens** (`TokensProofs`). A ledger is `Sound` if it is well formed and adds up;
  `MoveSound`, `MintSound` and `BurnSound` show that the three ways to change balances keep
  it so, `ContinueOne` that a step with sound ledgers and a well-typed queue preserves `Inv`.
  Conservation then holds between inline actions too, whatever the reacting contracts do.
- **Gift** (`GiftProofs`). `TotalSplit` splits the spending of a span in two. The bound on any
  span (`DailyBound`) needs, besides the use of the current window, that what was spent in the
  last stretch before it, as long as a window, is within the quota (`UseBounded`): it all lies
  in one earlier window, since windows start a window's length apart. `WindowOK` shows that
  renewing a window keeps this, `ChargeOK` that a gift does.
- **Sentiment** (`SentimentProofs`). The same invariant as the registry's, over actions that
  differ: `RemoveBalanceEffect` shows that both branches of `remove_balance` lower the ledger by
  what was asked (or raise it, if that is negative), `ForfeitInv` that a fee of either sign whose
  action pays nobody leaves custody intact. The refinement needs one more case, `FeeStays`: a forfeit,
  nothing, or a grant, by the sign of the fee. `SentimentAssumption` admits every configuration that
  `setconfig` stores, with any integer for the fee. `TopicsArePaid` and `DisabledIsClosed` are
  action properties, from the invariant and one step.
- **Votes** (`SentimentProofs`). `VotesStepIsAStep` makes every step of the votes a step of
  `Sentiment`, so that its `Inv` holds here too. `NoOrphanedVotes` is inductive with the types;
  `RowsAreWhatWasSaid` as well, given that scopes are distinct: a row in a scope then can only
  be about one proposal (`MsigTableInv`), and `AnswersAreWhatWasSaid` follows for the proposals that
  exist. `VotesAreHeld` is an action property: disabled, the
  contract's votes only shrink, and only those of topics.
- **RAM prices** (`CreateProofs`). From `Quotient` and `QuotientAtLeast`, bounds on a
  quotient, follow: a quoted price never buys more than was priced, one unit more and what the
  fee's rounding takes of itself would buy all of it, and RAM bought and sold again returns at
  most what was paid.
- **Create** (`CreateProofs`). That nothing is kept (`NothingIsKept`) and that a customer paid a
  fair price (`DealsFair`) are properties of whole transactions; the invariant `IInv` says what
  they rest on while one runs. `Queued` says which inline actions can be waiting and in which order
  (`Follows`); `Ready`, that what came before the first of them has been done and what comes after
  has not; `Consistent`, that an account whose creation was logged holds the RAM and the refund the
  log says, and one that does not exist holds nothing; `Sufficient`, that an account which exists
  when no creation is under way has the RAM it uses, and the contract that for its rows;
  `NothingKept` itself, that what the contract holds beyond what was sent to it unasked is what the
  waiting actions spend, counted in units (`Committed`); `Settled`, that the state a failure returns
  to had all this. None of these is inductive without the others. `KeysAreAsEncoded` shows that the keys of an account that is created
  are those of the memo, given that decoding a text agrees with its encoding by division
  (`ReadingsCorrect`): that is an induction over texts, which the run `create` checks on its own.
- **Delivery** (`TokensProofs`). `AllocationsDelivered` speaks of the step that commits and of
  balances before the transaction; between them any number of notified contracts may issue,
  retire, transfer, or start distributions of their own. The invariant is an inequality, for every
  account that is no reacting contract: what it has, and what pending actions will bring it, is at
  least what it had, what it is due, and what it is itself to pass on as a forwarder
  (`Deliverable`). Pending amounts are units counted from the end of the queue, so that actions put
  in front of it move none (`AmountOfFront`) and one that is taken off removes exactly its own
  (`AmountOfTail`). `Ordered` says that only the contract's own transfers are pending and that the
  close of the distribution's ticker stays last, so that nothing can commit before all has run.
- **Exact delivery** (`TokensProofs`). Where no notified contract acts but the forwarders,
  `AllocationsExact` makes the inequality an equation. `ExactlyDeliverable` is inductive with
  `Delivery`: each turn of the queue is `Even`, it leaves what an account has, is to receive and is
  to pass on in balance (`EvenTurn`, for a transfer, a forwarder's `transfer2` and the close), and
  what a distribution queues is what is due (`DistributionAmounts`). A reacting contract can pass on
  its own share, so without `Handlers = {}` the equation is false.
- **Completion** (`TokensProofs`). `AcceptedDistributionCompletes` needs no such condition: that
  whatever is next in an accepted distribution to ordinary receivers passes its checks. `Accepted`
  says what `distribute` has checked and every payment keeps: the contract's row is open and holds
  exactly what is still to be paid (`Paying`), and every action but the last is a payment of the
  launch's ticker to an open row of an account that queues nothing. That no payment overflows
  is a matter of the ledger (`PaymentPasses`): receiver and contract together hold at most the
  supply, which is within the maximum. When only the close is left, nothing is to be paid and the
  row is empty.
- **RAM** (`TokensProofs`). `ContractsPayForNoRow` and `ReceiversStayOpen` hold under
  `OnlyForwarders`: no contract acts when notified but the forwarders, and these sign nothing
  themselves. Without it both are false: a contract that is paid may close the row which the next
  transfer then opens at the expense of the tokens contract, or have it refused (the run
  `tokens_open_rows`). The invariant `Billed` adds that rows at a contract's expense exist only
  during a distribution, and only the contract's own row of its ticker, which the last action
  closes; that everything before it is a payment; and that each finds its receiver's row.
- **Launch** (`LaunchProofs`). `RowsStep` shows that an action of the registry changes one row at
  most, and only adds or removes it or names the contract of one that has none. So it is an action
  of the environment that `Tokens` has (`RegistryIsTheEnvironment`), and `RegistryIsTheRegistry`
  is the other half: every theorem about either contract holds of both together.
  `LaunchedAsRegistered` is not inductive alone, because the supply appears in a transaction that
  commits later. `Pinned` says what an unfinished one may have done: a token with an origin is
  final (all of it out, and issued by the registry's account, which signs nothing in the tokens
  contract), its stats are the same inside the transaction, and a token that a transaction has
  brought about with such stats is registered to this contract. `TurnOf` is what one action may do
  to the stats of a ticker, shown for each action and notification.
  `HeldUntilDistributed` needs `Held`: outside a launch the contract's row has at least what it had
  when the transaction began, and in one the rows of all other tickers do, because what is pending of
  the contract's own is payments of the launch's ticker and the close of its row, which leaves
  nothing (`NothingLeft`). It is proved for `Handlers = {}`, since a contract that is paid may
  distribute another ticker, of its own, in the same transaction.
- **Queries** (`QueriesProofs`). That answers add up says nothing of how they came about, so none
  of it is inductive. The invariant `Inv` is a set of books. `Books`: every token's balances are its
  supply, which is within its maximum, and who has no row has nothing. `StakeKept` and `RexKept`:
  `eosio.stake` has exactly what is delegated and what is being refunded, `eosio.rex` exactly the
  funds and what the pool can lend, of which all shares together are the whole. `VKept`: the staking
  contract has at least what is staked of V (it may hold some to begin with). `Backed`: there is a legacy
  token for each of `core.vaulta`'s and a byte for each WRAM. Each action of the token contracts and
  of the system's tables has a lemma; a purchase or sale of shares is the one that needs
  arithmetic (`ShareWithin`). No overflow is possible either: `TypeCorrect` bounds every stake, fund
  and pool by the supply of the token behind it. From the books follow `CirculationIsElsewhere` and
  `AnswersAddUp`, by taking the one or two accounts that count separately out of a table (`AllBut`),
  and `NothingIsCountedTwice`: what voters hold of the legacy token and what three keepers have of it
  are disjoint parts of one table (`SomeAndThree`), the first two keepers cover stakes and REX, the
  third every A, and shares that are rounded down for each voter come to no more than the pool
  (`SharesWithin`).

Proved, and checked by no run of their own: `LaunchTypeOK`, and `VotesInv`, of which the run
`sentiment_votes` checks what `AnswersAreWhatWasSaid` shows of `RowsAreWhatWasSaid`.

Only model-checked: `ReadingsCorrect`, the text part of `KeysAsEncoded` (an induction over texts,
out of the provers' reach), and `AcceptedPaymentsComplete`, which is liveness under fairness.

## Not modelled

- `debug.cpp` of three contracts: compiled for tests, they empty the tables.
- `ctemplate`: one action that does nothing. Build scripts, generated client code.
- `native.hpp` and what the other system headers declare beyond the tables read: producers,
  finalizers, REX loans and orders, power-up, name bids. They are declarations of a contract
  whose code is not in the repository.
- The rounding of doubles in `ram.cpp` beyond 2^53; `chain_id` in `api`; memos and other texts,
  except where a memo carries a key; who pays for RAM, except in `tokens` and `gift`.

## Plan

1. `Registry`, `Escrow`, `Tokens`, `Gift` and their proofs: done.
2. `Sentiment`, `SentimentVotes`, with their proofs and the refinement of `Escrow`: done.
3. `Create` with `RamMarket` and `PublicKey`; the arithmetic of prices proved: done.
4. `Queries`: `Api` and `VoterMetrics` over `EosioToken` and `SystemTables`: done.
5. The RAM payers without reacting contracts, delivery, the account-creating transaction, the
   books behind the queries: proved.
6. The guard form of `AcceptedDistributionCompletes`, and exact delivery: proved.
7. `Launch`: `Registry` and `Tokens` composed, from payment to distribution, with its proofs: done.
