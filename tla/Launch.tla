--------------------------------- MODULE Launch ---------------------------------
(******************************************************************************)
(* The launch of a token: the tokens contract with the registry it reads.     *)
(*                                                                            *)
(* The two share one table.  setsupply and distribute look a ticker up in the *)
(* registry's tokens table, which the registry's own actions change between   *)
(* the tokens contract's transactions.  Registry keeps the table as rows, and *)
(* registered is what get_token makes of it.                                  *)
(******************************************************************************)
EXTENDS Tokens

CONSTANTS
  Ram, NoSymbol, FeeTokens, TickerLength, Precisions, Unset, InitialCoins, Configs,
  Customers,        \* accounts that sign actions of the registry, or are named creators
  Whitelist         \* names the administrator may whitelist

VARIABLES
  config, opened, ledger, rowSymbol, rows, contracts, coins, unowned, retokened,
  origin,           \* history: the row under which a ticker's supply was set
  removed           \* history: tickers whose row was removed since

R == INSTANCE Registry WITH registered <- rows, Contracts <- Whitelist

registryVars == <<config, opened, ledger, rowSymbol, rows, contracts, coins, unowned, retokened>>
launchVars == <<vars, registryVars, origin, removed>>

\* The registry's key signs its administrative actions only, and the empty
\* optional is no account's name.
ASSUME LaunchAssumption ==
  /\ Registry \notin Signers \cup Handlers
  /\ Customers \subseteq Accounts
  /\ Precisions \subseteq Nat
  /\ Unset \notin Accounts

\* Fault: a ticker that is bound to no contract yet taken for this contract's.
FoundUnbound(row) ==
  IF row = R!Unregistered THEN Unregistered
  ELSE [creator |-> row.creator,
        contract |-> IF row.contract \in {Self, Unset} THEN Self ELSE NoAccount]

\* get_token, as far as a caller compares what it found: whose the ticker is, and
\* whether it is registered to this contract.
Found(row) ==
  IF row = R!Unregistered THEN Unregistered
  ELSE [creator |-> row.creator,
        contract |-> IF row.contract = Self THEN Self ELSE NoAccount]

HasOrigin(t) == origin[t] # R!Unregistered

LaunchInit ==
  /\ Init /\ R!Init
  /\ origin = [t \in Tickers |-> R!Unregistered]
  /\ removed = {}

\* An action of the registry, between transactions of the tokens contract.
RegistryStep ==
  /\ Idle
  /\ R!Next
  /\ registered' = [t \in Tickers |-> Found(rows'[t])]
  /\ removed' = removed \cup {t \in Tickers : HasOrigin(t) /\ rows'[t] = R!Unregistered}
  /\ UNCHANGED <<tokens, committed, todo, tokenRegistry, forwards, launch, origin>>

\* The first supply of a ticker that a transaction leaves was set by setsupply.
TokensStep ==
  /\ UNCHANGED registryVars /\ UNCHANGED <<registered, removed>>
  /\ Next
  /\ origin' = [t \in Tickers |->
                  IF committed[t].maxSupply = 0 /\ committed'[t].supply > 0 THEN rows[t]
                  ELSE origin[t]]

LaunchNext == RegistryStep \/ TokensStep

LaunchSpec == LaunchInit /\ [][LaunchNext]_launchVars

----
(* Properties. *)

LaunchTypeOK ==
  /\ TypeOK
  /\ rows \in [Tickers -> R!TokenRows \cup {R!Unregistered}]
  /\ registered = [t \in Tickers |-> Found(rows[t])]
  /\ origin \in [Tickers -> R!TokenRows \cup {R!Unregistered}]
  /\ removed \subseteq Tickers

\* Unless the administrator removed its row, a token whose supply has been set is
\* still registered as it was then: to this contract, to the same creator and with
\* the precision the supply was set in.
LaunchedAsRegistered ==
  \A t \in Tickers : HasOrigin(t) =>
    /\ origin[t].contract = Self
    /\ t \notin removed => rows[t] = origin[t]

\* The supply that the creator of a registered token sets is final: nobody ever
\* issues, retires or reopens it, whoever the registration passes to.
LaunchedSupplyIsFinal ==
  [][\A t \in Tickers : HasOrigin(t) =>
       /\ committed[t].supply = committed[t].maxSupply
       /\ committed'[t].supply = committed[t].supply
       /\ committed'[t].maxSupply = committed[t].maxSupply]_launchVars

\* What the tokens contract holds of a token leaves it only in a distribution, all
\* at once, and of a ticker that is then registered to the contract.
HeldUntilDistributed ==
  [][\A t \in Tickers : committed'[t].balance[Self] < committed[t].balance[Self] =>
       /\ launch # NoLaunch /\ launch.ticker = t
       /\ rows[t] # R!Unregistered /\ rows[t].contract = Self
       /\ committed'[t].balance[Self] = 0]_launchVars

================================================================================
