---------------------------------- MODULE Api ----------------------------------
(******************************************************************************)
(* The api contract (contracts/api): queries that combine the tables of       *)
(* other contracts, and the configuration that says whose.  A query is an     *)
(* operator of the state; one that may be refused is the set of its answers.  *)
(* Amounts are answered in the configured system token, whatever the tables   *)
(* call it, so only the token contracts' own rows carry a precision.          *)
(******************************************************************************)
EXTENDS SystemTables, SequencesExt

CONSTANTS
  Names,            \* names asked about, accounts or not
  Msig,             \* the account of the multisig contract
  ApiConfigs,       \* what setconfig may be called with
  Records,          \* rows answered as they are: by table, of each name
  NoRecord,         \* a default-constructed row
  RamCore           \* the symbol of the RAM market's row

\* chain_id and the two symbols that no query uses are left out.
ConfigRows == [system : Accounts, msig : Accounts, contract : Accounts, code : STRING,
               precision : Precisions, ramcore : STRING, gifted : BOOLEAN]

AsIs == {"giftedram", "proposals", "voters", "abihash", "global", "rammarket", "powerup"}

ASSUME ApiAssumption ==
  /\ Accounts \subseteq Names /\ Msig \in Accounts
  /\ ApiConfigs \cup {b.api : b \in Beginnings} \subseteq ConfigRows
  /\ DOMAIN Records = AsIs /\ RamCore \in STRING
  /\ \A table \in AsIs : DOMAIN Records[table] = Names

VARIABLE apiConfig      \* the config singleton

ApiInit(beginning) == apiConfig = beginning.api

SetConfig(new) == apiConfig' = new

----
\* The tables of an account that is not the system contract are empty.
AtSystem == apiConfig.system = System

Id(def) == [contract |-> def.contract, code |-> def.code]

\* get_system_token_definition
SystemToken == [contract |-> apiConfig.contract, code |-> apiConfig.code,
                precision |-> apiConfig.precision]

\* A row of an accounts table, found by its code, with the row's own precision.
Found(def, account) ==
  [token |-> def, amount |-> Held(Id(def), account),
   precision |-> IF HasRow(Id(def), account) THEN stats[Id(def)].precision ELSE def.precision]

SystemTokenBalance(account) == Found(SystemToken, account)

RefundRequest(account) == IF AtSystem THEN refunds[account] ELSE 0

\* Fault: only what an account has staked to itself.
OwnBandwidth(account) ==
  { [to |-> b, amount |-> delegated[account][b]] :
      b \in {b \in Accounts : AtSystem /\ b = account /\ delegated[account][b] > 0} }

\* get_delegated_bandwidth: all rows of the account's scope
DelegatedBandwidth(account) ==
  { [to |-> b, amount |-> delegated[account][b]] :
      b \in {b \in Accounts : AtSystem /\ delegated[account][b] > 0} }

GiftedRam(account) ==
  IF apiConfig.gifted /\ AtSystem THEN Records["giftedram"][account] ELSE NoRecord

MsigProposals(account) ==
  IF apiConfig.msig = Msig THEN Records["proposals"][account] ELSE NoRecord

\* rex_system_initialized asks the account eosio, whatever the configuration says.
RexInitialized == pool.exists

RexBalance(account) == IF RexInitialized /\ AtSystem THEN shares[account] ELSE 0

RexFund(account) == IF RexInitialized /\ AtSystem THEN funds[account] ELSE 0

VoterInfo(account) == IF AtSystem THEN Records["voters"][account] ELSE NoRecord

ContractHash(account) == IF AtSystem THEN Records["abihash"][account] ELSE NoRecord

Global == IF AtSystem THEN Records["global"][System] ELSE NoRecord
\* get_rammarket: the row is found by the configured symbol.
RamMarket ==
  IF AtSystem /\ apiConfig.ramcore = RamCore THEN Records["rammarket"][System] ELSE NoRecord

Powerup == IF AtSystem THEN Records["powerup"][System] ELSE NoRecord

RexPool == IF AtSystem THEN [lendable |-> pool.lendable, rex |-> pool.rex]
           ELSE [lendable |-> 0, rex |-> 0]

\* get_balances
Balances(account, tokens, zerobalances) ==
  FlattenSeq([i \in DOMAIN tokens |->
    IF HasRow(Id(tokens[i]), account) \/ zerobalances
    THEN << Found(tokens[i], account) >>
    ELSE << >>])

Asked(tokens, systemtoken) == IF systemtoken THEN Append(tokens, SystemToken) ELSE tokens

Balance(account, tokens, zerobalances, systemtoken) ==
  Balances(account, Asked(tokens, systemtoken), zerobalances)

\* balances: the answers for each account, in turn
BalancesOf(accounts, tokens, zerobalances, systemtoken) ==
  [i \in DOMAIN accounts |-> Balances(accounts[i], Asked(tokens, systemtoken), zerobalances)]

Available(account) == account \notin Accounts

Account(account, tokens, zerobalances) ==
  IF Available(account) THEN {}
  ELSE {[account      |-> account,
         balance      |-> SystemTokenBalance(account),
         balances     |-> Balances(account, tokens, zerobalances),
         contracthash |-> ContractHash(account),
         delegations  |-> DelegatedBandwidth(account),
         giftedram    |-> GiftedRam(account),
         proposals    |-> MsigProposals(account),
         refund       |-> RefundRequest(account),
         rexbal       |-> RexBalance(account),
         rexfund      |-> RexFund(account),
         vote         |-> VoterInfo(account)]}

\* accounts: refused as a whole if one of them does not exist
AccountsInfo(accounts, tokens, zerobalances) ==
  IF \E i \in DOMAIN accounts : Available(accounts[i]) THEN {}
  ELSE {[i \in DOMAIN accounts |->
           CHOOSE answer \in Account(accounts[i], tokens, zerobalances) : TRUE]}

(* The distribution of a token. *)

\* Fault: the two accounts may be one.
LockedInBoth(def) ==
  Held(Id(def), apiConfig.system) + Held(Id(def), apiConfig.contract)

\* What the system's and the token's contract hold.
Locked(def) ==
  Held(Id(def), apiConfig.system)
    + (IF apiConfig.system # apiConfig.contract THEN Held(Id(def), apiConfig.contract) ELSE 0)

LockedRows(def) == {a \in {apiConfig.system, apiConfig.contract} : HasRow(Id(def), a)}

StatOf(def) == IF Id(def) \in Tokens THEN stats[Id(def)] ELSE NoStat

\* get_token_distribution: the sums are refused if the precision is not the token's.
Distribution(def) ==
  IF LockedRows(def) # {} /\ def.precision # StatOf(def).precision THEN {}
  ELSE {[supply      |-> StatOf(def).supply,
         max         |-> StatOf(def).max,
         locked      |-> Locked(def),
         circulating |-> StatOf(def).supply - Locked(def),
         staked      |-> RexPool.lendable]}

Network ==
  { [global |-> Global, ram |-> RamMarket, rex |-> RexPool, powerup |-> Powerup,
     token |-> SystemToken, distribution |-> distribution] :
      distribution \in Distribution(SystemToken) }

----
(* Properties. *)

\* The circulating supply that is answered for a token is what accounts other
\* than the system's and the token's contract hold, whether those are two
\* accounts or one, and at every moment of the token's life.
CirculatingIsElsewhere ==
  \A t \in Tokens : Exists(t) =>
    LET def == [contract |-> t.contract, code |-> t.code, precision |-> stats[t].precision]
        elsewhere == Accounts \ {apiConfig.system, apiConfig.contract}
    IN  \A answer \in Distribution(def) :
          answer.circulating = Total([a \in elsewhere |-> balances[t][a]])

\* What account answers of a legacy token is in one place only: balances,
\* stakes, refunds and REX funds of everybody but the accounts that hold stakes
\* and REX, and what the REX pool can lend, are together the supply.
Answered(answer) ==
  answer.balance.amount + answer.refund + answer.rexfund
    + Total([d \in answer.delegations |-> d.amount])

TheAnswer(account) == CHOOSE answer \in Account(account, <<>>, TRUE) : TRUE

AccountsAddUp ==
  AtSystem /\ Id(SystemToken) = Legacy =>
    Total([a \in Accounts \ {StakeAccount, RexAccount} |-> Answered(TheAnswer(a))])
      + RexPool.lendable = stats[Legacy].supply
================================================================================
