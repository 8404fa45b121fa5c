------------------------------ MODULE SystemTables ------------------------------
(******************************************************************************)
(* external: the tables of the system contract and of the two contracts that  *)
(* wrap RAM and keep staked V, as far as api and sentiment read them, and the *)
(* token balances behind them.  Staking moves tokens to an account of the     *)
(* system's and records whose they are; the questions asked of the api and of *)
(* sentiment are whether the records add up.                                  *)
(******************************************************************************)
EXTENDS EosioToken

CONSTANTS
  System,           \* the account of the system contract
  StakeAccount,     \* eosio.stake, holds what is staked and being refunded
  RexAccount,       \* eosio.rex, holds what is in REX
  Core,             \* core.vaulta: holds legacy tokens, one for each of its own
  WramContract,     \* holds the RAM behind wrapped RAM, issues the latter
  VStakeContract,   \* holds staked V
  Legacy, Vaulta, Wram, V,      \* the tokens: EOS, A, WRAM and V
  Users,            \* accounts that stake, wrap and lend
  Wrappers,         \* those of them that hold RAM and V
  RexRatio          \* REX shares for the first token lent

ASSUME SystemAssumption ==
  /\ {System, StakeAccount, RexAccount, Core, WramContract, VStakeContract} \cup Users
       \subseteq Accounts
  /\ Users \cap {System, StakeAccount, RexAccount, Core, WramContract, VStakeContract} = {}
  /\ Wrappers \subseteq Users
  /\ StakeAccount # RexAccount /\ Core \notin {StakeAccount, RexAccount}
  /\ {Legacy, Vaulta, Wram, V} \subseteq Tokens
  /\ Legacy \notin {Vaulta, Wram, V} /\ Vaulta \notin {Wram, V} /\ Wram # V
  /\ RexRatio \in Nat \ {0}
  /\ \A b \in Beginnings :
       /\ b.ram \in [Accounts -> Nat]
       \* Nothing is staked or in REX yet, and what is wrapped is there.
       /\ b.balances[Legacy][StakeAccount] = 0 /\ b.balances[Legacy][RexAccount] = 0
       /\ b.stats[Vaulta].supply <= b.balances[Legacy][Core]
       /\ b.stats[Wram].supply <= b.ram[WramContract]

VARIABLES
  delegated,        \* delband, by delegator and recipient (net and cpu together)
  refunds,          \* refunds, by owner
  pool,             \* rexpool: total_lendable and total_rex, once it is there
  funds,            \* rexfund, by owner
  shares,           \* rexbal, by owner
  ram,              \* userres: bytes owned
  staked            \* the V staking contract's table: amount and unstaking_amount

\* The rows of the tables, by their names in the system contract's header.
DelegatedBandwidths == [Accounts -> [Accounts -> Amounts]]
RefundRequests == [Accounts -> Amounts]
RexPools == [exists : BOOLEAN, lendable : Amounts, rex : Nat]
RexFunds == [Accounts -> Amounts]
RexBalances == [Accounts -> Nat]
UserResources == [Accounts -> Nat]

systemVars == <<delegated, refunds, pool, funds, shares, ram, staked>>
chainVars == <<tokenVars, systemVars>>

NoPool == [exists |-> FALSE, lendable |-> 0, rex |-> 0]

SystemInit(beginning) ==
  /\ TokenInit(beginning)
  /\ delegated = [a \in Accounts |-> [b \in Accounts |-> 0]]
  /\ refunds = [a \in Accounts |-> 0]
  /\ pool = NoPool
  /\ funds = [a \in Accounts |-> 0]
  /\ shares = [a \in Accounts |-> 0]
  /\ ram = beginning.ram
  /\ staked = [a \in Accounts |-> [amount |-> 0, unstaking |-> 0]]

----
(* Bandwidth. *)

Delegate(from, to, q) ==
  /\ Move(Legacy, from, StakeAccount, q)
  /\ delegated' = [delegated EXCEPT ![from][to] = @ + q]
  /\ UNCHANGED <<refunds, pool, funds, shares, ram, staked>>

Undelegate(from, to, q) ==
  /\ delegated[from][to] >= q
  /\ delegated' = [delegated EXCEPT ![from][to] = @ - q]
  /\ refunds' = [refunds EXCEPT ![from] = @ + q]
  /\ UNCHANGED <<tokenVars, pool, funds, shares, ram, staked>>

ClaimRefund(owner) ==
  /\ Move(Legacy, StakeAccount, owner, refunds[owner])
  /\ refunds' = [refunds EXCEPT ![owner] = 0]
  /\ UNCHANGED <<delegated, pool, funds, shares, ram, staked>>

(* REX: the first deposit brings the pool about; a share is worth what the pool *)
(* can lend divided by all shares.                                              *)

DepositRex(owner, q) ==
  /\ Move(Legacy, owner, RexAccount, q)
  /\ funds' = [funds EXCEPT ![owner] = @ + q]
  /\ pool' = [pool EXCEPT !.exists = TRUE]
  /\ UNCHANGED <<delegated, refunds, shares, ram, staked>>

WithdrawRex(owner, q) ==
  /\ funds[owner] >= q
  /\ Move(Legacy, RexAccount, owner, q)
  /\ funds' = [funds EXCEPT ![owner] = @ - q]
  /\ UNCHANGED <<delegated, refunds, pool, shares, ram, staked>>

BuyRex(owner, q) ==
  LET rex == IF pool.rex = 0 THEN q * RexRatio ELSE (q * pool.rex) \div pool.lendable IN
  /\ funds[owner] >= q /\ rex > 0
  /\ pool.rex # 0 => pool.lendable > 0
  /\ funds' = [funds EXCEPT ![owner] = @ - q]
  /\ pool' = [pool EXCEPT !.lendable = @ + q, !.rex = @ + rex]
  /\ shares' = [shares EXCEPT ![owner] = @ + rex]
  /\ UNCHANGED <<tokenVars, delegated, refunds, ram, staked>>

SellRex(owner, rex) ==
  LET q == (rex * pool.lendable) \div pool.rex IN
  /\ shares[owner] >= rex /\ q > 0
  /\ shares' = [shares EXCEPT ![owner] = @ - rex]
  /\ pool' = [pool EXCEPT !.lendable = @ - q, !.rex = @ - rex]
  /\ funds' = [funds EXCEPT ![owner] = @ + q]
  /\ UNCHANGED <<tokenVars, delegated, refunds, ram, staked>>

\* Rent and other proceeds are lent as well.
RentRex(payer, q) ==
  /\ pool.rex > 0
  /\ Move(Legacy, payer, RexAccount, q)
  /\ pool' = [pool EXCEPT !.lendable = @ + q]
  /\ UNCHANGED <<delegated, refunds, funds, shares, ram, staked>>

(* What is wrapped: held by a contract that issues as much of its own token. *)

\* Legacy tokens for Vaulta's, out of what core.vaulta holds.
SwapCore(owner, q) ==
  /\ CanSub(Legacy, owner, q)
  /\ q <= stats[Vaulta].max - stats[Vaulta].supply
  /\ stats' = [stats EXCEPT ![Vaulta].supply = @ + q]
  /\ balances' = [balances EXCEPT ![Legacy] = Credit(Debit(@, owner, q), Core, q),
                                  ![Vaulta] = Credit(@, owner, q)]
  /\ rows' = [rows EXCEPT ![Legacy] = @ \cup {Core}, ![Vaulta] = @ \cup {owner}]
  /\ UNCHANGED systemVars

WrapRam(owner, q) ==
  /\ ram[owner] >= q
  /\ ram' = [ram EXCEPT ![owner] = @ - q, ![WramContract] = @ + q]
  /\ q <= stats[Wram].max - stats[Wram].supply
  /\ stats' = [stats EXCEPT ![Wram].supply = @ + q]
  /\ balances' = [balances EXCEPT ![Wram] = Credit(@, owner, q)]
  /\ rows' = [rows EXCEPT ![Wram] = @ \cup {owner}]
  /\ UNCHANGED <<delegated, refunds, pool, funds, shares, staked>>

(* V. *)

StakeV(owner, q) ==
  /\ Move(V, owner, VStakeContract, q)
  /\ staked' = [staked EXCEPT ![owner].amount = @ + q]
  /\ UNCHANGED <<delegated, refunds, pool, funds, shares, ram>>

UnstakeV(owner, q) ==
  /\ staked[owner].amount >= q
  /\ staked' = [staked EXCEPT ![owner].amount = @ - q, ![owner].unstaking = @ + q]
  /\ UNCHANGED <<tokenVars, delegated, refunds, pool, funds, shares, ram>>

ClaimV(owner) ==
  /\ Move(V, VStakeContract, owner, staked[owner].unstaking)
  /\ staked' = [staked EXCEPT ![owner].unstaking = 0]
  /\ UNCHANGED <<delegated, refunds, pool, funds, shares, ram>>

----
SystemNext ==
  \/ \E owner \in Users, q \in Amounts \ {0} :
       \/ \E to \in Users : Delegate(owner, to, q) \/ Undelegate(owner, to, q)
       \/ DepositRex(owner, q) \/ WithdrawRex(owner, q) \/ BuyRex(owner, q)
       \/ RentRex(owner, q)
       \/ SwapCore(owner, q)
  \/ \E owner \in Users : ClaimRefund(owner) \/ \E rex \in 1 .. shares[owner] : SellRex(owner, rex)
  \/ \E owner \in Wrappers :
       \/ \E q \in Amounts \ {0} : WrapRam(owner, q) \/ StakeV(owner, q) \/ UnstakeV(owner, q)
       \/ ClaimV(owner)
================================================================================
