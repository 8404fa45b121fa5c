------------------------------ MODULE VoterMetrics ------------------------------
(******************************************************************************)
(* What the sentiment contract says a voter weighs (weights.cpp): sums over   *)
(* the system's tables and those of four tokens, valued when asked.           *)
(******************************************************************************)
EXTENDS SystemTables

CONSTANTS
  Voters,           \* the voters asked about
  MetricsConfigs    \* what the two configuring actions may set

MetricsRows == [system_contract : Accounts, system_token : Tokens, legacy_token : Tokens,
                wram_token : Tokens, v_token : Tokens, v_stake_contract : Accounts]

ASSUME MetricsAssumption ==
  /\ Voters \subseteq Users
  /\ MetricsConfigs \cup {b.metrics : b \in Beginnings} \subseteq MetricsRows

VARIABLE metrics        \* of the config singleton: system_contract and metrics

MetricsInit(beginning) == metrics = beginning.metrics

\* setmetriccfg, and setconfig as far as system_contract goes
SetMetricsConfig(new) == metrics' = new

----
FromSystem == metrics.system_contract = System

\* get_voter_weight: the voters table's stake, which is what the voter delegates.
VoterWeight(voter) ==
  IF FromSystem THEN Total(delegated[voter]) ELSE 0

PoolState == IF FromSystem THEN pool ELSE NoPool

\* Fault: shares are rounded up.
RexValueUp(p, voter) ==
  IF FromSystem /\ p.rex > 0
  THEN (shares[voter] * p.lendable + p.rex - 1) \div p.rex
  ELSE 0

\* A share of what the pool can lend, rounded down.
RexValue(p, voter) ==
  IF FromSystem /\ p.rex > 0 THEN (shares[voter] * p.lendable) \div p.rex ELSE 0

\* A row of the system token is read with the flag that core.vaulta adds to the
\* rows of its accounts table; a plain row of another token is too short for it.
Readable(voter) == HasRow(metrics.system_token, voter) => metrics.system_token = Vaulta

\* get_voter_metrics
Metrics(p, voter) ==
  [system_staked |-> (IF FromSystem THEN delegated[voter][voter] ELSE 0) + RexValue(p, voter),
   system_liquid |-> Held(metrics.system_token, voter) + Held(metrics.legacy_token, voter),
   ram_bytes     |-> (IF FromSystem THEN ram[voter] ELSE 0) + Held(metrics.wram_token, voter),
   v_staked      |-> IF metrics.v_stake_contract = VStakeContract
                     THEN staked[voter].amount + staked[voter].unstaking ELSE 0,
   v_liquid      |-> Held(metrics.v_token, voter)]

\* getmetrics: the pool is read once; refused as a whole if a row cannot be read.
AllMetrics(voters) ==
  IF \E voter \in voters : ~ Readable(voter) THEN {}
  ELSE {[voter \in voters |-> Metrics(PoolState, voter)]}

----
(* Properties. *)

\* The tokens are configured for what they are.
MetricsSound ==
  /\ metrics.system_token = Vaulta /\ metrics.legacy_token = Legacy
  /\ metrics.wram_token = Wram /\ metrics.v_token = V

\* Nobody's coins count for two voters, or twice for one: all voters together
\* weigh at most the supply of EOS (which A is swapped for, one for one), the
\* RAM there is and the supply of V, through any staking, lending, refunding
\* and wrapping, and with shares of REX rounded at every turn.
NothingCountsTwice ==
  \A voters \in SUBSET Voters : \A answer \in AllMetrics(voters) : MetricsSound =>
    /\ Total([v \in voters |-> answer[v].system_staked + answer[v].system_liquid])
         <= stats[Legacy].supply
    /\ Total([v \in voters |-> answer[v].ram_bytes]) <= Total(ram)
    /\ Total([v \in voters |-> answer[v].v_staked + answer[v].v_liquid])
         <= stats[V].supply
    /\ Total([v \in voters |-> VoterWeight(v)]) <= stats[Legacy].supply
================================================================================
