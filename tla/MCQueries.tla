-------------------------------- MODULE MCQueries --------------------------------
(* A small instance of Queries: two accounts that stake and lend, one of which *)
(* also wraps RAM and holds V, which is created while the system runs.         *)
EXTENDS Queries

CONSTANTS alice, bob, eosio, stake, rexacct, core, eosiotoken, wram, vtoken, vstake, nobody, free

MCAccounts == {alice, bob, eosio, stake, rexacct, core, eosiotoken, wram, vtoken, vstake}
MCLegacy == [contract |-> eosiotoken, code |-> "EOS"]
MCVaulta == [contract |-> core, code |-> "A"]
MCWram == [contract |-> wram, code |-> "WRAM"]
MCV == [contract |-> vtoken, code |-> "V"]
MCTokens == {MCLegacy, MCVaulta, MCWram, MCV}

Amount(a, b) ==
  [t \in MCTokens |-> [x \in MCAccounts |->
     IF t # MCLegacy THEN 0 ELSE IF x = alice THEN a ELSE IF x = bob THEN b ELSE 0]]

StatsWith(legacy, v) ==
  [t \in MCTokens |->
     CASE t = MCLegacy -> [issuer |-> eosio, precision |-> 1, supply |-> legacy, max |-> 3]
       [] t = MCVaulta -> [issuer |-> core, precision |-> 1, supply |-> 0, max |-> 1]
       [] t = MCWram   -> [issuer |-> wram, precision |-> 0, supply |-> 0, max |-> 1]
       [] OTHER        -> v]

RamOf(bytes) == [a \in MCAccounts |-> IF a = alice THEN bytes ELSE 0]

ApiConfig(system, token, precision) ==
  [system |-> system, msig |-> eosio, contract |-> token.contract, code |-> token.code,
   precision |-> precision, ramcore |-> RamCore, gifted |-> FALSE]

MetricsConfig(token) ==
  [system_contract |-> eosio, system_token |-> token, legacy_token |-> MCLegacy,
   wram_token |-> MCWram, v_token |-> MCV, v_stake_contract |-> vstake]

VIssued == [issuer |-> vtoken, precision |-> 0, supply |-> 0, max |-> 1]

\* Staking and lending, with nothing of V and no RAM; V and RAM, with no EOS to
\* stake; and the defaults, with metrics that take EOS for A.
MCBeginnings ==
  { [stats |-> StatsWith(3, VIssued), balances |-> Amount(2, 1), ram |-> RamOf(0),
     api |-> ApiConfig(eosio, MCLegacy, 1), metrics |-> MetricsConfig(MCVaulta)],
    [stats |-> StatsWith(0, NoStat), balances |-> Amount(0, 0), ram |-> RamOf(1),
     api |-> ApiConfig(eosio, MCVaulta, 1), metrics |-> MetricsConfig(MCVaulta)],
    [stats |-> StatsWith(1, VIssued), balances |-> Amount(1, 0), ram |-> RamOf(0),
     api |-> ApiConfig(eosio, MCVaulta, 1), metrics |-> MetricsConfig(MCLegacy)] }

MCApiConfigs == {[ApiConfig(vtoken, MCV, 1) EXCEPT !.ramcore = "0,NONE"]}
MCMetricsConfigs == {MetricsConfig(MCVaulta)}

MCPlain == {MCV}

MCNames == MCAccounts \cup {free}
MCRecords == [table \in AsIs |-> [n \in MCNames |-> <<table, n>>]]
================================================================================
