SPECIFICATION Spec
CONSTANTS
  alice = alice
  bob = bob
  eosio = eosio
  stake = stake
  rexacct = rexacct
  core = core
  eosiotoken = eosiotoken
  wram = wram
  vtoken = vtoken
  vstake = vstake
  nobody = nobody
  free = free
  MaxAmount = 3
  Accounts <- MCAccounts
  Tokens <- MCTokens
  Precisions = {0, 1}
  NoAccount = nobody
  Beginnings <- MCBeginnings
  System = eosio
  StakeAccount = stake
  RexAccount = rexacct
  Core = core
  WramContract = wram
  VStakeContract = vstake
  Legacy <- MCLegacy
  Vaulta <- MCVaulta
  Wram <- MCWram
  V <- MCV
  Users = {alice, bob}
  Wrappers = {alice}
  RexRatio = 3
  Names <- MCNames
  Msig = eosio
  ApiConfigs <- MCApiConfigs
  Records <- MCRecords
  NoRecord = NoRecord
  RamCore = "4,RAMCORE"
  Voters = {alice, bob}
  MetricsConfigs <- MCMetricsConfigs
  Plain <- MCPlain
INVARIANTS TypeOK CirculatingIsElsewhere AccountsAddUp NothingCountsTwice
CHECK_DEADLOCK FALSE
