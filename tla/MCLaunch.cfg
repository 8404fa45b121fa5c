SPECIFICATION LaunchSpec
CONSTANTS
  MaxAmount = 1
  Self = Self
  Registry = Registry
  Ram = Ram
  NoAccount = NoAccount
  NoSymbol = NoSymbol
  Unset = Unset
  alice = alice
  core = core
  other = other
  A = A
  XYZ = XYZ
  Accounts = {Self, Registry, Ram, alice}
  Signers = {alice}
  Handlers = {}
  Forwarders = {}
  Tickers = {XYZ}
  MaxAllocations = 1
  MaxPending = 2
  FeeTokens <- FeeTokensHere
  InitialCoins <- LaunchCoins
  Configs <- LaunchConfigs
  TickerLength <- Lengths
  Precisions = {4}
  Customers = {alice, Self}
  Whitelist = {Self, other}
INVARIANTS
  LaunchedAsRegistered
PROPERTIES
  LaunchedSupplyIsFinal
  HeldUntilDistributed
