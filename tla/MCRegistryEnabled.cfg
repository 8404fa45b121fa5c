SPECIFICATION Spec
CONSTANTS
  MaxAmount = 2
  Registry = Registry
  Ram = Ram
  NoAccount = NoAccount
  NoSymbol = NoSymbol
  Unset = Unset
  alice = alice
  bob = bob
  core = core
  other = other
  A = A
  B = B
  XYZ = XYZ
  LONG = LONG
  Accounts = {Registry, Ram, alice, bob}
  Customers = {alice, bob}
  FeeTokens <- FeeTokensHere
  InitialCoins <- Coins
  Configs <- ConfigsHere
  Tickers = {XYZ, LONG}
  TickerLength <- Lengths
  Precisions = {18, 19}
  Contracts = {core, NoAccount}
INVARIANTS
  EnabledOnlyWhenConfigured
