SPECIFICATION Spec
CONSTANTS
  MaxAmount = 2
  Sentiment = Sentiment
  Ram = Ram
  NoAccount = NoAccount
  NoSymbol = NoSymbol
  alice = alice
  bob = bob
  core = core
  other = other
  A = A
  B = B
  Accounts = {Sentiment, Ram, alice, bob}
  Customers = {alice, bob}
  FeeTokens <- CustodyTokens
  SilentContracts = {other}
  Actions = {"transfer", "transfer2", "notify"}
  PayingActions = {"transfer", "transfer2"}
  Topics = {"t"}
  Descriptions = {"d"}
  InitialCoins <- CustodyCoins
  Configs <- CustodyConfigs
INVARIANTS
  Inv
  ExactCustody
  Redeemable
PROPERTIES
  EscrowRefined
  TopicsPaidAndKept
  ClosedWhileDisabled
