SPECIFICATION VotesSpec
CONSTANTS
  MaxAmount = 1
  Sentiment = Sentiment
  Ram = Ram
  NoAccount = NoAccount
  NoSymbol = NoSymbol
  NoVote = NoVote
  alice = alice
  bob = bob
  core = core
  A = A
  ghost = ghost
  Accounts = {Sentiment, Ram, alice, bob}
  Customers = {alice}
  FeeTokens <- Tokens
  SilentContracts = {}
  Actions = {"transfer"}
  PayingActions = {"transfer"}
  Topics = {"t"}
  Descriptions = {"d"}
  InitialCoins <- Coins
  Configs <- OneConfig
  Voters = {alice, bob}
  Subjects = {bob, ghost}
  Proposals <- SameName
  Counts = {1, 2}
INVARIANTS
  NoOrphanedVotes
  AnswersAreWhatWasSaid
PROPERTIES
  VotesHeld
