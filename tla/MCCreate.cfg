SPECIFICATION FairSpec
CONSTANTS
  KeyLength = 1
  SumLength = 2
  Checksum <- SmallChecksum
  alice = alice
  bot = bot
  first = first
  second = second
  dotted = dotted
  Create = Create
  Ram = Ram
  Proxy = Proxy
  NoName = NoName
  NoDeal = NoDeal
  Accounts = {Create, Ram, Proxy, alice, bot}
  Contracts = {Proxy, fake}
  Payers = {alice, bot}
  Reactive = {bot}
  Names = {first, second, dotted}
  Creatable = {first, second}
  Texts <- SmallTexts
  SentTexts <- SmallSent
  KnownKeys <- SmallKeys
  BytesForCreation = 4
  Usage = 3
  Markets <- SmallMarkets
  Rooms = {0, 1}
  Quantities = {3, 4}
  InitialCoins <- SmallCoins
INVARIANTS
  TypeOK
  NothingKept
  DealsAreFair
  KeysAsEncoded
PROPERTIES
  AcceptedPaymentsComplete
