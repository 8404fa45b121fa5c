SPECIFICATION Spec
CONSTANTS
  MaxAmount = 2
  Self = Self
  Registry = Registry
  NoAccount = NoAccount
  alice = alice
  bob = bob
  carol = carol
  forwarder = forwarder
  T1 = T1
  T2 = T2
  Accounts = {Self, Registry, alice, forwarder}
  Signers = {alice}
  Handlers = {}
  Forwarders = {forwarder}
  Tickers = {T1}
  MaxAllocations = 2
  MaxPending = 4
INVARIANTS
  TypeOK
  ContractsPayNoRam
  AcceptedDistributionCompletes
PROPERTIES
  AllocationsExact
