SPECIFICATION Spec
CONSTANTS
  MaxAmount = 4
  Self = Self
  NoAccount = NoAccount
  alice = alice
  new1 = new1
  new2 = new2
  Accounts = {Self, alice, new1, new2}
  Existing = {Self, alice}
  Creators = {alice}
  Others = {alice}
  Quotas = {2, 3}
  Sizes = {1}
  QUOTA_WINDOW_SECONDS = 2
  GIFT_ROW_OVERHEAD = 1
  ClockSize = 16
  Horizon = 3
SYMMETRY NewAccounts
INVARIANTS
  Inv
  UseCoversSpending
  DailyBound
PROPERTIES
  GiftsWithinQuota
  GiftsToNewAccounts
