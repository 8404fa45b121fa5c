---------------------------------- MODULE Gift ----------------------------------
(******************************************************************************)
(* The gift contract (contracts/gift): registered creators gift the           *)
(* contract's RAM to accounts they create, within a quota per window of time, *)
(* through giftram of the system contract.                                    *)
(*                                                                            *)
(* giftacct looks at the transaction it runs in, so here a transaction is     *)
(* explicit: NextTransaction ends one and begins the next, and steps between  *)
(* two of those are actions of one transaction.  A transaction whose          *)
(* newaccount actions have run can always end there, so no roll-back is       *)
(* needed: what it did up to some point is what a shorter one does.           *)
(*                                                                            *)
(* Memos (of at most 256 bytes) are left out.                                 *)
(******************************************************************************)
EXTENDS AssetTotals

CONSTANTS
  Accounts,         \* every name that is or becomes an account
  Existing,         \* those that exist at first
  Creators,         \* names the administrator may register
  Self,             \* the account the contract is deployed to
  Others,           \* accounts that gift RAM of their own
  NoAccount,
  Quotas,           \* quotas the administrator may set
  Sizes,            \* bytes a creator may ask for
  QUOTA_WINDOW_SECONDS,
  GIFT_ROW_OVERHEAD,
  ClockSize,        \* seconds a time_point_sec can tell apart: 2^32
  Horizon           \* the last second considered

ASSUME GiftAssumption ==
  /\ IsFiniteSet(Accounts)
  /\ Existing \cup Creators \subseteq Accounts
  /\ Self \in Existing /\ Others \subseteq Existing \ {Self}
  /\ NoAccount \notin Accounts
  /\ Quotas \subseteq 1 .. MaxAmount /\ Sizes \subseteq Nat \ {0}
  /\ QUOTA_WINDOW_SECONDS \in Nat \ {0} /\ GIFT_ROW_OVERHEAD \in Nat
  /\ ClockSize \in Nat \ {0} /\ Horizon \in Nat

\* The sum of two uint32_t the contract computes does not wrap.  On the chain:
\* until the last day a time_point_sec can express, in February 2106.
ASSUME ClockAssumption == Horizon + QUOTA_WINDOW_SECONDS < ClockSize

VARIABLES
  creators,     \* the creators table
  now,          \* the time of the block
  exists,       \* accounts that exist
  before,       \* those of them that existed before this transaction
  trx,          \* the accounts newaccount actions of this transaction name
  gifted,       \* external: the system contract's giftedram table
  spent         \* history: RAM each creator cost the contract, by the second,
                \* since it was last added

vars == <<creators, now, exists, before, trx, gifted, spent>>

Seconds == 0 .. Horizon

NotRegistered == [daily_quota_bytes |-> 0]
Rows == [daily_quota_bytes : Quotas, used_bytes : Amounts, window_start : Seconds]

IsRegistered(creator) == creators[creator] # NotRegistered

NoGift == [gifter |-> NoAccount, ram_bytes |-> 0]
Nothing == [s \in Seconds |-> 0]

Init ==
  /\ creators = [c \in Creators |-> NotRegistered]
  /\ now = 0
  /\ exists = Existing
  /\ before = Existing
  /\ trx = {}
  /\ gifted = [a \in Accounts |-> NoGift]
  /\ spent = [c \in Creators |-> Nothing]

----
(* The chain. *)

\* The transaction commits, its newaccount actions having run, and another
\* begins, in the same block or a later one.
NextTransaction(created, time) ==
  /\ trx \subseteq exists
  /\ created \cap exists = {}
  /\ time >= now
  /\ now' = time
  /\ trx' = created
  /\ before' = exists
  /\ UNCHANGED <<creators, exists, gifted, spent>>

\* A newaccount action of the transaction, or one sent inline, which the list of
\* the transaction's actions does not have.
NewAccount(account) ==
  /\ account \notin exists
  /\ exists' = exists \cup {account}
  /\ UNCHANGED <<creators, now, before, trx, gifted, spent>>

\* giftram; MaxAmount bounds what one account can hold.
GiftRam(from, to, bytes) ==
  /\ bytes > 0
  /\ to \in exists
  /\ gifted[to].gifter \in {NoAccount, from}
  /\ gifted[to].ram_bytes + bytes <= MaxAmount
  /\ gifted' = [gifted EXCEPT ![to] = [gifter |-> from, ram_bytes |-> @.ram_bytes + bytes]]

\* RAM given by somebody else.
GiftByOther(from, to, bytes) ==
  /\ GiftRam(from, to, bytes)
  /\ UNCHANGED <<creators, now, exists, before, trx, spent>>

\* ungiftram: a giftee returns all it was gifted.
UngiftRam(from) ==
  /\ gifted[from] # NoGift
  /\ gifted' = [gifted EXCEPT ![from] = NoGift]
  /\ UNCHANGED <<creators, now, exists, before, trx, spent>>

\* What a gift costs the gifter: the bytes, and the row that records the first.
RamCost(to, bytes) == bytes + (IF gifted[to] = NoGift THEN GIFT_ROW_OVERHEAD ELSE 0)

----
(* The contract. *)

AddCreator(creator, quota) ==
  /\ creator \in exists
  /\ ~ IsRegistered(creator)
  /\ creators' = [creators EXCEPT ![creator] =
                    [daily_quota_bytes |-> quota, used_bytes |-> 0, window_start |-> now]]
  /\ spent' = [spent EXCEPT ![creator] = Nothing]
  /\ UNCHANGED <<now, exists, before, trx, gifted>>

RmCreator(creator) ==
  /\ IsRegistered(creator)
  /\ creators' = [creators EXCEPT ![creator] = NotRegistered]
  /\ spent' = [spent EXCEPT ![creator] = Nothing]
  /\ UNCHANGED <<now, exists, before, trx, gifted>>

SetQuota(creator, quota) ==
  /\ IsRegistered(creator)
  /\ creators' = [creators EXCEPT ![creator].daily_quota_bytes = quota]
  /\ UNCHANGED <<now, exists, before, trx, gifted, spent>>

\* Fault: any account that exists will do.
CreatedAtAnyTime(account) == TRUE

\* created_in_transaction: whoever creates it, wherever in the transaction.
CreatedInTransaction(account) == account \in trx

\* Fault: a renewed window keeps its old start.
WindowInPlace(row) ==
  IF now >= (row.window_start + QUOTA_WINDOW_SECONDS) % ClockSize
  THEN [row EXCEPT !.used_bytes = 0]
  ELSE row

\* The row with the window that now belongs to, and its use so far.
Window(row) ==
  IF now >= (row.window_start + QUOTA_WINDOW_SECONDS) % ClockSize
  THEN [row EXCEPT !.used_bytes = 0, !.window_start = now]
  ELSE row

\* Fault: a forgotten check.
InQuotaAlways(row, bytes) == TRUE

\* Fault: the cost of the system contract's row is not checked.
InQuotaWithoutRow(row, bytes) ==
  bytes <= row.daily_quota_bytes - row.used_bytes

InQuota(row, bytes) ==
  LET remaining == row.daily_quota_bytes - row.used_bytes IN
    /\ remaining >= GIFT_ROW_OVERHEAD
    /\ bytes <= remaining - GIFT_ROW_OVERHEAD

\* Fault: the cost of the system contract's row is not charged.
ChargeBytes(row, bytes) == [row EXCEPT !.used_bytes = @ + bytes]

\* Every gift is charged a row, also one added to an earlier gift.
Charge(row, bytes) == [row EXCEPT !.used_bytes = @ + bytes + GIFT_ROW_OVERHEAD]

GiftAcct(creator, account, bytes) ==
  /\ IsRegistered(creator)
  /\ LET row == Window(creators[creator]) IN
       /\ InQuota(row, bytes)
       /\ creators' = [creators EXCEPT ![creator] = Charge(row, bytes)]
  /\ CreatedInTransaction(account)
  /\ GiftRam(Self, account, bytes)
  /\ spent' = [spent EXCEPT ![creator] = Credit(@, now, RamCost(account, bytes))]
  /\ UNCHANGED <<now, exists, before, trx>>

----
ChainNext ==
  \/ \E created \in SUBSET (Accounts \ exists), time \in Seconds : NextTransaction(created, time)
  \/ \E a \in Accounts :
       \/ NewAccount(a)
       \/ UngiftRam(a)
       \/ \E other \in Others, bytes \in Sizes : GiftByOther(other, a, bytes)

GiftNext ==
  \E c \in Creators :
    \/ RmCreator(c)
    \/ \E quota \in Quotas : AddCreator(c, quota) \/ SetQuota(c, quota)
    \/ \E a \in Accounts, bytes \in Sizes : GiftAcct(c, a, bytes)

Next == ChainNext \/ GiftNext

Spec == Init /\ [][Next]_vars

----
(* Properties. *)

TypeOK ==
  /\ creators \in [Creators -> Rows \cup {NotRegistered}]
  /\ now \in Seconds
  /\ exists \subseteq Accounts /\ before \subseteq exists
  /\ trx \subseteq Accounts
  /\ gifted \in [Accounts -> [gifter : Accounts \cup {NoAccount}, ram_bytes : Amounts]]
  /\ spent \in [Creators -> [Seconds -> Amounts]]

\* What a creator has cost the contract from one second up to before another.
Span(first, end) == {s \in Seconds : first <= s /\ s < end}
SpentIn(creator, first, end) == Total(Restrict(spent[creator], Span(first, end)))

\* The RAM a creator costs the contract in its current window is covered by what
\* the row says it used, whatever it is spent on and whoever returns a gift.
UseCoversSpending ==
  \A c \in Creators : IsRegistered(c) =>
    SpentIn(c, creators[c].window_start, Horizon + 1) <= creators[c].used_bytes

\* No gift takes the RAM spent in its window over the quota of that moment, also
\* after the quota was lowered below what had been used.
GiftsWithinQuota ==
  [][\A c \in Creators :
       (IsRegistered(c) /\ IsRegistered(c)' /\ spent'[c] # spent[c]) =>
         SpentIn(c, creators[c].window_start, Horizon + 1)' <= creators[c].daily_quota_bytes]_vars

BoundsQuotas(bound) == \A quota \in Quotas : quota <= bound

\* Windows start with the first gift after the last one ended, so no span as long
\* as a window, wherever it starts, sees more than twice the largest quota.
DailyBound ==
  \A c \in Creators, first \in Seconds, bound \in Amounts :
    BoundsQuotas(bound) => SpentIn(c, first, first + QUOTA_WINDOW_SECONDS) <= 2 * bound

\* The contract's RAM goes to accounts in the transaction that creates them, and
\* nobody else's gift is added to: giving to an account later is impossible.
GiftsToNewAccounts ==
  [][\A a \in Accounts :
       (gifted'[a].gifter = Self /\ gifted'[a] # gifted[a]) =>
         /\ a \in exists \ before
         /\ gifted[a].gifter \in {NoAccount, Self}]_vars

\* Windows are not ahead of time, and nothing is spent past a window's end
\* without renewing it.
WindowsOpen ==
  \A c \in Creators : IsRegistered(c) =>
    /\ creators[c].window_start <= now
    /\ \A s \in Seconds :
         (s > now \/ s >= creators[c].window_start + QUOTA_WINDOW_SECONDS) => spent[c][s] = 0

\* Use stays within the largest quota, and so does all that was spent in the
\* last stretch before the current window: it falls into one earlier window.
UseBounded ==
  \A c \in Creators, bound \in Amounts : (IsRegistered(c) /\ BoundsQuotas(bound)) =>
    LET start == creators[c].window_start IN
      /\ creators[c].used_bytes <= bound
      /\ SpentIn(c, start - QUOTA_WINDOW_SECONDS, start) <= bound

\* The inductive invariant behind the properties.
Inv ==
  /\ TypeOK
  /\ WindowsOpen
  /\ UseCoversSpending
  /\ UseBounded
  /\ DailyBound
  /\ trx \cap before = {}

================================================================================
