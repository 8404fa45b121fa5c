------------------------------- MODULE GiftProofs -------------------------------
(******************************************************************************)
(* Proofs about the gift contract, for any accounts, quotas, window and clock *)
(* within ClockAssumption: what a creator costs the contract is within the    *)
(* quota in each window, and within twice the largest quota in any span as    *)
(* long as a window; and gifts go to accounts as they are created.            *)
(******************************************************************************)
EXTENDS Gift, AssetTotalsProofs

----
(* Spending within a span of time. *)

\* A table of amounts by the second, summed over a span.
In(f, first, end) == Total(Restrict(f, Span(first, end)))

LEMMA SpanType ==
  ASSUME NEW first, NEW end
  PROVE  Span(first, end) \in SUBSET Seconds /\ IsFiniteSet(Seconds)
         /\ IsFiniteSet(Span(first, end))
<1>1. IsFiniteSet(Seconds)
  BY GiftAssumption, FS_Interval DEF Seconds
<1>2. Span(first, end) \in SUBSET Seconds
  BY DEF Span
<1> QED
  BY <1>1, <1>2, FS_Subset

LEMMA InType ==
  ASSUME NEW f \in [Seconds -> Amounts], NEW first, NEW end
  PROVE  In(f, first, end) \in Nat
<1>1. Restrict(f, Span(first, end)) \in [Span(first, end) -> Amounts]
  BY SpanType DEF Restrict
<1> QED
  BY <1>1, SpanType, TotalType DEF In

\* A span within another sees no more.
LEMMA InMonotone ==
  ASSUME NEW f \in [Seconds -> Amounts],
         NEW first, NEW end, NEW first2, NEW end2,
         Span(first, end) \subseteq Span(first2, end2)
  PROVE  In(f, first, end) <= In(f, first2, end2)
<1> DEFINE wide == Span(first2, end2)
           g == Restrict(f, wide)
<1>1. g \in [wide -> Amounts] /\ IsFiniteSet(wide)
  BY SpanType DEF Restrict
<1>2. Restrict(f, Span(first, end)) = Restrict(g, Span(first, end))
  BY DEF Restrict
<1> HIDE DEF g, wide
<1>3. Span(first, end) \in SUBSET wide
  BY DEF wide
<1>4. Total(Restrict(g, Span(first, end))) <= Total(g)
  BY <1>1, <1>3, TotalPart
<1> QED
  BY <1>2, <1>4 DEF In, g, wide

\* Two adjacent spans see together what the whole sees.
LEMMA InSplit ==
  ASSUME NEW f \in [Seconds -> Amounts],
         NEW first \in Int, NEW mid \in Int, NEW end \in Int, first <= mid, mid <= end
  PROVE  In(f, first, end) = In(f, first, mid) + In(f, mid, end)
<1> DEFINE A == Span(first, mid)
           B == Span(mid, end)
           g == Restrict(f, A \cup B)
<1>1. IsFiniteSet(A) /\ IsFiniteSet(B) /\ A \in SUBSET Seconds /\ B \in SUBSET Seconds
  BY SpanType
<1>2. A \cap B = {} /\ Span(first, end) = A \cup B
  BY GiftAssumption DEF Span, Seconds
<1> HIDE DEF A, B
<1>3. g \in [A \cup B -> Amounts]
  BY <1>1 DEF Restrict
<1>4. Restrict(g, A) = Restrict(f, A) /\ Restrict(g, B) = Restrict(f, B)
  BY DEF Restrict
<1> HIDE DEF g
<1>5. Total(g) = Total(Restrict(g, A)) + Total(Restrict(g, B))
  BY <1>1, <1>2, <1>3, TotalSplit
<1> QED
  BY <1>2, <1>4, <1>5 DEF In, A, B, g

\* A span in which nothing was spent.
LEMMA InZero ==
  ASSUME NEW f, NEW first, NEW end, \A s \in Span(first, end) : f[s] = 0
  PROVE  In(f, first, end) = 0
<1>1. Restrict(f, Span(first, end)) = [s \in Span(first, end) |-> 0]
  BY DEF Restrict
<1> QED
  BY <1>1, TotalZero DEF In

\* One second's spending is within that of a span it belongs to.
LEMMA InEntry ==
  ASSUME NEW f \in [Seconds -> Amounts], NEW first, NEW end, NEW s \in Span(first, end)
  PROVE  f[s] <= In(f, first, end)
<1>1. Restrict(f, Span(first, end)) \in [Span(first, end) -> Amounts]
  BY SpanType DEF Restrict
<1>2. Restrict(f, Span(first, end))[s] = f[s]
  BY DEF Restrict
<1> QED
  BY <1>1, <1>2, SpanType, TotalBoundsEntry DEF In

\* Spending q more in one second counts in the spans that have the second.
LEMMA InCredit ==
  ASSUME NEW f \in [Seconds -> Amounts], NEW s \in Seconds,
         NEW q \in Nat, f[s] + q <= MaxAmount, NEW first, NEW end
  PROVE  /\ Credit(f, s, q) \in [Seconds -> Amounts]
         /\ s \in Span(first, end) => In(Credit(f, s, q), first, end) = In(f, first, end) + q
         /\ s \notin Span(first, end) => In(Credit(f, s, q), first, end) = In(f, first, end)
<1> DEFINE A == Span(first, end)
           g == Restrict(f, A)
<1>1. A \in SUBSET Seconds /\ IsFiniteSet(A) /\ IsFiniteSet(Seconds)
  BY SpanType
<1>2. Credit(f, s, q) \in [Seconds -> Amounts]
  BY <1>1, TotalCredit
<1> HIDE DEF A
<1>3. g \in [A -> Amounts]
  BY <1>1 DEF Restrict
<1>4. CASE s \in A
  <2>1. g[s] = f[s]
    BY <1>4 DEF Restrict
  <2>2. Total(Credit(g, s, q)) = Total(g) + q
    <3> HIDE DEF g
    <3> QED
      BY <1>1, <1>3, <1>4, <2>1, TotalCredit
  <2>3. Restrict(Credit(f, s, q), A) = Credit(g, s, q)
    BY <1>1, <1>4 DEF Restrict, Credit
  <2> QED
    BY <1>2, <1>4, <2>2, <2>3 DEF In, A
<1>5. CASE s \notin A
  <2>1. Restrict(Credit(f, s, q), A) = g
    BY <1>1, <1>5 DEF Restrict, Credit
  <2> QED
    BY <1>2, <1>5, <2>1 DEF In, A
<1> QED
  BY <1>4, <1>5

----
(* One creator's row and spending. *)

\* The parts of Inv about one registered creator ...
Covered(row, f, time) ==
  LET start == row.window_start IN
    /\ start <= time
    /\ \A s \in Seconds : (s > time \/ s >= start + QUOTA_WINDOW_SECONDS) => f[s] = 0
    /\ In(f, start, Horizon + 1) <= row.used_bytes
    /\ \A bound \in Amounts : BoundsQuotas(bound) =>
         row.used_bytes <= bound /\ In(f, start - QUOTA_WINDOW_SECONDS, start) <= bound

\* ... and about any.
Daily(f) ==
  \A first \in Seconds, bound \in Amounts :
    BoundsQuotas(bound) => In(f, first, first + QUOTA_WINDOW_SECONDS) <= 2 * bound

CreatorsOK == \A c \in Creators :
  (IsRegistered(c) => Covered(creators[c], spent[c], now)) /\ Daily(spent[c])

\* The parts, creator by creator, are the invariant's.
LEMMA InvByCreator ==
  /\ Inv <=> (TypeOK /\ CreatorsOK /\ trx \cap before = {})
  /\ Inv' <=> (TypeOK' /\ CreatorsOK' /\ (trx \cap before = {})')
BY DEF Inv, WindowsOpen, UseCoversSpending, UseBounded, DailyBound, CreatorsOK, Covered, Daily,
       SpentIn, In

\* A creator that has spent nothing.
LEMMA NothingOK ==
  /\ Nothing \in [Seconds -> Amounts]
  /\ Daily(Nothing)
  /\ \A quota \in Quotas, time \in Seconds :
       LET row == [daily_quota_bytes |-> quota, used_bytes |-> 0, window_start |-> time] IN
         row \in Rows /\ row # NotRegistered /\ Covered(row, Nothing, time)
<1>1. \A first, end : In(Nothing, first, end) = 0
  <2> TAKE first, end
  <2>1. \A s \in Span(first, end) : Nothing[s] = 0
    BY SpanType DEF Nothing
  <2> QED
    BY <2>1, InZero
<1>2. Nothing \in [Seconds -> Amounts] /\ 0 \in Amounts
  BY MaxAmountAssumption DEF Nothing, Amounts
<1>3. Daily(Nothing)
  BY <1>1, MaxAmountAssumption DEF Daily, Amounts
<1>4. ASSUME NEW quota \in Quotas, NEW time \in Seconds
      PROVE  LET row == [daily_quota_bytes |-> quota, used_bytes |-> 0, window_start |-> time] IN
               row \in Rows /\ row # NotRegistered /\ Covered(row, Nothing, time)
  <2> DEFINE row == [daily_quota_bytes |-> quota, used_bytes |-> 0, window_start |-> time]
  <2>1. row \in Rows
    BY <1>2 DEF Rows
  <2>2. row # NotRegistered
    <3>1. row.daily_quota_bytes = quota /\ NotRegistered.daily_quota_bytes = 0 /\ quota # 0
      BY GiftAssumption DEF NotRegistered
    <3> HIDE DEF row
    <3> QED
      BY <3>1
  <2>3. Covered(row, Nothing, time)
    BY <1>1, MaxAmountAssumption, GiftAssumption DEF Covered, Nothing, Seconds, Amounts
  <2> QED
    BY <2>1, <2>2, <2>3
<1> QED
  BY <1>2, <1>3, <1>4

\* Nothing changes as time passes.
LEMMA CoveredLater ==
  ASSUME NEW row \in Rows, NEW f, NEW time \in Seconds, NEW later \in Seconds, later >= time,
         Covered(row, f, time)
  PROVE  Covered(row, f, later)
BY GiftAssumption DEF Covered, Rows, Seconds

\* The row of the window that now falls into.
LEMMA WindowOK ==
  ASSUME NEW row \in Rows, NEW f \in [Seconds -> Amounts], now \in Seconds,
         Covered(row, f, now)
  PROVE  /\ Window(row) \in Rows
         /\ Window(row).daily_quota_bytes = row.daily_quota_bytes
         /\ Covered(Window(row), f, now)
         /\ now < Window(row).window_start + QUOTA_WINDOW_SECONDS
<1> DEFINE start == row.window_start
           fresh == [row EXCEPT !.used_bytes = 0, !.window_start = now]
<1>1. /\ start \in Int /\ 0 <= start /\ start <= Horizon /\ now \in Int /\ now <= Horizon
      /\ 0 <= now /\ start <= now
      /\ QUOTA_WINDOW_SECONDS \in Int /\ QUOTA_WINDOW_SECONDS > 0 /\ Horizon \in Int
      /\ row.used_bytes \in Int /\ 0 \in Amounts
  BY GiftAssumption, MaxAmountAssumption DEF Rows, Seconds, Covered, Amounts
<1>2. (start + QUOTA_WINDOW_SECONDS) % ClockSize = start + QUOTA_WINDOW_SECONDS
  BY <1>1, GiftAssumption, ClockAssumption
<1>3. CASE now >= start + QUOTA_WINDOW_SECONDS
  <2>1. Window(row) = fresh
    BY <1>2, <1>3 DEF Window
  <2>2. fresh \in Rows /\ fresh.window_start = now /\ fresh.used_bytes = 0
        /\ fresh.daily_quota_bytes = row.daily_quota_bytes
    BY <1>1 DEF Rows
  <2>3. \A s \in Seconds : (s > now \/ s >= start + QUOTA_WINDOW_SECONDS) => f[s] = 0
    BY DEF Covered
  <2>4. \A s \in Seconds : s >= now => f[s] = 0
    BY <1>1, <1>3, <2>3 DEF Seconds
  <2>5. In(f, now, Horizon + 1) = 0
    BY <1>1, <2>4, InZero DEF Span
  <2>6. ASSUME NEW bound \in Amounts, BoundsQuotas(bound)
        PROVE  0 <= bound /\ In(f, now - QUOTA_WINDOW_SECONDS, now) <= bound
    <3>1. Span(now - QUOTA_WINDOW_SECONDS, now) \subseteq Span(start, Horizon + 1)
      BY <1>1, <1>3 DEF Span, Seconds
    <3>2. In(f, now - QUOTA_WINDOW_SECONDS, now) <= In(f, start, Horizon + 1)
      BY <3>1, InMonotone
    <3>3. In(f, start, Horizon + 1) <= row.used_bytes /\ row.used_bytes <= bound
      BY <2>6 DEF Covered
    <3>4. /\ In(f, now - QUOTA_WINDOW_SECONDS, now) \in Nat /\ In(f, start, Horizon + 1) \in Nat
          /\ bound \in Nat
      BY InType, MaxAmountAssumption DEF Amounts
    <3> QED
      BY <1>1, <3>2, <3>3, <3>4
  <2>7. \A s \in Seconds : (s > now \/ s >= now + QUOTA_WINDOW_SECONDS) => f[s] = 0
    BY <1>1, <2>4 DEF Seconds
  <2>8. Covered(fresh, f, now)
    <3> HIDE DEF fresh
    <3> QED
      BY <1>1, <2>2, <2>5, <2>6, <2>7 DEF Covered
  <2> QED
    BY <1>1, <2>1, <2>2, <2>8
<1>4. CASE ~ (now >= start + QUOTA_WINDOW_SECONDS)
  BY <1>1, <1>2, <1>4 DEF Window
<1> QED
  BY <1>3, <1>4

\* A charge within the quota covers a gift's cost, and keeps the daily bound:
\* a span that reaches back over the window's start takes in at most the last
\* stretch before it, from one earlier window, and the use of this one.
LEMMA ChargeOK ==
  ASSUME NEW row \in Rows, NEW f \in [Seconds -> Amounts], now \in Seconds,
         Covered(row, f, now), Daily(f),
         now < row.window_start + QUOTA_WINDOW_SECONDS,
         NEW bytes \in Nat, InQuota(row, bytes),
         NEW cost \in Nat, cost <= bytes + GIFT_ROW_OVERHEAD
  PROVE  /\ Charge(row, bytes) \in Rows
         /\ Charge(row, bytes).used_bytes <= row.daily_quota_bytes
         /\ Credit(f, now, cost) \in [Seconds -> Amounts]
         /\ Covered(Charge(row, bytes), Credit(f, now, cost), now)
         /\ Daily(Credit(f, now, cost))
<1> DEFINE start == row.window_start
           used == row.used_bytes
           new == used + bytes + GIFT_ROW_OVERHEAD
           r == Charge(row, bytes)
           g == Credit(f, now, cost)
<1>1. /\ start \in Int /\ 0 <= start /\ start <= Horizon /\ now \in Int /\ now <= Horizon
      /\ 0 <= now /\ start <= now
      /\ QUOTA_WINDOW_SECONDS \in Int /\ QUOTA_WINDOW_SECONDS > 0 /\ Horizon \in Int
      /\ used \in Nat /\ GIFT_ROW_OVERHEAD \in Nat
      /\ row.daily_quota_bytes \in Quotas /\ row.daily_quota_bytes \in Nat
      /\ row.daily_quota_bytes <= MaxAmount /\ MaxAmount \in Nat
  <2>1. start <= now
    BY DEF Covered
  <2>2. row.daily_quota_bytes \in 1 .. MaxAmount
    BY GiftAssumption DEF Rows
  <2>3. start \in Seconds /\ used \in Amounts /\ row.daily_quota_bytes \in Quotas
    BY DEF Rows
  <2> HIDE DEF start, used
  <2> QED
    BY <2>1, <2>2, <2>3, GiftAssumption, MaxAmountAssumption DEF Seconds, Amounts
<1>2. new <= row.daily_quota_bytes /\ new \in Amounts
  BY <1>1 DEF InQuota, Amounts
<1>3. /\ r \in Rows /\ r.window_start = start /\ r.used_bytes = new
      /\ r.daily_quota_bytes = row.daily_quota_bytes
  BY <1>2 DEF Charge, Rows
<1>4. now \in Span(start, Horizon + 1)
  BY <1>1 DEF Span
<1>5. In(f, start, Horizon + 1) <= used /\ In(f, start, Horizon + 1) \in Nat
  BY InType DEF Covered
<1>6. f[now] + cost <= MaxAmount
  <2>1. f[now] <= In(f, start, Horizon + 1) /\ f[now] \in Nat
    BY <1>4, InEntry, MaxAmountAssumption DEF Amounts
  <2> QED
    BY <1>1, <1>2, <1>5, <2>1
<1>7. g \in [Seconds -> Amounts]
  BY <1>6, InCredit
<1>8. In(g, start, Horizon + 1) <= new /\ In(g, start, Horizon + 1) \in Nat
  <2>1. In(g, start, Horizon + 1) = In(f, start, Horizon + 1) + cost
    BY <1>4, <1>6, InCredit
  <2> QED
    BY <1>1, <1>5, <2>1
<1>9. In(g, start - QUOTA_WINDOW_SECONDS, start) = In(f, start - QUOTA_WINDOW_SECONDS, start)
  <2>1. now \notin Span(start - QUOTA_WINDOW_SECONDS, start)
    BY <1>1 DEF Span
  <2> QED
    BY <1>6, <2>1, InCredit
<1>10. \A bound \in Amounts : BoundsQuotas(bound) =>
         /\ new <= bound
         /\ In(g, start - QUOTA_WINDOW_SECONDS, start) <= bound
  <2> SUFFICES ASSUME NEW bound \in Amounts, BoundsQuotas(bound)
               PROVE  new <= bound /\ In(g, start - QUOTA_WINDOW_SECONDS, start) <= bound
    OBVIOUS
  <2>1. row.daily_quota_bytes <= bound /\ bound \in Nat
    BY <1>1 DEF BoundsQuotas, Amounts
  <2>2. In(f, start - QUOTA_WINDOW_SECONDS, start) <= bound
    BY DEF Covered
  <2> QED
    BY <1>1, <1>2, <1>9, <2>1, <2>2
<1>11. \A s \in Seconds : (s > now \/ s >= start + QUOTA_WINDOW_SECONDS) => g[s] = 0
  <2>1. \A s \in Seconds : (s > now \/ s >= start + QUOTA_WINDOW_SECONDS) => f[s] = 0 /\ s # now
    BY <1>1 DEF Covered, Seconds
  <2> QED
    BY <2>1 DEF Credit
<1> HIDE DEF r, g, new, used, start
<1>12. Covered(r, g, now)
  BY <1>1, <1>3, <1>8, <1>10, <1>11 DEF Covered
<1>13. ASSUME NEW first \in Seconds, NEW bound \in Amounts, BoundsQuotas(bound)
       PROVE  In(g, first, first + QUOTA_WINDOW_SECONDS) <= 2 * bound
  <2> DEFINE end == first + QUOTA_WINDOW_SECONDS
  <2>1. first \in Int /\ 0 <= first /\ end \in Int /\ bound \in Nat /\ first <= end
    BY <1>1, MaxAmountAssumption DEF Seconds, Amounts
  <2>2. In(g, start, Horizon + 1) <= bound
    BY <1>1, <1>2, <1>8, <1>10, <1>13, <2>1 DEF Amounts
  <2>3. CASE now \notin Span(first, end)
    <3>1. In(g, first, end) = In(f, first, end)
      BY <1>6, <2>3, InCredit DEF g
    <3> QED
      BY <1>13, <3>1 DEF Daily
  <2>4. CASE now \in Span(first, end) /\ first >= start
    <3>1. Span(first, end) \subseteq Span(start, Horizon + 1)
      BY <1>1, <2>1, <2>4 DEF Span, Seconds
    <3>2. In(g, first, end) <= In(g, start, Horizon + 1)
      BY <1>7, <3>1, InMonotone
    <3>3. In(g, first, end) \in Nat
      BY <1>7, InType
    <3> QED
      BY <1>8, <2>1, <2>2, <3>2, <3>3
  <2>5. CASE now \in Span(first, end) /\ first < start
    <3>1. now < end
      BY <2>5 DEF Span
    <3>2. start <= end /\ start - QUOTA_WINDOW_SECONDS <= first
      BY <1>1, <2>1, <3>1
    <3>3. Span(first, start) \subseteq Span(start - QUOTA_WINDOW_SECONDS, start)
      BY <1>1, <2>1, <3>2 DEF Span, Seconds
    <3>4. Span(start, end) \subseteq Span(start, Horizon + 1)
      BY <1>1, <2>1 DEF Span, Seconds
    <3>5. In(g, first, start) <= In(g, start - QUOTA_WINDOW_SECONDS, start)
      BY <1>7, <3>3, InMonotone
    <3>6. In(g, start, end) <= In(g, start, Horizon + 1)
      BY <1>7, <3>4, InMonotone
    <3>7. In(g, first, end) = In(g, first, start) + In(g, start, end)
      BY <1>1, <1>7, <2>1, <2>5, <3>2, InSplit
    <3>8. /\ In(g, first, start) \in Nat /\ In(g, start, end) \in Nat
          /\ In(g, start - QUOTA_WINDOW_SECONDS, start) \in Nat
      BY <1>7, InType
    <3>9. In(g, start - QUOTA_WINDOW_SECONDS, start) <= bound
      BY <1>10, <1>13
    <3> QED
      BY <1>8, <2>1, <2>2, <3>5, <3>6, <3>7, <3>8, <3>9
  <2> QED
    BY <1>1, <2>1, <2>3, <2>4, <2>5
<1>14. Daily(g)
  BY <1>13 DEF Daily
<1> QED
  BY <1>2, <1>3, <1>7, <1>12, <1>14 DEF r, g

----
(* The steps. *)

\* A step that leaves rows and spending alone, in time, keeps what is known of them.
LEMMA UnchangedOK ==
  ASSUME TypeOK, TypeOK', CreatorsOK, now' >= now, UNCHANGED <<creators, spent>>
  PROVE  CreatorsOK'
<1>1. ASSUME NEW c \in Creators
      PROVE  (IsRegistered(c) => Covered(creators[c], spent[c], now')) /\ Daily(spent[c])
  <2>1. IsRegistered(c) => creators[c] \in Rows
    BY DEF TypeOK, IsRegistered
  <2>2. now \in Seconds /\ now' \in Seconds
    BY DEF TypeOK
  <2>3. (IsRegistered(c) => Covered(creators[c], spent[c], now)) /\ Daily(spent[c])
    BY DEF CreatorsOK
  <2> QED
    BY <2>1, <2>2, <2>3, CoveredLater
<1>2. \A c \in Creators : IsRegistered(c)' <=> IsRegistered(c)
  BY DEF IsRegistered
<1> QED
  BY <1>1, <1>2 DEF CreatorsOK

\* A step on one creator's row and spending that leaves these well.
LEMMA OneCreatorOK ==
  ASSUME TypeOK, CreatorsOK, NEW creator \in Creators, NEW row, NEW f,
         creators' = [creators EXCEPT ![creator] = row],
         spent' = [spent EXCEPT ![creator] = f],
         now' = now, row \in Rows \cup {NotRegistered}, f \in [Seconds -> Amounts],
         row # NotRegistered => Covered(row, f, now), Daily(f)
  PROVE  /\ CreatorsOK'
         /\ creators' \in [Creators -> Rows \cup {NotRegistered}]
         /\ spent' \in [Creators -> [Seconds -> Amounts]]
<1>1. /\ creators \in [Creators -> Rows \cup {NotRegistered}]
      /\ spent \in [Creators -> [Seconds -> Amounts]]
  BY DEF TypeOK
<1>2. creators'[creator] = row /\ spent'[creator] = f
  BY <1>1
<1>3. \A c \in Creators \ {creator} : creators'[c] = creators[c] /\ spent'[c] = spent[c]
  BY <1>1
<1>4. ASSUME NEW c \in Creators
      PROVE  (IsRegistered(c) => Covered(creators[c], spent[c], now))' /\ Daily(spent'[c])
  <2>1. CASE c = creator
    BY <1>2, <2>1 DEF IsRegistered
  <2>2. CASE c # creator
    BY <1>3, <2>2 DEF CreatorsOK, IsRegistered
  <2> QED
    BY <2>1, <2>2
<1> QED
  BY <1>1, <1>4 DEF CreatorsOK

LEMMA AddCreatorStep ==
  ASSUME Inv, NEW creator \in Creators, NEW quota \in Quotas, AddCreator(creator, quota)
  PROVE  Inv'
<1> DEFINE row == [daily_quota_bytes |-> quota, used_bytes |-> 0, window_start |-> now]
<1>1. TypeOK /\ CreatorsOK /\ trx \cap before = {}
  BY InvByCreator
<1>2. now \in Seconds
  BY <1>1 DEF TypeOK
<1>3. row \in Rows /\ Covered(row, Nothing, now)
  BY <1>2, NothingOK
<1>4. creators' = [creators EXCEPT ![creator] = row]
  BY DEF AddCreator
<1> HIDE DEF row
<1>5. spent' = [spent EXCEPT ![creator] = Nothing] /\ UNCHANGED <<now, exists, before, trx, gifted>>
  BY DEF AddCreator
<1>6. /\ CreatorsOK'
      /\ creators' \in [Creators -> Rows \cup {NotRegistered}]
      /\ spent' \in [Creators -> [Seconds -> Amounts]]
  BY <1>1, <1>3, <1>4, <1>5, NothingOK, OneCreatorOK
<1>7. TypeOK' /\ (trx \cap before = {})'
  BY <1>1, <1>5, <1>6 DEF TypeOK
<1> QED
  BY <1>6, <1>7, InvByCreator

LEMMA RmCreatorStep ==
  ASSUME Inv, NEW creator \in Creators, RmCreator(creator)
  PROVE  Inv'
<1>1. TypeOK /\ CreatorsOK /\ trx \cap before = {}
  BY InvByCreator
<1>2. /\ creators' = [creators EXCEPT ![creator] = NotRegistered]
      /\ spent' = [spent EXCEPT ![creator] = Nothing]
      /\ UNCHANGED <<now, exists, before, trx, gifted>>
  BY DEF RmCreator
<1>3. /\ CreatorsOK'
      /\ creators' \in [Creators -> Rows \cup {NotRegistered}]
      /\ spent' \in [Creators -> [Seconds -> Amounts]]
  BY <1>1, <1>2, NothingOK, OneCreatorOK
<1>4. TypeOK' /\ (trx \cap before = {})'
  BY <1>1, <1>2, <1>3 DEF TypeOK
<1> QED
  BY <1>3, <1>4, InvByCreator

LEMMA SetQuotaStep ==
  ASSUME Inv, NEW creator \in Creators, NEW quota \in Quotas, SetQuota(creator, quota)
  PROVE  Inv'
<1> DEFINE old == creators[creator]
           row == [old EXCEPT !.daily_quota_bytes = quota]
<1>1. TypeOK /\ CreatorsOK /\ trx \cap before = {}
  BY InvByCreator
<1>2. /\ creators \in [Creators -> Rows \cup {NotRegistered}]
      /\ spent \in [Creators -> [Seconds -> Amounts]]
  BY <1>1 DEF TypeOK
<1>3. old \in Rows /\ Covered(old, spent[creator], now) /\ Daily(spent[creator])
  BY <1>1, <1>2 DEF SetQuota, CreatorsOK, IsRegistered
<1>4. creators' = [creators EXCEPT ![creator] = row] /\ UNCHANGED <<now, exists, before, trx, gifted>>
  BY DEF SetQuota
<1>5. row \in Rows /\ row.window_start = old.window_start /\ row.used_bytes = old.used_bytes
  BY <1>3 DEF Rows
<1> HIDE DEF row, old
<1>6. Covered(row, spent[creator], now)
  BY <1>3, <1>5 DEF Covered
<1>7. spent' = [spent EXCEPT ![creator] = spent[creator]]
  BY <1>2 DEF SetQuota
<1>8. /\ CreatorsOK'
      /\ creators' \in [Creators -> Rows \cup {NotRegistered}]
      /\ spent' \in [Creators -> [Seconds -> Amounts]]
  BY <1>1, <1>2, <1>3, <1>4, <1>5, <1>6, <1>7, OneCreatorOK
<1>9. TypeOK' /\ (trx \cap before = {})'
  BY <1>1, <1>4, <1>8 DEF TypeOK
<1> QED
  BY <1>8, <1>9, InvByCreator

\* giftram records the gift of an account that exists.
LEMMA GiftRamType ==
  ASSUME TypeOK, NEW from \in Accounts, NEW to \in Accounts, NEW bytes \in Sizes,
         GiftRam(from, to, bytes)
  PROVE  gifted' \in [Accounts -> [gifter : Accounts \cup {NoAccount}, ram_bytes : Amounts]]
<1>1. gifted \in [Accounts -> [gifter : Accounts \cup {NoAccount}, ram_bytes : Amounts]]
  BY DEF TypeOK
<1>2. gifted[to].ram_bytes + bytes \in Amounts
  BY <1>1, GiftAssumption, MaxAmountAssumption DEF GiftRam, Amounts
<1> QED
  BY <1>1, <1>2 DEF GiftRam

\* A gift keeps the invariant and ends within the quota of its moment.
LEMMA GiftAcctStep ==
  ASSUME Inv, NEW creator \in Creators, NEW account \in Accounts, NEW bytes \in Sizes,
         GiftAcct(creator, account, bytes)
  PROVE  /\ Inv'
         /\ \A c \in Creators \ {creator} : spent'[c] = spent[c]
         /\ creators'[creator].used_bytes <= creators[creator].daily_quota_bytes
<1> DEFINE old == creators[creator]
           row == Window(old)
           cost == RamCost(account, bytes)
           new == Charge(row, bytes)
           f == Credit(spent[creator], now, cost)
<1>1. TypeOK /\ CreatorsOK /\ trx \cap before = {}
  BY InvByCreator
<1>2. /\ creators \in [Creators -> Rows \cup {NotRegistered}]
      /\ spent \in [Creators -> [Seconds -> Amounts]] /\ now \in Seconds
      /\ spent[creator] \in [Seconds -> Amounts]
  BY <1>1 DEF TypeOK
<1>3. old \in Rows /\ Covered(old, spent[creator], now) /\ Daily(spent[creator])
  BY <1>1, <1>2 DEF GiftAcct, CreatorsOK, IsRegistered
<1>4. /\ InQuota(row, bytes) /\ GiftRam(Self, account, bytes)
      /\ creators' = [creators EXCEPT ![creator] = new]
      /\ spent' = [spent EXCEPT ![creator] = f]
      /\ UNCHANGED <<now, exists, before, trx>>
  BY DEF GiftAcct
<1>5. bytes \in Nat /\ cost \in Nat /\ cost <= bytes + GIFT_ROW_OVERHEAD
  BY GiftAssumption DEF RamCost
<1> HIDE DEF cost, row, old
<1>6. /\ row \in Rows /\ row.daily_quota_bytes = old.daily_quota_bytes
      /\ Covered(row, spent[creator], now)
      /\ now < row.window_start + QUOTA_WINDOW_SECONDS
  BY <1>2, <1>3, WindowOK DEF row
<1>7. /\ new \in Rows /\ new.used_bytes <= old.daily_quota_bytes
      /\ f \in [Seconds -> Amounts]
      /\ Covered(new, f, now) /\ Daily(f)
  BY <1>2, <1>3, <1>4, <1>5, <1>6, ChargeOK
<1> HIDE DEF new, f
<1>8. /\ CreatorsOK'
      /\ creators' \in [Creators -> Rows \cup {NotRegistered}]
      /\ spent' \in [Creators -> [Seconds -> Amounts]]
  BY <1>1, <1>4, <1>7, OneCreatorOK
<1>9. gifted' \in [Accounts -> [gifter : Accounts \cup {NoAccount}, ram_bytes : Amounts]]
  BY <1>1, <1>4, GiftRamType, GiftAssumption
<1>10. TypeOK' /\ (trx \cap before = {})'
  BY <1>1, <1>4, <1>8, <1>9 DEF TypeOK
<1>11. Inv'
  BY <1>8, <1>10, InvByCreator
<1>12. creators'[creator].used_bytes <= creators[creator].daily_quota_bytes
  BY <1>2, <1>4, <1>7 DEF old
<1> QED
  BY <1>2, <1>4, <1>11, <1>12

\* What the rest of the chain does keeps the invariant.
LEMMA ChainStep ==
  ASSUME Inv, ChainNext
  PROVE  Inv' /\ UNCHANGED <<creators, spent>>
<1>1. TypeOK /\ CreatorsOK /\ trx \cap before = {}
  BY InvByCreator
<1>2. CASE \E created \in SUBSET (Accounts \ exists), time \in Seconds : NextTransaction(created, time)
  <2>1. PICK created \in SUBSET (Accounts \ exists), time \in Seconds : NextTransaction(created, time)
    BY <1>2
  <2>2. UNCHANGED <<creators, spent>> /\ now' >= now /\ TypeOK' /\ (trx \cap before = {})'
    BY <1>1, <2>1 DEF NextTransaction, TypeOK
  <2> QED
    BY <1>1, <2>2, UnchangedOK, InvByCreator
<1>3. ASSUME NEW a \in Accounts, NewAccount(a)
      PROVE  Inv' /\ UNCHANGED <<creators, spent>>
  <2>1. /\ UNCHANGED <<creators, spent>> /\ now' >= now /\ TypeOK' /\ (trx \cap before = {})'
    BY <1>1, <1>3 DEF NewAccount, TypeOK, Seconds
  <2> QED
    BY <1>1, <2>1, UnchangedOK, InvByCreator
<1>4. ASSUME NEW a \in Accounts, UngiftRam(a)
      PROVE  Inv' /\ UNCHANGED <<creators, spent>>
  <2>1. gifted' \in [Accounts -> [gifter : Accounts \cup {NoAccount}, ram_bytes : Amounts]]
    BY <1>1, <1>4, MaxAmountAssumption DEF UngiftRam, TypeOK, NoGift, Amounts
  <2>2. /\ UNCHANGED <<creators, spent>> /\ now' >= now /\ TypeOK' /\ (trx \cap before = {})'
    BY <1>1, <1>4, <2>1 DEF UngiftRam, TypeOK, Seconds
  <2> QED
    BY <1>1, <2>2, UnchangedOK, InvByCreator
<1>5. ASSUME NEW other \in Others, NEW a \in Accounts, NEW bytes \in Sizes, GiftByOther(other, a, bytes)
      PROVE  Inv' /\ UNCHANGED <<creators, spent>>
  <2>1. gifted' \in [Accounts -> [gifter : Accounts \cup {NoAccount}, ram_bytes : Amounts]]
    BY <1>1, <1>5, GiftRamType, GiftAssumption DEF GiftByOther
  <2>2. /\ UNCHANGED <<creators, spent>> /\ now' >= now /\ TypeOK' /\ (trx \cap before = {})'
    BY <1>1, <1>5, <2>1 DEF GiftByOther, TypeOK, Seconds
  <2> QED
    BY <1>1, <2>2, UnchangedOK, InvByCreator
<1> QED
  BY <1>2, <1>3, <1>4, <1>5 DEF ChainNext

\* At first nobody is registered.
LEMMA InitOK ==
  ASSUME Init
  PROVE  Inv
<1>1. TypeOK
  BY NothingOK, GiftAssumption, MaxAmountAssumption DEF Init, TypeOK, NoGift, Amounts, Seconds
<1>2. CreatorsOK
  BY NothingOK DEF Init, CreatorsOK, IsRegistered
<1> QED
  BY <1>1, <1>2, InvByCreator DEF Init

LEMMA NextOK ==
  ASSUME Inv, [Next]_vars
  PROVE  Inv'
<1>1. CASE ChainNext
  BY <1>1, ChainStep
<1>2. CASE GiftNext
  <2>1. PICK c \in Creators :
          \/ RmCreator(c)
          \/ \E quota \in Quotas : AddCreator(c, quota) \/ SetQuota(c, quota)
          \/ \E a \in Accounts, bytes \in Sizes : GiftAcct(c, a, bytes)
    BY <1>2 DEF GiftNext
  <2> QED
    BY <2>1, RmCreatorStep, AddCreatorStep, SetQuotaStep, GiftAcctStep
<1>3. CASE UNCHANGED vars
  <2>1. TypeOK /\ CreatorsOK /\ trx \cap before = {}
    BY InvByCreator
  <2>2. UNCHANGED <<creators, spent>> /\ now' >= now /\ TypeOK' /\ (trx \cap before = {})'
    BY <1>3, <2>1 DEF vars, TypeOK, Seconds
  <2> QED
    BY <2>1, <2>2, UnchangedOK, InvByCreator
<1> QED
  BY <1>1, <1>2, <1>3 DEF Next

----
(* The results. *)

\* The invariant holds in every state of the contract.
THEOREM InvariantHolds == Spec => []Inv
<1>1. Init => Inv
  BY InitOK
<1>2. Inv /\ [Next]_vars => Inv'
  BY NextOK
<1> QED
  BY <1>1, <1>2, PTL DEF Spec

\* A creator's recorded use covers what its gifts cost the contract in the window.
THEOREM UseIsCovered == Spec => []UseCoversSpending
<1>1. Inv => UseCoversSpending
  BY DEF Inv
<1> QED
  BY <1>1, InvariantHolds, PTL

\* No span as long as a window sees gifts of more than twice the largest quota.
THEOREM SpendingIsBounded == Spec => []DailyBound
<1>1. Inv => DailyBound
  BY DEF Inv
<1> QED
  BY <1>1, InvariantHolds, PTL

\* Every gift ends within the quota of its moment (giftacct).
THEOREM QuotaIsKept == Spec => GiftsWithinQuota
<1> DEFINE Kept == \A c \in Creators :
       (IsRegistered(c) /\ IsRegistered(c)' /\ spent'[c] # spent[c]) =>
         SpentIn(c, creators[c].window_start, Horizon + 1)' <= creators[c].daily_quota_bytes
<1>1. ASSUME Inv, Next
      PROVE  Kept
  <2>1. SUFFICES ASSUME NEW c \in Creators, IsRegistered(c), IsRegistered(c)', spent'[c] # spent[c]
                 PROVE  SpentIn(c, creators[c].window_start, Horizon + 1)' <= creators[c].daily_quota_bytes
    OBVIOUS
  <2>2. Inv' /\ TypeOK /\ TypeOK'
    BY <1>1, NextOK DEF Inv
  <2>3. PICK a \in Accounts, bytes \in Sizes : GiftAcct(c, a, bytes)
    <3>1. ~ ChainNext
      BY <1>1, <2>1, ChainStep
    <3>2. PICK d \in Creators :
            \/ RmCreator(d)
            \/ \E quota \in Quotas : AddCreator(d, quota) \/ SetQuota(d, quota)
            \/ \E a \in Accounts, bytes \in Sizes : GiftAcct(d, a, bytes)
      BY <1>1, <3>1 DEF Next, GiftNext
    <3>3. ~ RmCreator(d) /\ \A quota \in Quotas : ~ AddCreator(d, quota) /\ ~ SetQuota(d, quota)
      BY <2>1, <2>2 DEF RmCreator, AddCreator, SetQuota, IsRegistered, TypeOK
    <3>4. PICK a \in Accounts, bytes \in Sizes : GiftAcct(d, a, bytes)
      BY <3>2, <3>3
    <3>5. d = c
      BY <1>1, <2>1, <3>4, GiftAcctStep
    <3> QED
      BY <3>4, <3>5
  <2>4. creators'[c].used_bytes <= creators[c].daily_quota_bytes
    BY <1>1, <2>3, GiftAcctStep
  <2>5. SpentIn(c, creators[c].window_start, Horizon + 1)' <= creators'[c].used_bytes
    BY <2>1, <2>2 DEF Inv, UseCoversSpending
  <2>6. /\ creators[c].daily_quota_bytes \in Nat /\ creators'[c].used_bytes \in Nat
    <3>1. creators[c] \in Rows /\ creators'[c] \in Rows
      BY <2>1, <2>2 DEF TypeOK, IsRegistered
    <3>2. creators[c].daily_quota_bytes \in Quotas /\ creators'[c].used_bytes \in Amounts
      BY <3>1 DEF Rows
    <3>3. Quotas \subseteq Nat /\ Amounts \subseteq Nat
      BY GiftAssumption, MaxAmountAssumption DEF Amounts
    <3> QED
      BY <3>2, <3>3
  <2>7. SpentIn(c, creators[c].window_start, Horizon + 1)' \in Nat
    BY <2>2, InType DEF TypeOK, SpentIn, In
  <2> QED
    BY <2>4, <2>5, <2>6, <2>7
<1>2. Inv /\ [Next]_vars => [Kept]_vars
  BY <1>1
<1> QED
  BY <1>2, InvariantHolds, PTL DEF Spec, GiftsWithinQuota

\* The contract's RAM goes to accounts in the transaction that creates them.
THEOREM OnlyNewAccountsAreGifted == Spec => GiftsToNewAccounts
<1> DEFINE New == \A a \in Accounts :
       (gifted'[a].gifter = Self /\ gifted'[a] # gifted[a]) =>
         /\ a \in exists \ before
         /\ gifted[a].gifter \in {NoAccount, Self}
<1>1. ASSUME Inv, Next
      PROVE  New
  <2>1. SUFFICES ASSUME NEW a \in Accounts, gifted'[a].gifter = Self, gifted'[a] # gifted[a]
                 PROVE  a \in exists \ before /\ gifted[a].gifter \in {NoAccount, Self}
    OBVIOUS
  <2>2. /\ trx \cap before = {}
        /\ gifted \in [Accounts -> [gifter : Accounts \cup {NoAccount}, ram_bytes : Amounts]]
    BY <1>1 DEF Inv, TypeOK
  <2>3. PICK c \in Creators, to \in Accounts, bytes \in Sizes : GiftAcct(c, to, bytes)
    <3>1. \A b \in Accounts : ~ UngiftRam(b)
      BY <2>1, <2>2, GiftAssumption DEF UngiftRam, NoGift
    <3>2. \A other \in Others, b \in Accounts, bytes \in Sizes : ~ GiftByOther(other, b, bytes)
      BY <2>1, <2>2, GiftAssumption DEF GiftByOther, GiftRam
    <3>3. ~ ChainNext
      BY <2>1, <3>1, <3>2 DEF ChainNext, NextTransaction, NewAccount
    <3> QED
      BY <1>1, <2>1, <3>3 DEF Next, GiftNext, RmCreator, AddCreator, SetQuota
  <2>4. to = a
    BY <2>1, <2>2, <2>3 DEF GiftAcct, GiftRam
  <2> QED
    BY <2>2, <2>3, <2>4 DEF GiftAcct, GiftRam, CreatedInTransaction
<1>2. Inv /\ [Next]_vars => [New]_vars
  BY <1>1
<1> QED
  BY <1>2, InvariantHolds, PTL DEF Spec, GiftsToNewAccounts
================================================================================
