------------------------------ MODULE CreateProofs ------------------------------
(******************************************************************************)
(* Proofs about the account creation contract, for any accounts, payers with  *)
(* or without a contract, amounts and reserves.  First the price of RAM: the  *)
(* quotients are truncated three times and the fee is rounded up twice, and   *)
(* the roundings never add up to a gain for who pays.  Then the transaction:  *)
(* what its queue of inline actions looks like at every point, what has been  *)
(* done for the account at its head, and what a failure returns to.           *)
(******************************************************************************)
EXTENDS Create, FiniteSetTheorems, SequenceTheorems, TLAPS

----
(* Products and quotients of natural numbers. *)

LEMMA ProductMonotone ==
  ASSUME NEW x \in Nat, NEW y \in Nat, NEW b \in Nat, x <= y
  PROVE  x * b <= y * b
<1>1. PICK d \in Nat : y = x + d
  <2>1. y - x \in Nat /\ y = x + (y - x)
    OBVIOUS
  <2> QED
    BY <2>1
<1>2. y * b = x * b + d * b
  BY <1>1
<1>3. d * b \in Nat /\ x * b \in Nat
  OBVIOUS
<1> QED
  BY <1>2, <1>3

LEMMA Quotient ==
  ASSUME NEW a \in Nat, NEW b \in Nat, b > 0
  PROVE  /\ a \div b \in Nat
         /\ (a \div b) * b <= a
         /\ a < (a \div b) * b + b
<1>1. a = b * (a \div b) + (a % b) /\ a % b \in 0 .. (b - 1) /\ a \div b \in Int
  BY SMT
<1>2. a \div b \in Nat
  BY SMT
<1> QED
  BY <1>1, <1>2

\* A quotient is the greatest number whose product fits, ...
LEMMA QuotientAtLeast ==
  ASSUME NEW a \in Nat, NEW b \in Nat, b > 0, NEW n \in Nat, n * b <= a
  PROVE  n <= a \div b
<1> DEFINE q == a \div b
<1>1. q \in Nat /\ q * b <= a /\ a < q * b + b
  BY Quotient
<1> HIDE DEF q
<1>2. ASSUME q < n PROVE FALSE
  <2>1. q + 1 \in Nat /\ q + 1 <= n
    BY <1>1, <1>2
  <2>2. (q + 1) * b <= n * b
    BY <2>1, ProductMonotone
  <2>3. (q + 1) * b = q * b + b
    BY <1>1
  <2>4. q * b \in Nat /\ n * b \in Nat
    BY <1>1
  <2> QED
    BY <1>1, <2>2, <2>3, <2>4
<1>3. n <= q
  BY <1>1, <1>2
<1> QED
  BY <1>3 DEF q

\* ... and at most what bounds the dividend.
LEMMA QuotientAtMost ==
  ASSUME NEW a \in Nat, NEW b \in Nat, b > 0, NEW n \in Nat, a <= n * b
  PROVE  a \div b <= n
<1> DEFINE q == a \div b
<1>1. q \in Nat /\ q * b <= a
  BY Quotient
<1> HIDE DEF q
<1>2. ASSUME n < q PROVE FALSE
  <2>1. n + 1 \in Nat /\ n + 1 <= q
    BY <1>1, <1>2
  <2>2. (n + 1) * b <= q * b
    BY <1>1, <2>1, ProductMonotone
  <2>3. (n + 1) * b = n * b + b
    OBVIOUS
  <2>4. q * b \in Nat /\ n * b \in Nat
    BY <1>1
  <2> QED
    BY <1>1, <2>2, <2>3, <2>4
<1>3. q <= n
  BY <1>1, <1>2
<1> QED
  BY <1>3 DEF q

----
(* The market: reserves, and a number of bytes that leaves some. *)

Stocked == [base : Nat \ {0}, quote : Nat \ {0}]

\* The price of some of the bytes is a natural number that buys at most those
\* bytes, and with one unit more would buy at least them.
LEMMA PriceAndBytes ==
  ASSUME NEW reserves \in Stocked, NEW bytes \in Nat, bytes < reserves.base,
         NEW spent \in Nat
  PROVE  /\ RamCost(reserves, bytes) \in Nat
         /\ spent <= RamCost(reserves, bytes) =>
              BancorOutput(reserves.quote, reserves.base, spent) <= bytes
         /\ spent > RamCost(reserves, bytes) =>
              BancorOutput(reserves.quote, reserves.base, spent) >= bytes
<1> DEFINE base  == reserves.base
           quote == reserves.quote
           rest  == base - bytes
           cost  == (quote * bytes) \div rest
<1>1. /\ base \in Nat /\ quote \in Nat /\ quote > 0 /\ base > 0
      /\ rest \in Nat /\ rest > 0 /\ base = bytes + rest
  BY DEF Stocked
<1>2. RamCost(reserves, bytes) = cost
  BY DEF RamCost, BancorInput
<1>3. BancorOutput(reserves.quote, reserves.base, spent) = (spent * base) \div (quote + spent)
  BY DEF BancorOutput
<1> HIDE DEF base, quote, rest
<1>4. quote * bytes \in Nat /\ spent * rest \in Nat /\ spent * bytes \in Nat
      /\ spent * base \in Nat /\ quote + spent \in Nat /\ quote + spent > 0
  BY <1>1
<1>5. cost \in Nat /\ cost * rest <= quote * bytes /\ quote * bytes < cost * rest + rest
  BY <1>1, <1>4, Quotient
<1>6. spent * base = spent * bytes + spent * rest
  BY <1>1
<1>7. bytes * (quote + spent) = quote * bytes + spent * bytes
  BY <1>1
<1> HIDE DEF cost
<1>8. ASSUME spent <= cost PROVE (spent * base) \div (quote + spent) <= bytes
  <2>1. spent * rest <= cost * rest
    BY <1>1, <1>5, <1>8, ProductMonotone
  <2>2. cost * rest \in Nat
    BY <1>1, <1>5
  <2>3. spent * base <= bytes * (quote + spent)
    BY <1>4, <1>5, <1>6, <1>7, <2>1, <2>2
  <2> QED
    BY <1>4, <2>3, QuotientAtMost
<1>9. ASSUME spent > cost PROVE (spent * base) \div (quote + spent) >= bytes
  <2>1. cost + 1 \in Nat /\ cost + 1 <= spent
    BY <1>5, <1>9
  <2>2. (cost + 1) * rest <= spent * rest
    BY <1>1, <2>1, ProductMonotone
  <2>3. (cost + 1) * rest = cost * rest + rest /\ cost * rest \in Nat
    BY <1>1, <1>5
  <2>4. bytes * (quote + spent) <= spent * base
    BY <1>1, <1>4, <1>5, <1>6, <1>7, <2>2, <2>3
  <2>5. bytes <= (spent * base) \div (quote + spent)
    BY <1>4, <2>4, QuotientAtLeast
  <2>6. (spent * base) \div (quote + spent) \in Nat
    BY <1>4, Quotient
  <2> QED
    BY <2>5, <2>6
<1> QED
  BY <1>2, <1>3, <1>5, <1>8, <1>9

LEMMA FeeBounds ==
  ASSUME NEW q \in Nat, NEW r \in Nat, q <= r
  PROVE  /\ Fee(q) \in Nat /\ Fee(r) \in Nat
         /\ Fee(q) <= q
         /\ Fee(q) <= Fee(r)
BY SMT DEF Fee

----
(* Theorems. *)

\* The bytes bought for the price that create quotes are never more than the
\* bytes it asked the price of: nobody who pays is given RAM for nothing.
THEOREM QuotedPriceBuysNoMore ==
  ASSUME NEW reserves \in Stocked, NEW bytes \in Nat, bytes < reserves.base
  PROVE  BytesCostWithFee(reserves, RamCostWithFee(reserves, bytes)) <= bytes
<1> DEFINE cost  == RamCost(reserves, bytes)
           price == RamCostWithFee(reserves, bytes)
<1>1. cost \in Nat
  BY PriceAndBytes
<1>2. price = cost + Fee(cost)
  BY DEF RamCostWithFee
<1> HIDE DEF price, cost
<1>3. Fee(cost) \in Nat
  BY <1>1, FeeBounds
<1>4. price \in Nat /\ cost <= price
  BY <1>1, <1>2, <1>3
<1>5. Fee(price) \in Nat /\ Fee(price) <= price /\ Fee(cost) <= Fee(price)
  BY <1>1, <1>4, FeeBounds
<1>6. price - Fee(price) \in Nat /\ price - Fee(price) <= cost
  BY <1>1, <1>2, <1>3, <1>4, <1>5
<1>7. BancorOutput(reserves.quote, reserves.base, price - Fee(price)) <= bytes
  BY <1>6, PriceAndBytes DEF cost
<1> QED
  BY <1>7 DEF BytesCostWithFee, price

\* And they are short of them by less than one unit buys and what the fee takes
\* of itself: the units lost to rounding are one and the fee's own fee.
THEOREM OneUnitMoreBuysAll ==
  ASSUME NEW reserves \in Stocked, NEW bytes \in Nat, bytes < reserves.base
  PROVE  LET price == RamCostWithFee(reserves, bytes)
             lost  == Fee(price) - Fee(RamCost(reserves, bytes))
         IN  BancorOutput(reserves.quote, reserves.base, price - Fee(price) + lost + 1) >= bytes
<1> DEFINE cost  == RamCost(reserves, bytes)
           price == RamCostWithFee(reserves, bytes)
<1>1. cost \in Nat
  BY PriceAndBytes
<1>2. price = cost + Fee(cost)
  BY DEF RamCostWithFee
<1> HIDE DEF price, cost
<1>3. Fee(cost) \in Nat
  BY <1>1, FeeBounds
<1>4. price \in Nat
  BY <1>1, <1>2, <1>3
<1>5. Fee(price) \in Nat
  BY <1>4, FeeBounds
<1>6. price - Fee(price) + (Fee(price) - Fee(cost)) + 1 = cost + 1
  BY <1>1, <1>2, <1>3, <1>4, <1>5
<1>7. cost + 1 \in Nat /\ cost + 1 > cost
  BY <1>1
<1>8. BancorOutput(reserves.quote, reserves.base, cost + 1) >= bytes
  BY <1>7, PriceAndBytes DEF cost
<1> QED
  BY <1>6, <1>8 DEF price, cost

\* RAM bought and sold again at once, even without a fee, returns at most what
\* was paid: the roundings of the two prices are never in favour of a trader.
THEOREM RoundTripLosesOrBreaksEven ==
  ASSUME NEW reserves \in Stocked, NEW paid \in Nat
  PROVE  LET bytes == BancorOutput(reserves.quote, reserves.base, paid)
             after == [base |-> reserves.base - bytes, quote |-> reserves.quote + paid]
         IN  RamProceeds(after, bytes) <= paid
<1> DEFINE base  == reserves.base
           quote == reserves.quote
           bytes == (paid * base) \div (quote + paid)
<1>1. base \in Nat /\ base > 0 /\ quote \in Nat /\ quote > 0
  BY DEF Stocked
<1>2. bytes = BancorOutput(reserves.quote, reserves.base, paid)
  BY DEF BancorOutput
<1> HIDE DEF base, quote
<1>3. paid * base \in Nat /\ quote + paid \in Nat /\ quote + paid > 0
  BY <1>1
<1>4. bytes \in Nat /\ bytes * (quote + paid) <= paid * base
  BY <1>3, Quotient
<1> HIDE DEF bytes
<1>5. bytes * (quote + paid) \in Nat
  BY <1>3, <1>4
<1>6. (bytes * (quote + paid)) \div base <= paid
  BY <1>1, <1>4, <1>5, QuotientAtMost
<1>7. (base - bytes) + bytes = base
  BY <1>1, <1>4
<1>8. BancorOutput(base - bytes, quote + paid, bytes) <= paid
  BY <1>6, <1>7 DEF BancorOutput
<1> QED
  BY <1>2, <1>8 DEF RamProceeds, base, quote

----
(* The inductive invariant: the queue. *)

Fair == {d \in Deals : d.paid = d.ram + d.excess /\ d.ram = Price(d.quoted)}

Actions ==
  [do : {"react"}, account : Payers, quantity : {0}]
    \cup [do : {"newaccount"}, account : Names, quantity : {0}, key : ReadKeys]
    \cup [do : {"buyram", "transfer"}, account : Names, quantity : Nat]
    \cup [do : {"logcreation"}, account : Names, quantity : {0}, deal : Fair]

\* At i the queue ends or another account's creation starts, ...
Starts(q, i) == i \in DOMAIN q => q[i].do = "newaccount"

\* ... at i it creates or pays for the account n, ...
For(q, i, n, do) == i \in DOMAIN q /\ q[i].do = do /\ q[i].account = n

\* ... or logs what it did for n.
Logs(q, i, n, excess) == For(q, i, n, "logcreation") /\ q[i].deal.excess = excess

\* What comes after each action: the account, its RAM, its refund if there is
\* one, and the log entry that says what was paid for both.
Follows(q, i) ==
  \/ q[i].do = "react" /\ i = 1 /\ Starts(q, 2)
  \/ q[i].do = "newaccount" /\ For(q, i + 1, q[i].account, "buyram")
  \/ /\ q[i].do = "buyram"
     /\ \/ /\ Logs(q, i + 1, q[i].account, 0)
           /\ q[i + 1].deal.ram = q[i].quantity
        \/ /\ For(q, i + 1, q[i].account, "transfer")
           /\ Logs(q, i + 2, q[i].account, q[i + 1].quantity)
           /\ q[i + 2].deal.ram = q[i].quantity
  \/ q[i].do = "transfer" /\ Logs(q, i + 1, q[i].account, q[i].quantity)
  \/ q[i].do = "logcreation" /\ Starts(q, i + 1)

Queued(q) == q \in Seq(Actions) /\ \A i \in 1 .. Len(q) : Follows(q, i)

(* The inductive invariant: the accounts, in a state s. *)

Typed(s) ==
  /\ s.coins \in [Accounts \cup Names -> Nat]
  /\ Accounts \subseteq s.accounts /\ s.accounts \subseteq Accounts \cup Names
  /\ s.ram \in [Names -> [bytes : Nat, from : Reserves]]
  /\ s.market \in Reserves
  /\ s.room \in Int
  /\ s.deals \in [Names -> {NoDeal} \cup Fair]
  /\ s.kept \in Nat

\* Before an account is there, nothing has been done for it.
Untouched(s, n) == s.coins[n] = 0 /\ s.ram[n].bytes = 0 /\ s.deals[n] = NoDeal

\* The RAM of n is what c buys at some time's reserves.
Bought(s, n, c) == c > Fee(c) /\ s.ram[n].bytes = BytesCostWithFee(s.ram[n].from, c)

Consistent(s) ==
  \A n \in Names :
    /\ n \notin s.accounts => Untouched(s, n)
    /\ s.deals[n] # NoDeal =>
         /\ n \in s.accounts
         /\ s.coins[n] = s.deals[n].excess
         /\ Bought(s, n, s.deals[n].ram)

Sufficient(s) ==
  s.room >= 0 /\ \A n \in Names \cap s.accounts : s.ram[n].bytes >= Usage

\* What the action at the head of q is owed: what came before it, and no more.
Ready(s, q) ==
  q # <<>> =>
    LET n == Head(q).account IN
    /\ Head(q).do \in {"buyram", "transfer", "logcreation"} =>
         n \in s.accounts /\ s.deals[n] = NoDeal
    /\ Head(q).do \in {"buyram", "transfer"} => s.coins[n] = 0
    /\ Head(q).do = "buyram" => s.ram[n].bytes = 0
    /\ Head(q).do = "transfer" => Bought(s, n, q[2].deal.ram)
    /\ Head(q).do = "logcreation" =>
         s.coins[n] = Head(q).deal.excess /\ Bought(s, n, Head(q).deal.ram)

\* A queue that holds no creation: the transaction may end with it.
NoCreation(q) == q = <<>> \/ (Len(q) = 1 /\ Head(q).do = "react")

\* A state that a transaction may begin in, or return to.
Settled(s) ==
  Typed(s) /\ Consistent(s) /\ Sufficient(s) /\ s.coins[Create] = s.kept

IInv ==
  /\ Typed(State) /\ Consistent(State)
  /\ Queued(todo) /\ Ready(State, todo)
  /\ NoCreation(todo) => Sufficient(State)
  /\ IsFiniteSet(UnitsOf(todo)) /\ NothingKept
  /\ Idle => saved = <<>>
  /\ ~ Idle => saved # <<>> /\ Settled(saved)

----
(* Queues. *)

LEMMA FirstOf ==
  ASSUME NEW S, NEW q \in Seq(S)
  PROVE  /\ q # <<>> <=> 1 \in DOMAIN q
         /\ q # <<>> <=> Len(q) >= 1
         /\ q # <<>> => Head(q) = q[1]
BY LenProperties

LEMMA TailOf ==
  ASSUME NEW S, NEW q \in Seq(S), q # <<>>
  PROVE  /\ Tail(q) \in Seq(S) /\ Len(q) \in Nat /\ Len(q) >= 1
         /\ Len(Tail(q)) = Len(q) - 1
         /\ Head(q) = q[1] /\ q[1] \in S
         /\ \A i \in 1 .. Len(q) - 1 : Tail(q)[i] = q[i + 1]
         /\ q = <<Head(q)>> \o Tail(q)
<1>1. Len(q) \in Nat /\ Len(q) >= 1 /\ Head(q) = q[1] /\ q[1] \in S
  BY HeadTailProperties, LenProperties, ElementOfSeq
<1>2. /\ Tail(q) \in Seq(S) /\ Len(Tail(q)) = Len(q) - 1
      /\ \A i \in 1 .. Len(q) - 1 : Tail(q)[i] = q[i + 1]
  BY HeadTailProperties
<1>3. q = <<Head(q)>> \o Tail(q)
  BY HeadTailProperties
<1> QED
  BY <1>1, <1>2, <1>3

LEMMA PushOf ==
  ASSUME NEW S, NEW e \in S, NEW q \in Seq(S)
  PROVE  /\ <<e>> \o q \in Seq(S) /\ Len(q) \in Nat
         /\ Len(<<e>> \o q) = Len(q) + 1 /\ <<e>> \o q # <<>>
         /\ (<<e>> \o q)[1] = e /\ Head(<<e>> \o q) = e
         /\ \A i \in 1 .. Len(q) : (<<e>> \o q)[i + 1] = q[i]
<1> DEFINE p == <<e>> \o q
<1>1. <<e>> \in Seq(S) /\ Len(<<e>>) = 1 /\ <<e>>[1] = e
  OBVIOUS
<1>2. Len(q) \in Nat
  OBVIOUS
<1>3. p \in Seq(S) /\ Len(p) = Len(q) + 1
  BY <1>1, ConcatProperties
<1>4. \A i \in 1 .. Len(q) + 1 : p[i] = IF i <= 1 THEN <<e>>[i] ELSE q[i - 1]
  BY <1>1, ConcatProperties
<1>5. p[1] = e /\ \A i \in 1 .. Len(q) : p[i + 1] = q[i]
  BY <1>1, <1>2, <1>4
<1>6. p # <<>> /\ Head(p) = p[1]
  BY <1>2, <1>3
<1> QED
  BY <1>2, <1>3, <1>5, <1>6

LEMMA ColumnOf ==
  ASSUME NEW l, NEW n \in Nat
  PROVE  IsFiniteSet({l} \X (1 .. n)) /\ Cardinality({l} \X (1 .. n)) = n
<1>1. IsFiniteSet({l}) /\ Cardinality({l}) = 1
  BY FS_Singleton
<1>2. IsFiniteSet(1 .. n) /\ Cardinality(1 .. n) = IF 1 > n THEN 0 ELSE n - 1 + 1
  BY FS_Interval
<1>3. Cardinality(1 .. n) = n
  BY <1>2
<1>4. /\ IsFiniteSet({l} \X (1 .. n))
      /\ Cardinality({l} \X (1 .. n)) = Cardinality({l}) * Cardinality(1 .. n)
  BY <1>1, <1>2, FS_Product
<1> QED
  BY <1>1, <1>3, <1>4

\* An action pushed in front of a queue adds its own units to the queue's.
LEMMA UnitsOfPush ==
  ASSUME NEW S, NEW e \in S, NEW q \in Seq(S), e.quantity \in Nat, IsFiniteSet(UnitsOf(q))
  PROVE  /\ IsFiniteSet(UnitsOf(<<e>> \o q))
         /\ Cardinality(UnitsOf(<<e>> \o q)) = Cardinality(UnitsOf(q)) + e.quantity
<1> DEFINE p   == <<e>> \o q
           l   == Len(q) + 1
           new == {l} \X (1 .. e.quantity)
<1>1. /\ Len(q) \in Nat /\ Len(p) = l /\ p[1] = e
      /\ \A i \in 1 .. Len(q) : p[i + 1] = q[i]
  BY PushOf
<1>2. \A k \in 1 .. Len(q) : p[Len(p) + 1 - k] = q[Len(q) + 1 - k]
  <2> SUFFICES ASSUME NEW k \in 1 .. Len(q)
               PROVE  p[Len(p) + 1 - k] = q[Len(q) + 1 - k]
    OBVIOUS
  <2>1. Len(q) + 1 - k \in 1 .. Len(q) /\ Len(p) + 1 - k = (Len(q) + 1 - k) + 1
    BY <1>1
  <2> QED
    BY <1>1, <2>1
<1>3. p[Len(p) + 1 - l] = e
  BY <1>1
<1>4. UnitsOf(p) = UnitsOf(q) \cup new
  <2>1. 1 .. Len(p) = (1 .. Len(q)) \cup {l}
    BY <1>1
  <2> QED
    BY <1>2, <1>3, <2>1 DEF UnitsOf
<1>5. UnitsOf(q) \cap new = {}
  BY <1>1 DEF UnitsOf
<1>6. IsFiniteSet(new) /\ Cardinality(new) = e.quantity
  BY ColumnOf
<1> HIDE DEF new
<1>7. Cardinality(UnitsOf(q) \cap new) = 0
  BY <1>5, FS_EmptySet
<1>8. /\ IsFiniteSet(UnitsOf(q) \cup new)
      /\ Cardinality(UnitsOf(q) \cup new)
           = Cardinality(UnitsOf(q)) + Cardinality(new) - Cardinality(UnitsOf(q) \cap new)
  BY <1>6, FS_Union
<1>9. Cardinality(UnitsOf(q)) \in Nat
  BY FS_CardinalityType
<1>10. Cardinality(UnitsOf(q) \cup new) = Cardinality(UnitsOf(q)) + e.quantity
  BY <1>6, <1>7, <1>8, <1>9
<1> QED
  BY <1>4, <1>8, <1>10

LEMMA UnitsOfTail ==
  ASSUME NEW S, NEW q \in Seq(S), q # <<>>, Head(q).quantity \in Nat,
         IsFiniteSet(UnitsOf(q))
  PROVE  /\ IsFiniteSet(UnitsOf(Tail(q)))
         /\ Cardinality(UnitsOf(q)) = Cardinality(UnitsOf(Tail(q))) + Head(q).quantity
<1> DEFINE t == Tail(q)
<1>1. /\ t \in Seq(S) /\ Head(q) \in S /\ q = <<Head(q)>> \o t
  BY TailOf
<1>2. UnitsOf(t) \subseteq UnitsOf(q)
  <2>1. /\ Len(q) \in Nat /\ Len(t) = Len(q) - 1 /\ Len(q) >= 1
        /\ \A i \in 1 .. Len(q) - 1 : t[i] = q[i + 1]
    BY TailOf
  <2>2. \A k \in 1 .. Len(t) : k \in 1 .. Len(q) /\ t[Len(t) + 1 - k] = q[Len(q) + 1 - k]
    <3> SUFFICES ASSUME NEW k \in 1 .. Len(t)
                 PROVE  k \in 1 .. Len(q) /\ t[Len(t) + 1 - k] = q[Len(q) + 1 - k]
      OBVIOUS
    <3>1. Len(t) + 1 - k \in 1 .. Len(q) - 1 /\ (Len(t) + 1 - k) + 1 = Len(q) + 1 - k
      BY <2>1
    <3> QED
      BY <2>1, <3>1
  <2> QED
    BY <2>2 DEF UnitsOf
<1>3. IsFiniteSet(UnitsOf(t))
  BY <1>2, FS_Subset
<1> QED
  BY <1>1, <1>3, UnitsOfPush

LEMMA PairIsConcat ==
  ASSUME NEW S, NEW a \in S, NEW b \in S
  PROVE  <<a, b>> = <<a>> \o <<b>>
<1>1. <<a>> \in Seq(S) /\ <<b>> \in Seq(S) /\ <<a, b>> \in Seq(S)
  OBVIOUS
<1>2. /\ <<a>> \o <<b>> \in Seq(S) /\ Len(<<a>> \o <<b>>) = 2
      /\ (<<a>> \o <<b>>)[1] = a /\ (<<a>> \o <<b>>)[2] = b
  BY <1>1, ConcatProperties
<1>3. Len(<<a, b>>) = 2 /\ <<a, b>>[1] = a /\ <<a, b>>[2] = b
  OBVIOUS
<1>4. \A i \in 1 .. 2 : <<a, b>>[i] = (<<a>> \o <<b>>)[i]
  BY <1>2, <1>3
<1> QED
  BY <1>1, <1>2, <1>3, <1>4, SeqEqual

\* What an action has to do with those after it does not depend on its place,
\* except that a payer's contract acts only at the head.
LEMMA FollowsShifted ==
  ASSUME NEW p \in Seq(Actions), NEW q \in Seq(Actions), Len(p) = Len(q) + 1,
         \A i \in 1 .. Len(q) : p[i + 1] = q[i],
         NEW i \in 1 .. Len(q)
  PROVE  /\ q[i].do # "react" => (Follows(p, i + 1) <=> Follows(q, i))
         /\ Follows(p, i + 1) => q[i].do # "react"
         /\ Starts(p, i + 1) <=> Starts(q, i)
<1>1. DOMAIN p = 1 .. Len(p) /\ DOMAIN q = 1 .. Len(q) /\ Len(q) \in Nat
  BY LenProperties
<1>2. /\ i + 1 \in DOMAIN q <=> i + 2 \in DOMAIN p
      /\ i + 2 \in DOMAIN q <=> i + 3 \in DOMAIN p
      /\ i \in DOMAIN q /\ i + 1 \in DOMAIN p
      /\ p[i + 1] = q[i]
      /\ i + 1 \in DOMAIN q => p[i + 2] = q[i + 1]
      /\ i + 2 \in DOMAIN q => p[i + 3] = q[i + 2]
  <2>1. ASSUME NEW j \in 1 .. Len(q) PROVE p[j + 1] = q[j]
    OBVIOUS
  <2>2. (i + 1) + 1 = i + 2 /\ (i + 2) + 1 = i + 3
    OBVIOUS
  <2>3. i + 1 \in DOMAIN q => p[i + 2] = q[i + 1]
    BY <1>1, <2>1, <2>2
  <2>4. i + 2 \in DOMAIN q => p[i + 3] = q[i + 2]
    BY <1>1, <2>1, <2>2
  <2> QED
    BY <1>1, <2>1, <2>3, <2>4
<1>3. \A n, do : For(p, i + 2, n, do) <=> For(q, i + 1, n, do)
  BY <1>2 DEF For
<1>4. \A n, do : For(p, i + 3, n, do) <=> For(q, i + 2, n, do)
  BY <1>2 DEF For
<1>5. \A n, excess : Logs(p, i + 2, n, excess) <=> Logs(q, i + 1, n, excess)
  BY <1>2, <1>3 DEF Logs, For
<1>6. \A n, excess : Logs(p, i + 3, n, excess) <=> Logs(q, i + 2, n, excess)
  BY <1>2, <1>4 DEF Logs, For
<1>7. Starts(p, i + 2) <=> Starts(q, i + 1)
  BY <1>2 DEF Starts
<1>8. i + 1 # 1 /\ (i + 1) + 1 = i + 2 /\ (i + 1) + 2 = i + 3
  BY <1>1
<1>9. Starts(p, i + 1) <=> Starts(q, i)
  BY <1>2 DEF Starts
<1>10. Follows(p, i + 1) => q[i].do # "react"
  BY <1>2, <1>8 DEF Follows
<1>11. ASSUME q[i].do # "react" PROVE Follows(p, i + 1) <=> Follows(q, i)
  <2>1. CASE q[i].do = "newaccount"
    BY <1>2, <1>3, <1>8, <2>1 DEF Follows
  <2>2. CASE q[i].do = "buyram"
    BY <1>2, <1>3, <1>5, <1>6, <1>8, <2>2 DEF Follows, Logs, For
  <2>3. CASE q[i].do = "transfer"
    BY <1>2, <1>5, <1>8, <2>3 DEF Follows
  <2>4. CASE q[i].do = "logcreation"
    BY <1>2, <1>7, <1>8, <2>4 DEF Follows
  <2>5. q[i] \in Actions
    BY ElementOfSeq
  <2>6. q[i].do \in {"newaccount", "buyram", "transfer", "logcreation"}
    BY <1>11, <2>5 DEF Actions
  <2> QED
    BY <2>1, <2>2, <2>3, <2>4, <2>6
<1> QED
  BY <1>9, <1>10, <1>11

LEMMA QueuedTail ==
  ASSUME NEW q, Queued(q), q # <<>>
  PROVE  Queued(Tail(q)) /\ (Tail(q) # <<>> => Head(Tail(q)).do # "react")
<1>1. q \in Seq(Actions) /\ \A i \in 1 .. Len(q) : Follows(q, i)
  BY DEF Queued
<1>2. /\ Tail(q) \in Seq(Actions) /\ Len(q) = Len(Tail(q)) + 1 /\ Len(Tail(q)) \in Nat
      /\ \A i \in 1 .. Len(Tail(q)) : q[i + 1] = Tail(q)[i]
  BY <1>1, TailOf
<1>3. ASSUME NEW i \in 1 .. Len(Tail(q))
      PROVE  Follows(Tail(q), i) /\ Tail(q)[i].do # "react"
  <2>1. Follows(q, i + 1)
    BY <1>1, <1>2
  <2> QED
    BY <1>1, <1>2, <2>1, FollowsShifted
<1>4. Tail(q) # <<>> => Head(Tail(q)) = Tail(q)[1] /\ 1 \in 1 .. Len(Tail(q))
  BY <1>2
<1> QED
  BY <1>2, <1>3, <1>4 DEF Queued

LEMMA QueuedPush ==
  ASSUME NEW e \in Actions, NEW q, Queued(q), q # <<>> => Head(q).do # "react",
         Follows(<<e>> \o q, 1)
  PROVE  Queued(<<e>> \o q)
<1> DEFINE p == <<e>> \o q
<1>1. q \in Seq(Actions) /\ \A i \in 1 .. Len(q) : Follows(q, i)
  BY DEF Queued
<1>2. /\ p \in Seq(Actions) /\ Len(p) = Len(q) + 1 /\ Len(q) \in Nat
      /\ \A i \in 1 .. Len(q) : p[i + 1] = q[i]
  BY <1>1, PushOf
<1>3. ASSUME NEW i \in 1 .. Len(q) PROVE q[i].do # "react"
  <2>1. CASE i = 1
    <3>1. q # <<>> /\ Head(q) = q[1]
      BY <1>1, <1>3
    <3> QED
      BY <2>1, <3>1
  <2>2. CASE i # 1
    BY <1>1, <2>2 DEF Follows
  <2> QED
    BY <2>1, <2>2
<1>4. ASSUME NEW i \in 1 .. Len(q) PROVE Follows(p, i + 1)
  BY <1>1, <1>2, <1>3, FollowsShifted
<1>5. ASSUME NEW j \in 1 .. Len(p), j # 1 PROVE Follows(p, j)
  <2>1. j - 1 \in 1 .. Len(q) /\ (j - 1) + 1 = j
    BY <1>2, <1>5
  <2> QED
    BY <1>4, <2>1
<1> QED
  BY <1>2, <1>5 DEF Queued

\* Concatenation, by a name that the provers do not look into.
Cat(a, b) == a \o b

LEMMA CatProperties ==
  ASSUME NEW S
  PROVE  /\ \A a, b \in Seq(S) : Cat(a, b) \in Seq(S)
         /\ \A a, b, c \in Seq(S) : Cat(Cat(a, b), c) = Cat(a, Cat(b, c))
<1>1. ASSUME NEW a \in Seq(S), NEW b \in Seq(S) PROVE a \o b \in Seq(S)
  BY ConcatProperties
<1>2. ASSUME NEW a \in Seq(S), NEW b \in Seq(S), NEW c \in Seq(S)
      PROVE  (a \o b) \o c = a \o (b \o c)
  BY ConcatAssociative
<1> QED
  BY <1>1, <1>2, Zenon DEF Cat

LEMMA CatRegrouped ==
  ASSUME NEW S, NEW a \in Seq(S), NEW b \in Seq(S), NEW c \in Seq(S), NEW d \in Seq(S),
         NEW e \in Seq(S)
  PROVE  Cat(Cat(Cat(Cat(a, b), c), d), e) = Cat(a, Cat(b, Cat(c, Cat(d, e))))
<1>1. Cat(a, b) \in Seq(S) /\ Cat(Cat(a, b), c) \in Seq(S) /\ Cat(d, e) \in Seq(S)
      /\ Cat(c, Cat(d, e)) \in Seq(S)
  BY CatProperties
<1>2. Cat(Cat(Cat(Cat(a, b), c), d), e) = Cat(Cat(Cat(a, b), c), Cat(d, e))
  BY <1>1, CatProperties
<1>3. Cat(Cat(Cat(a, b), c), Cat(d, e)) = Cat(Cat(a, b), Cat(c, Cat(d, e)))
  BY <1>1, CatProperties
<1>4. Cat(Cat(a, b), Cat(c, Cat(d, e))) = Cat(a, Cat(b, Cat(c, Cat(d, e))))
  BY <1>1, CatProperties
<1> QED
  BY <1>2, <1>3, <1>4

\* The actions that ontransfer sends are a creation, in front of a queue that
\* starts with one or is empty, and spend what was paid.
LEMMA CreationQueued ==
  ASSUME NEW from, NEW n \in Names, NEW text, NEW key, NEW paid \in Nat, NEW cost \in Nat,
         cost <= paid,
         [from |-> from, text |-> text, key |-> key, paid |-> paid, ram |-> cost,
          excess |-> paid - cost, quoted |-> market] \in Fair,
         NEW rest, Queued(rest), Starts(rest, 1), IsFiniteSet(UnitsOf(rest))
  PROVE  LET new == Creation(from, n, text, key, paid, cost) \o rest IN
           /\ Creation(from, n, text, key, paid, cost) \in Seq(Actions)
           /\ Queued(new) /\ Starts(new, 1) /\ Len(new) >= 3
           /\ IsFiniteSet(UnitsOf(new))
           /\ Cardinality(UnitsOf(new)) = Cardinality(UnitsOf(rest)) + paid
<1> DEFINE deal == [from |-> from, text |-> text, key |-> key, paid |-> paid, ram |-> cost,
                    excess |-> paid - cost, quoted |-> market]
           new  == [do |-> "newaccount", account |-> n, quantity |-> 0, key |-> key]
           buy  == [do |-> "buyram", account |-> n, quantity |-> cost]
           move == [do |-> "transfer", account |-> n, quantity |-> paid - cost]
           log  == [do |-> "logcreation", account |-> n, quantity |-> 0, deal |-> deal]
           refund == Refund(n, paid - cost)
           r1 == <<log>> \o rest
           r2 == refund \o r1
           r3 == <<buy>> \o r2
           r4 == <<new>> \o r3
<1>1. paid - cost \in Nat /\ rest \in Seq(Actions)
  BY DEF Queued
<1>2. new \in Actions /\ buy \in Actions /\ move \in Actions /\ log \in Actions
  <2>1. key \in ReadKeys
    BY DEF Fair, Deals
  <2> QED
    BY <1>1, <2>1 DEF Actions
<1>3. /\ new.do = "newaccount" /\ new.account = n /\ new.quantity = 0
      /\ buy.do = "buyram" /\ buy.account = n /\ buy.quantity = cost
      /\ move.do = "transfer" /\ move.account = n /\ move.quantity = paid - cost
      /\ log.do = "logcreation" /\ log.account = n /\ log.quantity = 0
      /\ log.deal.ram = cost /\ log.deal.excess = paid - cost
  OBVIOUS
<1>4. /\ Creation(from, n, text, key, paid, cost) = <<new, buy>> \o refund \o <<log>>
      /\ refund = IF paid - cost > 0 THEN <<move>> ELSE <<>>
  BY DEF Creation, Refund
<1> HIDE DEF new, buy, move, log, deal, refund
<1>5. refund \in Seq(Actions)
  BY <1>2, <1>4
<1>6. Creation(from, n, text, key, paid, cost) \o rest = r4
  <2> DEFINE a == <<new>>
             b == <<buy>>
             c == <<log>>
  <2>1. /\ <<new, buy>> = a \o b
        /\ a \in Seq(Actions) /\ b \in Seq(Actions) /\ c \in Seq(Actions)
    BY <1>2, PairIsConcat
  <2>2. Creation(from, n, text, key, paid, cost) = <<new, buy>> \o refund \o c
    BY <1>4, Zenon
  <2>3. r4 = a \o (b \o (refund \o (c \o rest)))
    BY Zenon
  <2> HIDE DEF a, b, c, r4
  <2>4. Creation(from, n, text, key, paid, cost) \o rest
          = Cat(Cat(Cat(Cat(a, b), refund), c), rest)
    BY <2>1, <2>2, Zenon DEF Cat
  <2>5. r4 = Cat(a, Cat(b, Cat(refund, Cat(c, rest))))
    BY <2>3, Zenon DEF Cat
  <2>6. Cat(Cat(Cat(Cat(a, b), refund), c), rest)
          = Cat(a, Cat(b, Cat(refund, Cat(c, rest))))
    BY <1>1, <1>5, <2>1, CatRegrouped
  <2> QED
    BY <2>4, <2>5, <2>6, Zenon
<1>7. Creation(from, n, text, key, paid, cost) \in Seq(Actions)
  <2>1. <<new, buy>> \in Seq(Actions) /\ <<log>> \in Seq(Actions)
    BY <1>2
  <2>2. <<new, buy>> \o refund \in Seq(Actions)
    BY <1>5, <2>1, ConcatProperties
  <2> QED
    BY <1>4, <2>1, <2>2, ConcatProperties
<1> HIDE DEF r1, r2, r3, r4
<1>8. /\ Queued(r1) /\ r1[1] = log /\ 1 \in DOMAIN r1 /\ Head(r1) = log
      /\ IsFiniteSet(UnitsOf(r1)) /\ Len(r1) \in Nat /\ Len(r1) >= 1
      /\ Cardinality(UnitsOf(r1)) = Cardinality(UnitsOf(rest))
  <2>1. /\ r1 \in Seq(Actions) /\ Len(r1) = Len(rest) + 1 /\ r1[1] = log /\ Head(r1) = log
        /\ \A i \in 1 .. Len(rest) : r1[i + 1] = rest[i]
        /\ Len(rest) \in Nat
    BY <1>1, <1>2, PushOf DEF r1
  <2>2. DOMAIN r1 = 1 .. Len(r1) /\ DOMAIN rest = 1 .. Len(rest)
    BY <1>1, <2>1, LenProperties
  <2>3. Starts(r1, 2)
    BY <2>1, <2>2 DEF Starts
  <2>4. Follows(r1, 1)
    BY <1>3, <2>1, <2>3 DEF Follows
  <2>5. rest # <<>> => Head(rest).do # "react"
    BY <1>1, <2>2 DEF Starts
  <2>6. Queued(r1)
    BY <1>2, <2>4, <2>5, QueuedPush DEF r1
  <2>7. /\ IsFiniteSet(UnitsOf(r1))
        /\ Cardinality(UnitsOf(r1)) = Cardinality(UnitsOf(rest)) + 0
    BY <1>1, <1>2, <1>3, UnitsOfPush DEF r1
  <2>8. Cardinality(UnitsOf(rest)) \in Nat
    BY FS_CardinalityType
  <2> QED
    BY <2>1, <2>2, <2>6, <2>7, <2>8
<1>9. /\ Queued(r2) /\ Head(r2).do # "react" /\ r2 # <<>> /\ Len(r2) \in Nat /\ Len(r2) >= 1
      /\ IsFiniteSet(UnitsOf(r2))
      /\ Cardinality(UnitsOf(r2)) = Cardinality(UnitsOf(rest)) + (paid - cost)
      /\ \/ Logs(r2, 1, n, 0) /\ r2[1].deal.ram = cost
         \/ /\ For(r2, 1, n, "transfer") /\ Logs(r2, 2, n, r2[1].quantity)
            /\ r2[2].deal.ram = cost
  <2>0. Cardinality(UnitsOf(rest)) \in Nat
    BY FS_CardinalityType
  <2>1. CASE paid - cost > 0
    <3>1. refund = <<move>> /\ r2 = <<move>> \o r1 /\ r1 \in Seq(Actions)
      BY <1>4, <1>8, <2>1 DEF r2, Queued
    <3>2. /\ r2 \in Seq(Actions) /\ Len(r2) = Len(r1) + 1 /\ r2[1] = move /\ Head(r2) = move
          /\ r2[2] = log /\ r2 # <<>>
      BY <1>2, <1>8, <3>1, PushOf
    <3>3. DOMAIN r2 = 1 .. Len(r2)
      BY <3>2, LenProperties
    <3>4. For(r2, 1, n, "transfer") /\ Logs(r2, 2, n, r2[1].quantity) /\ r2[2].deal.ram = cost
      BY <1>3, <1>8, <3>2, <3>3 DEF For, Logs
    <3>5. Follows(r2, 1)
      BY <1>3, <3>2, <3>4 DEF Follows
    <3>6. Queued(r2)
      BY <1>2, <1>3, <1>8, <3>1, <3>5, QueuedPush
    <3>7. /\ IsFiniteSet(UnitsOf(r2))
          /\ Cardinality(UnitsOf(r2)) = Cardinality(UnitsOf(r1)) + (paid - cost)
      BY <1>1, <1>2, <1>3, <1>8, <3>1, UnitsOfPush
    <3> QED
      BY <1>3, <1>8, <3>2, <3>4, <3>6, <3>7
  <2>2. CASE ~ (paid - cost > 0)
    <3>1. refund = <<>> /\ paid - cost = 0 /\ r1 \in Seq(Actions)
      BY <1>1, <1>4, <1>8, <2>2 DEF Queued
    <3>2. r2 = r1
      BY <3>1, ConcatEmptySeq DEF r2
    <3>3. Logs(r2, 1, n, 0) /\ r2[1].deal.ram = cost
      BY <1>3, <1>8, <3>1, <3>2 DEF For, Logs
    <3> QED
      BY <1>3, <1>8, <2>0, <3>1, <3>2, <3>3
  <2> QED
    BY <2>1, <2>2
<1>10. /\ Queued(r3) /\ r3[1] = buy /\ Head(r3) = buy /\ r3 # <<>> /\ 1 \in DOMAIN r3
       /\ IsFiniteSet(UnitsOf(r3)) /\ Len(r3) \in Nat /\ Len(r3) >= 2
       /\ Cardinality(UnitsOf(r3)) = Cardinality(UnitsOf(rest)) + paid
  <2>1. r2 \in Seq(Actions) /\ \A i \in 1 .. Len(r2) : Follows(r2, i)
    BY <1>9 DEF Queued
  <2>2. /\ r3 \in Seq(Actions) /\ Len(r3) = Len(r2) + 1 /\ r3[1] = buy /\ Head(r3) = buy
        /\ r3 # <<>> /\ \A i \in 1 .. Len(r2) : r3[i + 1] = r2[i]
    BY <1>2, <2>1, PushOf DEF r3
  <2>3. DOMAIN r3 = 1 .. Len(r3) /\ DOMAIN r2 = 1 .. Len(r2)
    BY <2>1, <2>2, LenProperties
  <2>4. Follows(r3, 1)
    <3>1. CASE Logs(r2, 1, n, 0) /\ r2[1].deal.ram = cost
      BY <1>3, <1>9, <2>2, <2>3, <3>1 DEF Follows, Logs, For
    <3>2. CASE /\ For(r2, 1, n, "transfer") /\ Logs(r2, 2, n, r2[1].quantity)
               /\ r2[2].deal.ram = cost
      <4>1. r3[2] = r2[1] /\ r3[3] = r2[2] /\ 2 \in DOMAIN r3 /\ 3 \in DOMAIN r3
        BY <1>9, <2>2, <2>3, <3>2 DEF Logs, For
      <4> QED
        BY <1>3, <2>2, <3>2, <4>1 DEF Follows, Logs, For
    <3> QED
      BY <1>9, <3>1, <3>2
  <2>5. Queued(r3)
    BY <1>2, <1>9, <2>4, QueuedPush DEF r3
  <2>6. /\ IsFiniteSet(UnitsOf(r3))
        /\ Cardinality(UnitsOf(r3)) = Cardinality(UnitsOf(r2)) + cost
    BY <1>2, <1>3, <1>9, <2>1, UnitsOfPush DEF r3
  <2>7. Cardinality(UnitsOf(rest)) \in Nat
    BY FS_CardinalityType
  <2> QED
    BY <1>9, <2>2, <2>3, <2>5, <2>6, <2>7
<1>11. /\ Queued(r4) /\ Starts(r4, 1) /\ IsFiniteSet(UnitsOf(r4)) /\ Len(r4) >= 3
       /\ Cardinality(UnitsOf(r4)) = Cardinality(UnitsOf(rest)) + paid
  <2>1. r3 \in Seq(Actions)
    BY <1>10 DEF Queued
  <2>2. /\ r4 \in Seq(Actions) /\ Len(r4) = Len(r3) + 1 /\ r4[1] = new /\ Head(r4) = new
        /\ \A i \in 1 .. Len(r3) : r4[i + 1] = r3[i]
    BY <1>2, <2>1, PushOf DEF r4
  <2>3. DOMAIN r4 = 1 .. Len(r4)
    BY <2>2, LenProperties
  <2>4. Follows(r4, 1)
    BY <1>3, <1>10, <2>2, <2>3 DEF Follows, For
  <2>5. Queued(r4)
    BY <1>2, <1>3, <1>10, <2>4, QueuedPush DEF r4
  <2>6. /\ IsFiniteSet(UnitsOf(r4))
        /\ Cardinality(UnitsOf(r4)) = Cardinality(UnitsOf(r3)) + 0
    BY <1>2, <1>3, <1>10, <2>1, UnitsOfPush DEF r4
  <2>7. Cardinality(UnitsOf(rest)) \in Nat
    BY FS_CardinalityType
  <2> QED
    BY <1>3, <1>10, <2>2, <2>5, <2>6, <2>7 DEF Starts
<1> QED
  BY <1>6, <1>7, <1>11

----
(* What the steps have in common. *)

LEMMA StateFields ==
  /\ State.coins = coins /\ State.accounts = accounts /\ State.ram = ram
  /\ State.market = market /\ State.room = room /\ State.deals = deals /\ State.kept = kept
  /\ State # <<>>
<1>1. DOMAIN State # DOMAIN <<>>
  BY DEF State
<1>2. State # <<>>
  BY <1>1
<1> QED
  BY <1>2 DEF State

LEMMA PriceType ==
  ASSUME NEW reserves \in Reserves
  PROVE  Price(reserves) \in Nat
<1> DEFINE cost == RamCost(reserves, BytesForCreation)
<1>1. cost \in Nat
  <2>1. CASE BytesForCreation < reserves.base
    <3>1. /\ reserves.base - BytesForCreation \in Nat /\ reserves.base - BytesForCreation > 0
          /\ reserves.quote * BytesForCreation \in Nat
      BY <2>1, CreateAssumption DEF Reserves
    <3> QED
      BY <2>1, <3>1, Quotient DEF RamCost, BancorInput
  <2>2. CASE ~ (BytesForCreation < reserves.base)
    BY <2>2 DEF RamCost, BancorInput
  <2> QED
    BY <2>1, <2>2
<1> HIDE DEF cost
<1>2. Fee(cost) \in Nat
  BY <1>1, FeeBounds
<1> QED
  BY <1>1, <1>2 DEF Price, RamCostWithFee, cost

\* What is bought was for sale.
LEMMA BytesType ==
  ASSUME NEW reserves \in Reserves, NEW q \in Nat, q > Fee(q)
  PROVE  /\ Fee(q) \in Nat
         /\ BytesCostWithFee(reserves, q) \in Nat
         /\ BytesCostWithFee(reserves, q) <= reserves.base
<1> DEFINE base == reserves.base
           quote == reserves.quote
           spent == q - Fee(q)
<1>1. Fee(q) \in Nat
  BY FeeBounds
<1>2. base \in Nat /\ quote \in Nat /\ spent \in Nat /\ spent > 0
  BY <1>1 DEF Reserves
<1>3. BytesCostWithFee(reserves, q) = (spent * base) \div (quote + spent)
  BY DEF BytesCostWithFee, BancorOutput
<1> HIDE DEF base, quote, spent
<1>4. /\ spent * base \in Nat /\ quote + spent \in Nat /\ quote + spent > 0
      /\ base * quote \in Nat
      /\ base * (quote + spent) = base * quote + spent * base
  BY <1>2
<1>5. spent * base <= base * (quote + spent)
  BY <1>4
<1>6. (spent * base) \div (quote + spent) <= base
  BY <1>2, <1>4, <1>5, QuotientAtMost
<1>7. (spent * base) \div (quote + spent) \in Nat
  BY <1>4, Quotient
<1> QED
  BY <1>1, <1>3, <1>6, <1>7 DEF base

LEMMA NothingCommitted ==
  /\ IsFiniteSet(UnitsOf(<<>>)) /\ Cardinality(UnitsOf(<<>>)) = 0
  /\ Queued(<<>>) /\ Starts(<<>>, 1)
<1>1. UnitsOf(<<>>) = {}
  BY DEF UnitsOf
<1>2. Queued(<<>>) /\ Starts(<<>>, 1)
  BY EmptySeq DEF Queued, Starts
<1> QED
  BY <1>1, <1>2, FS_EmptySet

\* Before a transaction the state is one that it may return to.
LEMMA IdleSettled == ASSUME IInv, Idle PROVE Settled(State)
<1>1. todo = <<>> /\ NoCreation(todo)
  BY DEF Idle, NoCreation
<1>2. Committed = 0
  BY <1>1, NothingCommitted DEF Committed
<1>3. coins[Create] = kept + 0
  BY <1>2 DEF IInv, NothingKept
<1>4. kept \in Nat
  BY StateFields DEF IInv, Typed
<1> QED
  BY <1>1, <1>3, <1>4, StateFields DEF IInv, Settled

\* What is left to show of a step that goes on with the queue.
LEMMA Proceeded ==
  ASSUME IInv, NEW sent, Proceed(sent),
         Typed(State)', Consistent(State)', Queued(todo)', Ready(State, todo)',
         NoCreation(todo)' => Sufficient(State)',
         IsFiniteSet(UnitsOf(todo))', NothingKept'
  PROVE  IInv'
<1>1. CASE todo' = <<>>
  BY <1>1 DEF Proceed, IInv, Idle
<1>2. CASE todo' # <<>> /\ Idle
  <2>1. saved' = State
    BY <1>2 DEF Proceed
  <2> QED
    BY <1>2, <2>1, IdleSettled, StateFields DEF IInv, Idle
<1>3. CASE todo' # <<>> /\ ~ Idle
  <2>1. saved' = saved
    BY <1>3 DEF Proceed
  <2> QED
    BY <1>3, <2>1 DEF IInv, Idle
<1> QED
  BY <1>1, <1>2, <1>3

\* The action at the head, and the queue without it.
LEMMA Popped ==
  ASSUME IInv, ~ Idle
  PROVE  /\ Rest = Tail(todo) /\ todo[1] = Head(todo) /\ Head(todo) \in Actions
         /\ Follows(todo, 1)
         /\ Queued(Tail(todo)) /\ IsFiniteSet(UnitsOf(Tail(todo)))
         /\ Cardinality(UnitsOf(Tail(todo))) \in Nat /\ Head(todo).quantity \in Nat
         /\ Committed = Cardinality(UnitsOf(Tail(todo))) + Head(todo).quantity
         /\ NoCreation(Tail(todo)) => Tail(todo) = <<>> /\ Len(todo) = 1
         /\ 2 \in DOMAIN todo => Tail(todo) # <<>> /\ Head(Tail(todo)) = todo[2]
         /\ 3 \in DOMAIN todo => Tail(todo)[2] = todo[3]
<1>1. Queued(todo) /\ todo # <<>> /\ IsFiniteSet(UnitsOf(todo))
  BY DEF IInv, Idle
<1>2. todo \in Seq(Actions) /\ \A i \in 1 .. Len(todo) : Follows(todo, i)
  BY <1>1 DEF Queued
<1>3. /\ Tail(todo) \in Seq(Actions) /\ Len(todo) \in Nat /\ Len(todo) >= 1
      /\ Len(Tail(todo)) = Len(todo) - 1
      /\ Head(todo) = todo[1] /\ todo[1] \in Actions
      /\ \A i \in 1 .. Len(todo) - 1 : Tail(todo)[i] = todo[i + 1]
  BY <1>1, <1>2, TailOf
<1>4. Queued(Tail(todo)) /\ (Tail(todo) # <<>> => Head(Tail(todo)).do # "react")
  BY <1>1, QueuedTail
<1>5. Head(todo).quantity \in Nat
  BY <1>3 DEF Actions
<1>6. /\ IsFiniteSet(UnitsOf(Tail(todo)))
      /\ Committed = Cardinality(UnitsOf(Tail(todo))) + Head(todo).quantity
  BY <1>1, <1>2, <1>5, UnitsOfTail DEF Committed
<1>7. DOMAIN todo = 1 .. Len(todo)
  BY <1>2, LenProperties
<1>8. 2 \in DOMAIN todo => Tail(todo) # <<>> /\ Head(Tail(todo)) = todo[2]
  <2>1. ASSUME 2 \in DOMAIN todo PROVE Tail(todo) # <<>> /\ Head(Tail(todo)) = todo[2]
    <3>1. 1 \in 1 .. Len(todo) - 1 /\ 1 + 1 = 2 /\ Len(Tail(todo)) >= 1
      BY <1>3, <1>7, <2>1
    <3>2. Tail(todo)[1] = todo[2]
      BY <1>3, <3>1
    <3> QED
      BY <1>3, <3>1, <3>2, FirstOf
  <2> QED
    BY <2>1
<1>9. 3 \in DOMAIN todo => Tail(todo)[2] = todo[3]
  <2>1. ASSUME 3 \in DOMAIN todo PROVE Tail(todo)[2] = todo[3]
    <3>1. 2 \in 1 .. Len(todo) - 1 /\ 2 + 1 = 3
      BY <1>3, <1>7, <2>1
    <3> QED
      BY <1>3, <3>1
  <2> QED
    BY <2>1
<1>10. NoCreation(Tail(todo)) => Tail(todo) = <<>> /\ Len(todo) = 1
  <2>1. Tail(todo) = <<>> => Len(todo) = 1
    <3>1. ASSUME Tail(todo) = <<>> PROVE Len(Tail(todo)) = 0
      BY <3>1, EmptySeq
    <3> QED
      BY <1>3, <3>1
  <2> QED
    BY <1>4, <2>1 DEF NoCreation
<1>11. Cardinality(UnitsOf(Tail(todo))) \in Nat
  BY <1>6, FS_CardinalityType
<1>12. Follows(todo, 1) /\ Rest = Tail(todo)
  BY <1>2, <1>3 DEF Rest, Idle
<1> QED
  BY <1>3, <1>4, <1>5, <1>6, <1>8, <1>9, <1>10, <1>11, <1>12

\* A turn is taken between creations, and spends nothing by itself.
LEMMA TurnTaken ==
  ASSUME IInv, Idle \/ Upcoming("react")
  PROVE  /\ Queued(Rest) /\ Starts(Rest, 1) /\ IsFiniteSet(UnitsOf(Rest))
         /\ Cardinality(UnitsOf(Rest)) = Committed
         /\ NoCreation(Rest) => Rest = <<>> /\ NoCreation(todo)
         /\ \A s : Ready(s, Rest)
<1>1. CASE Idle
  BY <1>1, NothingCommitted DEF Idle, Rest, Committed, NoCreation, Ready
<1>2. CASE Upcoming("react")
  <2>1. ~ Idle /\ Head(todo).do = "react"
    BY <1>2 DEF Upcoming
  <2>2. Starts(todo, 2) /\ Head(todo).quantity = 0
    BY <2>1, Popped DEF Follows, Actions
  <2>3. Tail(todo) # <<>> => Head(Tail(todo)).do = "newaccount"
    <3>1. ASSUME Tail(todo) # <<>> PROVE 2 \in DOMAIN todo
      <4>1. todo \in Seq(Actions) /\ todo # <<>>
        BY <2>1 DEF IInv, Queued, Idle
      <4> QED
        BY <3>1, <4>1
    <3> QED
      BY <2>1, <2>2, <3>1, Popped DEF Starts
  <2>4. Starts(Tail(todo), 1)
    <3>1. Tail(todo) \in Seq(Actions)
      BY <2>1, Popped DEF Queued
    <3> QED
      BY <2>3, <3>1, FirstOf DEF Starts
  <2>5. \A s : Ready(s, Tail(todo))
    BY <2>3 DEF Ready
  <2>6. Cardinality(UnitsOf(Tail(todo))) = Committed
    BY <2>1, <2>2, Popped
  <2>7. NoCreation(Tail(todo)) => Tail(todo) = <<>> /\ NoCreation(todo)
    BY <2>1, Popped DEF NoCreation
  <2> QED
    BY <2>1, <2>4, <2>5, <2>6, <2>7, Popped
<1> QED
  BY <1>1, <1>2

----
(* Each action preserves the invariant. *)

LEMMA AccountsFacts ==
  /\ Create \in Accounts /\ Create \notin Names /\ Proxy # Create /\ Ram # Create
  /\ Payers \subseteq Accounts /\ Create \notin Payers /\ {Ram, Proxy} \subseteq Accounts
  /\ Names \cap Accounts = {}
<1>1. Create # Ram /\ Create # Proxy
  <2>1. Cardinality({Create, Ram, Proxy}) = 3
    BY CreateAssumption
  <2>2. ASSUME NEW x, NEW y PROVE Cardinality({x, y}) <= 2
    <3>1. IsFiniteSet({x}) /\ Cardinality({x}) = 1 /\ IsFiniteSet({y}) /\ Cardinality({y}) = 1
      BY FS_Singleton
    <3>2. Cardinality({x} \cup {y}) = 1 + 1 - Cardinality({x} \cap {y})
      BY <3>1, FS_Union
    <3>3. Cardinality({x} \cap {y}) \in Nat
      BY <3>1, FS_Subset, FS_CardinalityType
    <3>4. {x, y} = {x} \cup {y}
      OBVIOUS
    <3> QED
      BY <3>2, <3>3, <3>4
  <2>3. ASSUME Create = Ram PROVE FALSE
    <3>1. {Create, Ram, Proxy} = {Ram, Proxy}
      BY <2>3
    <3>2. Cardinality({Ram, Proxy}) <= 2
      BY <2>2
    <3> QED
      BY <2>1, <3>1, <3>2
  <2>4. ASSUME Create = Proxy PROVE FALSE
    <3>1. {Create, Ram, Proxy} = {Ram, Proxy}
      BY <2>4
    <3>2. Cardinality({Ram, Proxy}) <= 2
      BY <2>2
    <3> QED
      BY <2>1, <3>1, <3>2
  <2> QED
    BY <2>3, <2>4
<1> QED
  BY <1>1, CreateAssumption

LEMMA NewAccountInv == IInv /\ NewAccount => IInv'
<1> SUFFICES ASSUME IInv, NewAccount PROVE IInv'
  OBVIOUS
<1> DEFINE n == Head(todo).account
           t == Tail(todo)
<1>1. /\ ~ Idle /\ Head(todo).do = "newaccount" /\ CanCreate(n, Head(todo).key)
      /\ accounts' = accounts \cup {n} /\ Proceed(<<>>)
      /\ UNCHANGED <<coins, ram, market, room, deals, kept>>
  BY DEF NewAccount, Upcoming
<1>2. n \in Names /\ n \notin accounts /\ Head(todo).quantity = 0
  BY <1>1, Popped, CreateAssumption DEF CanCreate, Actions
<1>3. todo' = t
  <2>1. t \in Seq(Actions)
    BY <1>1, Popped DEF Queued
  <2> QED
    BY <1>1, <2>1, Popped, ConcatEmptySeq DEF Proceed
<1>4. Typed(State) /\ Consistent(State)
  BY DEF IInv
<1>5. For(todo, 2, n, "buyram")
  BY <1>1, Popped DEF Follows
<1>6. t # <<>> /\ Head(t).do = "buyram" /\ Head(t).account = n
  BY <1>1, <1>5, Popped DEF For
<1>7. Typed(State)'
  BY <1>1, <1>2, <1>4 DEF State, Typed
<1>8. Consistent(State)'
  BY <1>1, <1>4 DEF State, Consistent, Untouched, Bought
<1>9. Ready(State, todo)'
  BY <1>1, <1>2, <1>3, <1>4, <1>6 DEF State, Consistent, Untouched, Ready
<1>10. ~ NoCreation(todo)'
  BY <1>3, <1>6 DEF NoCreation
<1>11. NothingKept' /\ IsFiniteSet(UnitsOf(todo))' /\ Queued(todo)'
  <2>1. Committed' = Committed
    BY <1>1, <1>2, <1>3, Popped DEF Committed
  <2> QED
    BY <1>1, <1>3, <2>1, Popped DEF IInv, NothingKept
<1> QED
  BY <1>1, <1>7, <1>8, <1>9, <1>10, <1>11, Proceeded

LEMMA BuyRamInv == IInv /\ BuyRam => IInv'
<1> SUFFICES ASSUME IInv, BuyRam PROVE IInv'
  OBVIOUS
<1> DEFINE n == Head(todo).account
           q == Head(todo).quantity
           bytes == BytesCostWithFee(market, q)
           t == Tail(todo)
<1>1. /\ ~ Idle /\ Head(todo).do = "buyram" /\ CanBuy(q)
      /\ coins' = [coins EXCEPT ![Create] = coins[Create] - q]
      /\ ram' = [ram EXCEPT ![n] = [bytes |-> ram[n].bytes + bytes, from |-> market]]
      /\ market' = [base |-> market.base - bytes, quote |-> market.quote + q - Fee(q)]
      /\ Proceed(<<>>) /\ UNCHANGED <<accounts, room, deals, kept>>
  BY DEF BuyRam, Upcoming
<1>2. n \in Names /\ q \in Nat
  BY <1>1, Popped DEF Actions
<1>3. todo' = t
  <2>1. t \in Seq(Actions)
    BY <1>1, Popped DEF Queued
  <2> QED
    BY <1>1, <2>1, Popped, ConcatEmptySeq DEF Proceed
<1>4. Typed(State) /\ Consistent(State) /\ Ready(State, todo)
  BY DEF IInv
<1>5. n \in accounts /\ deals[n] = NoDeal /\ coins[n] = 0 /\ ram[n].bytes = 0
  BY <1>1, <1>4 DEF Ready, State, Idle
<1>6. /\ q > Fee(q) /\ coins[Create] >= q /\ Fee(q) \in Nat /\ bytes \in Nat
      /\ bytes <= market.base /\ market \in Reserves
  BY <1>1, <1>2, <1>4, BytesType, StateFields DEF CanBuy, Typed
<1> HIDE DEF n, q, bytes
<1>7. Typed(State)'
  <2>1. market' \in Reserves /\ ram' \in [Names -> [bytes : Nat, from : Reserves]]
    <3>1. market.base \in Nat /\ market.quote \in Nat
      BY <1>6 DEF Reserves
    <3>2. market.base - bytes \in Nat /\ market.quote + q - Fee(q) \in Nat
      BY <1>2, <1>6, <3>1
    <3>3. market' \in Reserves
      BY <1>1, <3>2 DEF Reserves
    <3>4. ram \in [Names -> [bytes : Nat, from : Reserves]]
      BY <1>4, StateFields DEF Typed
    <3>5. [bytes |-> ram[n].bytes + bytes, from |-> market] \in [bytes : Nat, from : Reserves]
      BY <1>2, <1>6, <3>4
    <3> QED
      BY <1>1, <1>2, <3>3, <3>4, <3>5
  <2>2. coins' \in [Accounts \cup Names -> Nat]
    BY <1>1, <1>2, <1>4, <1>6, StateFields, AccountsFacts DEF Typed
  <2> QED
    BY <1>1, <1>4, <2>1, <2>2 DEF State, Typed
<1>8. /\ ram'[n].bytes = bytes /\ ram'[n].from = market /\ coins'[n] = 0
      /\ \A m \in Names \ {n} : ram'[m] = ram[m]
      /\ \A m \in Names : coins'[m] = coins[m]
      /\ coins'[Create] = coins[Create] - q
  BY <1>1, <1>2, <1>4, <1>5, <1>6, StateFields, AccountsFacts DEF Typed
<1>9. Consistent(State)'
  <2> SUFFICES ASSUME NEW m \in Names
               PROVE  /\ m \notin accounts' => Untouched(State', m)
                      /\ deals'[m] # NoDeal =>
                           /\ m \in accounts' /\ coins'[m] = deals'[m].excess
                           /\ Bought(State', m, deals'[m].ram)
    BY DEF Consistent, State
  <2>1. CASE m = n
    BY <1>1, <1>5, <2>1
  <2>2. CASE m # n
    BY <1>1, <1>4, <1>8, <2>2 DEF Consistent, State, Untouched, Bought
  <2> QED
    BY <2>1, <2>2
<1>10. Bought(State', n, q)
  BY <1>6, <1>8 DEF Bought, State, bytes
<1>11. /\ t # <<>> /\ Head(t).account = n
       /\ \/ Head(t).do = "logcreation" /\ Head(t).deal.excess = 0 /\ Head(t).deal.ram = q
          \/ Head(t).do = "transfer" /\ t[2].deal.ram = q
  <2>1. \/ Logs(todo, 2, n, 0) /\ todo[2].deal.ram = q
        \/ /\ For(todo, 2, n, "transfer") /\ Logs(todo, 3, n, todo[2].quantity)
           /\ todo[3].deal.ram = q
    BY <1>1, Popped DEF Follows, n, q
  <2> QED
    BY <1>1, <2>1, Popped DEF Logs, For
<1>12. Ready(State, todo)'
  <2>1. CASE Head(t).do = "logcreation"
    BY <1>1, <1>3, <1>5, <1>8, <1>10, <1>11, <2>1 DEF Ready, State
  <2>2. CASE Head(t).do = "transfer"
    BY <1>1, <1>3, <1>5, <1>8, <1>10, <1>11, <2>2 DEF Ready, State
  <2> QED
    BY <1>11, <2>1, <2>2
<1>13. ~ NoCreation(todo)'
  BY <1>3, <1>11 DEF NoCreation
<1>14. NothingKept' /\ IsFiniteSet(UnitsOf(todo))' /\ Queued(todo)'
  <2>1. Committed = Committed' + q /\ Committed' \in Nat
    BY <1>1, <1>3, Popped DEF Committed, q
  <2>2. kept' = kept /\ kept \in Nat /\ coins[Create] = kept + Committed
    BY <1>1, <1>4, StateFields DEF IInv, NothingKept, Typed
  <2>3. coins'[Create] = kept' + Committed'
    BY <1>2, <1>8, <2>1, <2>2
  <2> QED
    BY <1>1, <1>3, <2>3, Popped DEF NothingKept
<1> QED
  BY <1>1, <1>7, <1>9, <1>12, <1>13, <1>14, Proceeded

LEMMA SendRefundInv == IInv /\ SendRefund => IInv'
<1> SUFFICES ASSUME IInv, SendRefund PROVE IInv'
  OBVIOUS
<1> DEFINE n == Head(todo).account
           q == Head(todo).quantity
           t == Tail(todo)
<1>1. /\ ~ Idle /\ Head(todo).do = "transfer"
      /\ coins' = [coins EXCEPT ![Create] = coins[Create] - q, ![n] = @ + q]
      /\ room' = room - 1 /\ Proceed(<<>>) /\ UNCHANGED <<accounts, ram, market, deals, kept>>
  BY DEF SendRefund, Upcoming
<1>2. n \in Names /\ q \in Nat
  BY <1>1, Popped DEF Actions
<1>3. todo' = t
  <2>1. t \in Seq(Actions)
    BY <1>1, Popped DEF Queued
  <2> QED
    BY <1>1, <2>1, Popped, ConcatEmptySeq DEF Proceed
<1>4. Typed(State) /\ Consistent(State) /\ Ready(State, todo)
  BY DEF IInv
<1>5. /\ n \in accounts /\ deals[n] = NoDeal /\ coins[n] = 0
      /\ Bought(State, n, todo[2].deal.ram)
  BY <1>1, <1>4 DEF Ready, State, Idle
<1>6. Logs(todo, 2, n, q)
  BY <1>1, Popped DEF Follows
<1>7. /\ t # <<>> /\ Head(t).account = n /\ Head(t).do = "logcreation"
      /\ Head(t).deal.excess = q /\ Head(t).deal = todo[2].deal
  BY <1>1, <1>6, Popped DEF Logs, For
<1>8. /\ Committed = Committed' + q /\ Committed' \in Nat
      /\ kept' = kept /\ kept \in Nat /\ coins[Create] = kept + Committed
  BY <1>1, <1>3, <1>4, Popped, StateFields DEF IInv, NothingKept, Typed, Committed
<1> HIDE DEF n, q, t
<1>9. coins \in [Accounts \cup Names -> Nat] /\ n # Create /\ Create \in Accounts
  BY <1>2, <1>4, StateFields, AccountsFacts DEF Typed
<1>10. coins[Create] - q \in Nat
  <2> DEFINE left == Committed'
  <2>1. left \in Nat /\ coins[Create] = kept + (left + q) /\ kept \in Nat
    BY <1>8
  <2> HIDE DEF left
  <2>2. (kept + (left + q)) - q = kept + left /\ kept + left \in Nat
    BY <1>2, <2>1
  <2> QED
    BY <2>1, <2>2
<1>11. /\ coins' \in [Accounts \cup Names -> Nat]
       /\ coins'[n] = q /\ coins'[Create] = coins[Create] - q
       /\ \A m \in Names \ {n} : coins'[m] = coins[m]
  BY <1>1, <1>2, <1>5, <1>9, <1>10, AccountsFacts
<1>12. Typed(State)'
  <2>1. room' \in Int
    BY <1>1, <1>4, StateFields DEF Typed
  <2> QED
    BY <1>1, <1>4, <1>11, <2>1 DEF State, Typed
<1>13. Consistent(State)'
  <2> SUFFICES ASSUME NEW m \in Names
               PROVE  /\ m \notin accounts' => Untouched(State', m)
                      /\ deals'[m] # NoDeal =>
                           /\ m \in accounts' /\ coins'[m] = deals'[m].excess
                           /\ Bought(State', m, deals'[m].ram)
    BY DEF Consistent, State
  <2>1. CASE m = n
    BY <1>1, <1>5, <2>1
  <2>2. CASE m # n
    BY <1>1, <1>4, <1>11, <2>2 DEF Consistent, State, Untouched, Bought
  <2> QED
    BY <2>1, <2>2
<1>14. Ready(State, todo)'
  <2>1. Bought(State', n, Head(t).deal.ram)
    BY <1>1, <1>5, <1>7 DEF Bought, State
  <2> QED
    BY <1>1, <1>3, <1>5, <1>7, <1>11, <2>1 DEF Ready, State
<1>15. ~ NoCreation(todo)'
  BY <1>3, <1>7 DEF NoCreation
<1>16. coins'[Create] = kept' + Committed'
  BY <1>2, <1>8, <1>11
<1>17. NothingKept' /\ IsFiniteSet(UnitsOf(todo))' /\ Queued(todo)'
  BY <1>1, <1>3, <1>16, Popped DEF NothingKept, t
<1> QED
  BY <1>1, <1>12, <1>13, <1>14, <1>15, <1>17, Proceeded

LEMMA LogCreationInv == IInv /\ LogCreation => IInv'
<1> SUFFICES ASSUME IInv, LogCreation PROVE IInv'
  OBVIOUS
<1> DEFINE n == Head(todo).account
           deal == Head(todo).deal
           t == Tail(todo)
<1>1. /\ ~ Idle /\ Head(todo).do = "logcreation" /\ CanEnd
      /\ deals' = [deals EXCEPT ![n] = deal]
      /\ Proceed(<<>>) /\ UNCHANGED <<coins, accounts, ram, market, room, kept>>
  BY DEF LogCreation, Upcoming
<1>2. n \in Names /\ deal \in Fair /\ Head(todo).quantity = 0
  BY <1>1, Popped DEF Actions
<1>3. todo' = t
  <2>1. t \in Seq(Actions)
    BY <1>1, Popped DEF Queued
  <2> QED
    BY <1>1, <2>1, Popped, ConcatEmptySeq DEF Proceed
<1>4. Typed(State) /\ Consistent(State) /\ Ready(State, todo)
  BY DEF IInv
<1>5. n \in accounts /\ coins[n] = deal.excess /\ Bought(State, n, deal.ram)
  BY <1>1, <1>4 DEF Ready, State, Idle
<1>6. Starts(todo, 2)
  BY <1>1, Popped DEF Follows
<1>7. t # <<>> => Head(t).do = "newaccount"
  <2>1. ASSUME t # <<>> PROVE 2 \in DOMAIN todo
    <3>1. todo \in Seq(Actions) /\ todo # <<>>
      BY <1>1 DEF IInv, Queued, Idle
    <3> QED
      BY <2>1, <3>1
  <2> QED
    BY <1>1, <1>6, <2>1, Popped DEF Starts
<1>8. Rest = t
  BY <1>1, Popped
<1> HIDE DEF n, deal
<1>9. deals \in [Names -> {NoDeal} \cup Fair]
  BY <1>4, StateFields DEF Typed
<1>10. /\ deals' \in [Names -> {NoDeal} \cup Fair] /\ deals'[n] = deal
       /\ \A m \in Names \ {n} : deals'[m] = deals[m]
  BY <1>1, <1>2, <1>9
<1>11. Typed(State)'
  BY <1>1, <1>4, <1>10 DEF State, Typed
<1>12. Consistent(State)'
  <2> SUFFICES ASSUME NEW m \in Names
               PROVE  /\ m \notin accounts' => Untouched(State', m)
                      /\ deals'[m] # NoDeal =>
                           /\ m \in accounts' /\ coins'[m] = deals'[m].excess
                           /\ Bought(State', m, deals'[m].ram)
    BY DEF Consistent, State
  <2>1. CASE m = n
    BY <1>1, <1>5, <1>10, <2>1 DEF Bought, State
  <2>2. CASE m # n
    BY <1>1, <1>4, <1>10, <2>2 DEF Consistent, State, Untouched, Bought
  <2> QED
    BY <2>1, <2>2
<1>13. Ready(State, todo)'
  BY <1>3, <1>7 DEF Ready
<1>14. NoCreation(todo)' => Sufficient(State)'
  <2>1. ASSUME t = <<>> PROVE Sufficient(State)'
    BY <1>1, <1>8, <2>1 DEF CanEnd, Sufficient, State
  <2>2. NoCreation(t) => t = <<>>
    BY <1>1, Popped
  <2> QED
    BY <1>3, <2>1, <2>2
<1>15. NothingKept' /\ IsFiniteSet(UnitsOf(todo))' /\ Queued(todo)'
  <2>1. Committed' = Committed
    BY <1>1, <1>2, <1>3, Popped DEF Committed
  <2> QED
    BY <1>1, <1>3, <2>1, Popped DEF IInv, NothingKept
<1> QED
  BY <1>1, <1>11, <1>12, <1>13, <1>14, <1>15, Proceeded

\* A failure returns to a state that the transaction could begin in.
LEMMA AbortInv == IInv /\ Abort => IInv'
<1> SUFFICES ASSUME IInv, Abort PROVE IInv'
  OBVIOUS
<1>1. /\ coins' = saved.coins /\ accounts' = saved.accounts /\ ram' = saved.ram
      /\ market' = saved.market /\ room' = saved.room /\ deals' = saved.deals /\ kept' = saved.kept
      /\ todo' = <<>> /\ saved' = <<>> /\ Settled(saved)
  BY DEF Abort, IInv
<1>2. Typed(State)' /\ Consistent(State)' /\ Sufficient(State)'
  BY <1>1 DEF Settled, Typed, Consistent, Sufficient, Untouched, Bought, State
<1>3. coins'[Create] = kept' /\ kept' \in Nat
  BY <1>1 DEF Settled, Typed
<1>4. IsFiniteSet(UnitsOf(todo'))  /\ Queued(todo') /\ Committed' = 0
  BY <1>1, NothingCommitted DEF Committed
<1>5. NothingKept'
  <2>1. saved.kept = saved.kept + 0
    BY <1>1 DEF Settled, Typed
  <2> QED
    BY <1>1, <1>3, <1>4, <2>1 DEF NothingKept
<1>6. Ready(State, todo)' /\ Idle'
  BY <1>1 DEF Ready, Idle
<1> QED
  BY <1>1, <1>2, <1>4, <1>5, <1>6 DEF IInv

LEMMA MoveMarketInv ==
  ASSUME IInv, NEW new \in Markets \cup {market}, MoveMarket(new)
  PROVE  IInv'
<1>1. /\ Idle \/ Upcoming("react")
      /\ market' = new /\ Proceed(<<>>) /\ UNCHANGED <<coins, accounts, ram, room, deals, kept>>
  BY DEF MoveMarket
<1>2. Typed(State) /\ Consistent(State)
  BY DEF IInv
<1>3. todo' = Rest
  <2>1. Rest \in Seq(Actions)
    BY <1>1, TurnTaken DEF Queued
  <2> QED
    BY <1>1, <2>1, ConcatEmptySeq DEF Proceed
<1>4. new \in Reserves
  BY <1>2, CreateAssumption, StateFields DEF Typed, Reserves
<1>5. Typed(State)' /\ Consistent(State)'
  BY <1>1, <1>2, <1>4 DEF State, Typed, Consistent, Untouched, Bought
<1>6. NoCreation(todo)' => Sufficient(State)'
  <2>1. NoCreation(Rest) => Sufficient(State)
    BY <1>1, TurnTaken DEF IInv
  <2> QED
    BY <1>1, <1>3, <2>1 DEF Sufficient, State
<1>7. NothingKept' /\ IsFiniteSet(UnitsOf(todo))' /\ Queued(todo)' /\ Ready(State, todo)'
  <2>1. Committed' = Committed
    BY <1>1, <1>3, TurnTaken DEF Committed
  <2> QED
    BY <1>1, <1>3, <2>1, TurnTaken DEF IInv, NothingKept
<1> QED
  BY <1>1, <1>5, <1>6, <1>7, Proceeded

LEMMA OtherCreatesInv ==
  ASSUME IInv, NEW n \in Names, OtherCreates(n)
  PROVE  IInv'
<1>1. /\ Idle \/ Upcoming("react")
      /\ n \notin accounts /\ accounts' = accounts \cup {n}
      /\ ram' = [ram EXCEPT ![n] = [NoRam EXCEPT !.bytes = Usage]]
      /\ Proceed(<<>>) /\ UNCHANGED <<coins, market, room, deals, kept>>
  BY DEF OtherCreates
<1>2. Typed(State) /\ Consistent(State)
  BY DEF IInv
<1>3. todo' = Rest
  <2>1. Rest \in Seq(Actions)
    BY <1>1, TurnTaken DEF Queued
  <2> QED
    BY <1>1, <2>1, ConcatEmptySeq DEF Proceed
<1>4. /\ [NoRam EXCEPT !.bytes = Usage] \in [bytes : Nat, from : Reserves]
      /\ [NoRam EXCEPT !.bytes = Usage].bytes = Usage
  BY CreateAssumption DEF NoRam, Reserves
<1>5. ram \in [Names -> [bytes : Nat, from : Reserves]]
  BY <1>2, StateFields DEF Typed
<1>6. /\ ram' \in [Names -> [bytes : Nat, from : Reserves]]
      /\ ram'[n].bytes = Usage /\ \A m \in Names \ {n} : ram'[m] = ram[m]
  BY <1>1, <1>4, <1>5
<1>7. Typed(State)'
  BY <1>1, <1>2, <1>6 DEF State, Typed
<1>8. Consistent(State)'
  <2> SUFFICES ASSUME NEW m \in Names
               PROVE  /\ m \notin accounts' => Untouched(State', m)
                      /\ deals'[m] # NoDeal =>
                           /\ m \in accounts' /\ coins'[m] = deals'[m].excess
                           /\ Bought(State', m, deals'[m].ram)
    BY DEF Consistent, State
  <2>1. CASE m = n
    BY <1>1, <1>2, <2>1 DEF Consistent, Untouched, State
  <2>2. CASE m # n
    BY <1>1, <1>2, <1>6, <2>2 DEF Consistent, State, Untouched, Bought
  <2> QED
    BY <2>1, <2>2
<1>9. NoCreation(todo)' => Sufficient(State)'
  <2>1. NoCreation(Rest) => Sufficient(State)
    BY <1>1, TurnTaken DEF IInv
  <2>2. Sufficient(State) => Sufficient(State)'
    BY <1>1, <1>6, CreateAssumption DEF Sufficient, State
  <2> QED
    BY <1>3, <2>1, <2>2
<1>10. NothingKept' /\ IsFiniteSet(UnitsOf(todo))' /\ Queued(todo)' /\ Ready(State, todo)'
  <2>1. Committed' = Committed
    BY <1>1, <1>3, TurnTaken DEF Committed
  <2> QED
    BY <1>1, <1>3, <2>1, TurnTaken DEF IInv, NothingKept
<1> QED
  BY <1>1, <1>7, <1>8, <1>9, <1>10, Proceeded

LEMMA ProvideInv ==
  ASSUME IInv, NEW rows \in Rooms, Provide(rows)
  PROVE  IInv'
<1>1. /\ Idle \/ Upcoming("react")
      /\ room' = rows /\ Proceed(<<>>)
      /\ UNCHANGED <<coins, accounts, ram, market, deals, kept>>
  BY DEF Provide
<1>2. Typed(State) /\ Consistent(State) /\ rows \in Nat
  BY CreateAssumption DEF IInv
<1>3. todo' = Rest
  <2>1. Rest \in Seq(Actions)
    BY <1>1, TurnTaken DEF Queued
  <2> QED
    BY <1>1, <2>1, ConcatEmptySeq DEF Proceed
<1>4. Typed(State)' /\ Consistent(State)'
  BY <1>1, <1>2 DEF State, Typed, Consistent, Untouched, Bought
<1>5. NoCreation(todo)' => Sufficient(State)'
  <2>1. NoCreation(Rest) => Sufficient(State)
    BY <1>1, TurnTaken DEF IInv
  <2> QED
    BY <1>1, <1>2, <1>3, <2>1 DEF Sufficient, State
<1>6. NothingKept' /\ IsFiniteSet(UnitsOf(todo))' /\ Queued(todo)' /\ Ready(State, todo)'
  <2>1. Committed' = Committed
    BY <1>1, <1>3, TurnTaken DEF Committed
  <2> QED
    BY <1>1, <1>3, <2>1, TurnTaken DEF IInv, NothingKept
<1> QED
  BY <1>1, <1>4, <1>5, <1>6, Proceeded

\* Paying the contract moves q to it, out of no account that it creates.
LEMMA TransferFields ==
  ASSUME IInv, NEW contract, NEW from \in Payers \cup {Ram, Proxy}, NEW q \in Nat,
         Transfer(contract, from, q)
  PROVE  /\ coins' \in [Accounts \cup Names -> Nat]
         /\ coins'[Create] = IF contract = Proxy THEN coins[Create] + q ELSE coins[Create]
         /\ \A n \in Names : coins'[n] = coins[n]
<1>1. coins \in [Accounts \cup Names -> Nat]
  BY StateFields DEF IInv, Typed
<1>2. from \in Accounts /\ from # Create
  BY AccountsFacts
<1>3. CASE contract = Proxy
  <2>1. /\ coins[from] >= q
        /\ coins' = [coins EXCEPT ![from] = @ - q, ![Create] = @ + q]
    BY <1>3 DEF Transfer
  <2> QED
    BY <1>1, <1>2, <1>3, <2>1, AccountsFacts
<1>4. CASE contract # Proxy
  BY <1>1, <1>4 DEF Transfer
<1> QED
  BY <1>3, <1>4

\* The payer's contract comes first, whatever else is queued with it.
LEMMA ReactionQueued ==
  ASSUME NEW from \in Payers \cup {Ram, Proxy}, NEW q, Queued(q), Starts(q, 1),
         IsFiniteSet(UnitsOf(q))
  PROVE  LET p == Reaction(from) \o q IN
           /\ Reaction(from) \in Seq(Actions) /\ Queued(p) /\ IsFiniteSet(UnitsOf(p))
           /\ Cardinality(UnitsOf(p)) = Cardinality(UnitsOf(q))
           /\ \A s : Ready(s, p)
           /\ Len(p) >= Len(q) /\ (NoCreation(p) => q = <<>>)
<1> DEFINE e == [do |-> "react", account |-> from, quantity |-> 0]
           p == Reaction(from) \o q
<1>1. q \in Seq(Actions) /\ Cardinality(UnitsOf(q)) \in Nat /\ Len(q) \in Nat
  BY FS_CardinalityType DEF Queued
<1>2. q # <<>> => Head(q).do = "newaccount"
  BY <1>1, FirstOf DEF Starts
<1>3. CASE from \in Reactive
  <2>1. from \in Payers /\ Reaction(from) = <<e>>
    BY <1>3, CreateAssumption DEF Reaction
  <2>2. e \in Actions /\ e.do = "react" /\ e.quantity = 0
    BY <2>1 DEF Actions
  <2> HIDE DEF e
  <2>3. /\ p \in Seq(Actions) /\ Len(p) = Len(q) + 1 /\ p[1] = e /\ Head(p) = e
        /\ p # <<>> /\ \A i \in 1 .. Len(q) : p[i + 1] = q[i]
    BY <1>1, <2>1, <2>2, PushOf
  <2>4. DOMAIN p = 1 .. Len(p) /\ DOMAIN q = 1 .. Len(q)
    BY <1>1, <2>3, LenProperties
  <2>5. Starts(p, 2)
    BY <1>1, <2>3, <2>4 DEF Starts
  <2>6. Follows(p, 1)
    BY <2>2, <2>3, <2>5 DEF Follows
  <2>7. Queued(p)
    BY <1>2, <2>1, <2>2, <2>6, QueuedPush
  <2>8. /\ IsFiniteSet(UnitsOf(p))
        /\ Cardinality(UnitsOf(p)) = Cardinality(UnitsOf(q)) + 0
    BY <1>1, <2>1, <2>2, UnitsOfPush
  <2>9. \A s : Ready(s, p)
    BY <2>2, <2>3 DEF Ready
  <2>10. NoCreation(p) => q = <<>>
    BY <1>1, <2>3, FirstOf DEF NoCreation
  <2>11. Reaction(from) \in Seq(Actions)
    BY <2>1, <2>2
  <2> QED
    BY <1>1, <2>3, <2>7, <2>8, <2>9, <2>10, <2>11
<1>4. CASE from \notin Reactive
  <2>1. Reaction(from) = <<>> /\ p = q
    BY <1>1, <1>4, ConcatEmptySeq DEF Reaction
  <2>2. \A s : Ready(s, q)
    BY <1>2 DEF Ready
  <2>3. NoCreation(q) => q = <<>>
    BY <1>2 DEF NoCreation
  <2>4. Reaction(from) \in Seq(Actions)
    BY <2>1, EmptySeq
  <2> QED
    BY <1>1, <2>1, <2>2, <2>3, <2>4
<1> QED
  BY <1>3, <1>4

LEMMA RetainInv ==
  ASSUME IInv, NEW contract, NEW from \in Payers \cup {Ram, Proxy}, NEW q \in Quantities,
         NEW memo, Retain(contract, from, q, memo)
  PROVE  IInv'
<1>1. /\ Idle \/ Upcoming("react")
      /\ Transfer(contract, from, q)
      /\ kept' = IF contract = Proxy THEN kept + q ELSE kept
      /\ Proceed(Reaction(from)) /\ UNCHANGED <<accounts, ram, market, room, deals>>
  BY DEF Retain, Turn, Acting, Upcoming
<1>2. Typed(State) /\ Consistent(State)
  BY DEF IInv
<1>3. todo' = Reaction(from) \o Rest
  BY <1>1 DEF Proceed
<1>4. q \in Nat /\ kept \in Nat /\ coins[Create] = kept + Committed /\ Committed \in Nat
  <2>1. Committed \in Nat
    BY FS_CardinalityType DEF IInv, Committed
  <2> QED
    BY <1>2, <2>1, CreateAssumption, StateFields DEF IInv, NothingKept, Typed
<1>5. /\ coins' \in [Accounts \cup Names -> Nat]
      /\ coins'[Create] = IF contract = Proxy THEN coins[Create] + q ELSE coins[Create]
      /\ \A n \in Names : coins'[n] = coins[n]
  BY <1>1, <1>4, TransferFields
<1>6. Typed(State)'
  BY <1>1, <1>2, <1>4, <1>5 DEF State, Typed
<1>7. Consistent(State)'
  BY <1>1, <1>2, <1>5 DEF State, Consistent, Untouched, Bought
<1>8. /\ Queued(todo)' /\ IsFiniteSet(UnitsOf(todo))' /\ Ready(State, todo)'
      /\ Committed' = Committed
      /\ NoCreation(todo)' => Rest = <<>>
  BY <1>1, <1>3, TurnTaken, ReactionQueued DEF Committed
<1>9. NoCreation(todo)' => Sufficient(State)'
  <2>1. Rest = <<>> => Sufficient(State)
    BY <1>1, TurnTaken DEF IInv, NoCreation
  <2> QED
    BY <1>1, <1>8, <2>1 DEF Sufficient, State
<1>10. NothingKept'
  <2>1. CASE contract = Proxy
    BY <1>1, <1>4, <1>5, <1>8, <2>1 DEF NothingKept
  <2>2. CASE contract # Proxy
    BY <1>1, <1>4, <1>5, <1>8, <2>2 DEF NothingKept
  <2> QED
    BY <2>1, <2>2
<1> QED
  BY <1>1, <1>6, <1>7, <1>8, <1>9, <1>10, Proceeded

\* What a memo asks for.
LEMMA MemoFields ==
  ASSUME NEW memo \in Memos, memo # BypassMemo, NEW key \in ParseMemo(memo)
  PROVE  /\ memo.account \in Names /\ memo.key \in SentTexts
         /\ [text |-> memo.key, key |-> key] \in Readings
         /\ key \in ReadKeys
<1>1. memo \in [account : Names \cup {NoName}, key : SentTexts]
  BY DEF Memos
<1>2. PICK r \in Readings : memo.account \in Names \ accounts /\ memo.key = r.text /\ key = r.key
  BY DEF ParseMemo
<1>3. r = [text |-> r.text, key |-> r.key]
  BY DEF Readings
<1> QED
  BY <1>1, <1>2, <1>3 DEF ReadKeys

LEMMA PayInv ==
  ASSUME IInv, NEW contract, NEW from \in Payers \cup {Ram, Proxy}, NEW q \in Quantities,
         NEW memo \in Memos, Pay(contract, from, q, memo)
  PROVE  IInv'
<1> DEFINE n == memo.account
           cost == Price(market)
           sent(key) == Creation(from, n, memo.key, key, q, cost)
<1>1. PICK key \in ParseMemo(memo) :
         /\ from \in Payers
         /\ Idle \/ Upcoming("react")
         /\ memo # BypassMemo /\ contract = Proxy
         /\ Transfer(contract, from, q) /\ q >= cost
         /\ Proceed(Reaction(from) \o sent(key))
         /\ UNCHANGED <<accounts, ram, market, room, deals, kept>>
  BY DEF Pay, Turn, Acting, Upcoming
<1>2. Typed(State) /\ Consistent(State)
  BY DEF IInv
<1>3. q \in Nat /\ kept \in Nat /\ coins[Create] = kept + Committed /\ Committed \in Nat
      /\ market \in Reserves
  <2>1. Committed \in Nat
    BY FS_CardinalityType DEF IInv, Committed
  <2> QED
    BY <1>2, <2>1, CreateAssumption, StateFields DEF IInv, NothingKept, Typed
<1>4. cost \in Nat /\ cost <= q
  BY <1>1, <1>3, PriceType
<1>5. /\ n \in Names /\ memo.key \in SentTexts
      /\ [text |-> memo.key, key |-> key] \in Readings
      /\ key \in ReadKeys
  BY <1>1, MemoFields
<1>6. [from |-> from, text |-> memo.key, key |-> key, paid |-> q, ram |-> cost,
       excess |-> q - cost, quoted |-> market] \in Fair
  <2> DEFINE d == [from |-> from, text |-> memo.key, key |-> key, paid |-> q, ram |-> cost,
                   excess |-> q - cost, quoted |-> market]
  <2>1. q - cost \in Nat /\ q = cost + (q - cost)
    BY <1>3, <1>4
  <2>2. d \in [from : Payers, text : SentTexts, key : ReadKeys,
                paid : Nat, ram : Nat, excess : Nat, quoted : Reserves]
    <3>1. from \in Payers
      BY <1>1
    <3> HIDE DEF cost
    <3> QED
      BY <1>3, <1>4, <1>5, <2>1, <3>1
  <2>3. d \in Deals
    BY <1>5, <2>2 DEF Deals
  <2>4. d.paid = d.ram + d.excess /\ d.ram = Price(d.quoted)
    BY <2>1
  <2> QED
    BY <2>3, <2>4 DEF Fair
<1> DEFINE c == sent(key)
<1>7. /\ c \in Seq(Actions) /\ Queued(c \o Rest) /\ Starts(c \o Rest, 1)
      /\ Len(c \o Rest) >= 3 /\ IsFiniteSet(UnitsOf(c \o Rest))
      /\ Cardinality(UnitsOf(c \o Rest)) = Committed + q
  BY <1>1, <1>3, <1>4, <1>5, <1>6, TurnTaken, CreationQueued
<1>8. todo' = (Reaction(from) \o c) \o Rest
  BY <1>1 DEF Proceed
<1> HIDE DEF n, cost, sent, c
<1>9. todo' = Reaction(from) \o (c \o Rest)
  <2>1. Reaction(from) \in Seq(Actions) /\ Rest \in Seq(Actions)
    BY <1>1, <1>7, ReactionQueued, TurnTaken DEF Queued
  <2> QED
    BY <1>7, <1>8, <2>1, ConcatAssociative
<1>10. /\ Queued(todo)' /\ IsFiniteSet(UnitsOf(todo))' /\ Ready(State, todo)'
       /\ Committed' = Committed + q
       /\ ~ NoCreation(todo)'
  <2>1. c \o Rest # <<>>
    BY <1>7, EmptySeq
  <2> QED
    BY <1>7, <1>9, <2>1, ReactionQueued DEF Committed
<1>11. /\ coins' \in [Accounts \cup Names -> Nat]
       /\ coins'[Create] = coins[Create] + q
       /\ \A m \in Names : coins'[m] = coins[m]
  BY <1>1, <1>3, TransferFields
<1>12. Typed(State)'
  BY <1>1, <1>2, <1>11 DEF State, Typed
<1>13. Consistent(State)'
  BY <1>1, <1>2, <1>11 DEF State, Consistent, Untouched, Bought
<1>14. NothingKept'
  BY <1>1, <1>3, <1>10, <1>11 DEF NothingKept
<1> QED
  BY <1>1, <1>10, <1>12, <1>13, <1>14, Proceeded

LEMMA InitInv == Init => IInv
<1> SUFFICES ASSUME Init PROVE IInv
  OBVIOUS
<1>1. /\ coins = InitialCoins /\ accounts = Accounts /\ ram = [n \in Names |-> NoRam]
      /\ market \in Markets /\ room \in Rooms /\ todo = <<>> /\ saved = <<>>
      /\ deals = [n \in Names |-> NoDeal] /\ kept = coins[Create]
  BY DEF Init
<1>2. NoRam \in [bytes : Nat, from : Reserves] /\ NoRam.bytes = 0
  BY DEF NoRam, Reserves
<1>3. market \in Reserves /\ coins \in [Accounts \cup Names -> Nat]
  BY <1>1, CreateAssumption DEF Reserves
<1>4. Typed(State)
  BY <1>1, <1>2, <1>3, AccountsFacts, CreateAssumption DEF State, Typed
<1>5. Consistent(State)
  BY <1>1, <1>2, CreateAssumption DEF State, Consistent, Untouched
<1>6. Sufficient(State)
  BY <1>1, AccountsFacts, CreateAssumption DEF State, Sufficient
<1>7. Queued(todo) /\ IsFiniteSet(UnitsOf(todo)) /\ Committed = 0
  BY <1>1, NothingCommitted DEF Committed
<1>8. NothingKept
  <2>1. coins[Create] \in Nat
    BY <1>3, AccountsFacts
  <2> QED
    BY <1>1, <1>7, <2>1 DEF NothingKept
<1> QED
  BY <1>1, <1>4, <1>5, <1>6, <1>7, <1>8 DEF IInv, Ready, Idle

LEMMA NextInv == IInv /\ [Next]_vars => IInv'
<1> SUFFICES ASSUME IInv, [Next]_vars PROVE IInv'
  OBVIOUS
<1>1. CASE UNCHANGED vars
  <2>1. UNCHANGED <<State, todo, saved, Committed>> /\ kept' = kept /\ coins' = coins
    BY <1>1 DEF vars, State, Committed
  <2> QED
    BY <1>1, <2>1 DEF IInv, NothingKept, Idle, vars
<1>2. CASE Payments
  BY <1>2, RetainInv, PayInv DEF Payments
<1>3. CASE Run
  BY <1>3, NewAccountInv, BuyRamInv, SendRefundInv, LogCreationInv, AbortInv DEF Run
<1>4. CASE World
  BY <1>4, MoveMarketInv, OtherCreatesInv, ProvideInv DEF World
<1> QED
  BY <1>1, <1>2, <1>3, <1>4 DEF Next

LEMMA InvAlways == Spec => []IInv
BY InitInv, NextInv, PTL DEF Spec

----
(* Theorems about the contract. *)

\* Every state of every transaction is well formed: the accounts that have a
\* deal logged exist, each deal's key is one that its text was read as, and no
\* transaction leaves the contract with more rows than it has RAM for.
THEOREM TypeCorrect == Spec => []TypeOK
<1>1. IInv => TypeOK
  <2> SUFFICES ASSUME IInv PROVE TypeOK
    OBVIOUS
  <2>1. Typed(State) /\ Consistent(State) /\ (Idle <=> saved = <<>>)
    BY DEF IInv
  <2>2. Fair \subseteq Deals
    BY DEF Fair
  <2>3. \A n \in Names : deals[n] # NoDeal => n \in accounts
    BY <2>1, StateFields DEF Consistent
  <2>4. Idle = (saved = <<>>)
    BY <2>1 DEF Idle
  <2>5. room \in Int /\ (Idle => room \in Nat)
    <3>1. Idle => room >= 0
      BY StateFields DEF IInv, Idle, NoCreation, Sufficient
    <3> QED
      BY <2>1, <3>1, StateFields DEF Typed
  <2> QED
    BY <2>1, <2>2, <2>3, <2>4, <2>5, StateFields DEF TypeOK, Typed
<1> QED
  BY <1>1, InvAlways, PTL

\* Whoever pays, also from within another's payment, and whatever fails: the
\* contract holds what it was sent for nothing and what it is about to spend.
THEOREM NothingIsKept == Spec => []NothingKept
<1>1. IInv => NothingKept
  BY DEF IInv
<1> QED
  BY <1>1, InvAlways, PTL

\* A price that is worth paying was quoted by a market that has more than the
\* bytes it was asked for.
LEMMA QuotedByStocked ==
  ASSUME NEW reserves \in Reserves, Price(reserves) > 0
  PROVE  reserves \in Stocked /\ BytesForCreation < reserves.base
<1> DEFINE cost == RamCost(reserves, BytesForCreation)
<1>1. cost # 0
  <2>1. ASSUME cost = 0 PROVE Price(reserves) = 0
    BY <2>1, SMT DEF Price, RamCostWithFee, Fee
  <2> QED
    BY <2>1
<1>2. BytesForCreation < reserves.base
  BY <1>1 DEF RamCost, BancorInput
<1>3. reserves.quote # 0
  <2>1. ASSUME reserves.quote = 0 PROVE cost = 0
    <3>1. /\ reserves.base - BytesForCreation \in Nat /\ reserves.base - BytesForCreation > 0
          /\ reserves.quote * BytesForCreation = 0
      BY <1>2, <2>1, CreateAssumption DEF Reserves
    <3>2. cost = 0 \div (reserves.base - BytesForCreation)
      BY <1>2, <3>1 DEF RamCost, BancorInput
    <3>3. 0 \div (reserves.base - BytesForCreation) <= 0
      BY <3>1, QuotientAtMost
    <3>4. 0 \div (reserves.base - BytesForCreation) \in Nat
      BY <3>1, Quotient
    <3> QED
      BY <3>2, <3>3, <3>4
  <2> QED
    BY <1>1, <2>1
<1>4. reserves.base \in Nat /\ reserves.base # 0
  BY <1>2, CreateAssumption DEF Reserves
<1> QED
  BY <1>2, <1>3, <1>4 DEF Reserves, Stocked

\* Every account made has its RAM for the price quoted and its owner the rest of
\* what was paid; the bytes are never more than those asked for, nor fewer than
\* the roundings account for, and never fewer than the account uses.
THEOREM DealsFair == Spec => []DealsAreFair
<1>1. ASSUME IInv PROVE DealsAreFair
  <2>1. Typed(State) /\ Consistent(State)
    BY <1>1 DEF IInv
  <2>2. Idle => Sufficient(State)
    BY <1>1 DEF IInv, Idle, NoCreation
  <2> SUFFICES ASSUME NEW n \in Names, deals[n] # NoDeal
               PROVE  LET deal == deals[n]
                          lost == Fee(deal.ram) - Fee(RamCost(deal.quoted, BytesForCreation))
                          spent == deal.ram - Fee(deal.ram)
                      IN  /\ deal.paid = deal.ram + deal.excess
                          /\ coins[n] = deal.excess
                          /\ ram[n].from = deal.quoted =>
                               /\ ram[n].bytes <= BytesForCreation
                               /\ BancorOutput(deal.quoted.quote, deal.quoted.base,
                                               spent + lost + 1) >= BytesForCreation
                          /\ Idle => ram[n].bytes >= Usage
    BY DEF DealsAreFair
  <2> DEFINE deal == deals[n]
  <2>3. deal \in Fair /\ n \in accounts
    BY <2>1, StateFields DEF Typed, Consistent
  <2>4. deal.paid = deal.ram + deal.excess /\ deal.ram = Price(deal.quoted)
        /\ deal.quoted \in Reserves /\ deal.ram \in Nat
    BY <2>3 DEF Fair, Deals
  <2>5. coins[n] = deal.excess /\ Bought(State, n, deal.ram)
    BY <2>1, StateFields DEF Consistent
  <2>6. deal.ram > Fee(deal.ram) /\ ram[n].bytes = BytesCostWithFee(ram[n].from, deal.ram)
    BY <2>5, StateFields DEF Bought
  <2>7. deal.quoted \in Stocked /\ BytesForCreation < deal.quoted.base
    <3>1. Fee(deal.ram) \in Nat
      BY <2>4, FeeBounds
    <3> QED
      BY <2>4, <2>6, <3>1, QuotedByStocked
  <2>8. /\ BytesCostWithFee(deal.quoted, deal.ram) <= BytesForCreation
        /\ BancorOutput(deal.quoted.quote, deal.quoted.base,
              deal.ram - Fee(deal.ram)
                + (Fee(deal.ram) - Fee(RamCost(deal.quoted, BytesForCreation))) + 1)
             >= BytesForCreation
    BY <2>4, <2>7, CreateAssumption, QuotedPriceBuysNoMore, OneUnitMoreBuysAll DEF Price
  <2>9. Idle => ram[n].bytes >= Usage
    BY <2>2, <2>3, StateFields DEF Sufficient
  <2> QED
    BY <2>4, <2>5, <2>6, <2>8, <2>9
<1> QED
  BY <1>1, InvAlways, PTL

\* If every text is read as the key it encodes, then every account has the key
\* that the memo of its payment encodes: none is made with another.
THEOREM KeysAreAsEncoded == ReadingsCorrect => (Spec => []KeysAsEncoded)
<1> SUFFICES ASSUME ReadingsCorrect PROVE Spec => []KeysAsEncoded
  OBVIOUS
<1>1. ASSUME IInv PROVE KeysAsEncoded
  <2>1. ASSUME NEW n \in Names, deals[n] # NoDeal
        PROVE  Encodes(deals[n].text, deals[n].key)
    <3>1. deals[n] \in Fair
      BY <1>1, <2>1, StateFields DEF IInv, Typed
    <3>2. [text |-> deals[n].text, key |-> deals[n].key] \in Readings
      BY <3>1 DEF Fair, Deals
    <3> QED
      BY <3>2 DEF ReadingsCorrect
  <2> QED
    BY <2>1 DEF KeysAsEncoded
<1> QED
  BY <1>1, InvAlways, PTL

================================================================================
