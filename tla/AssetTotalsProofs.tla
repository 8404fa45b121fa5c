--------------------------- MODULE AssetTotalsProofs ---------------------------
(******************************************************************************)
(* What a credit, a debit and a move do to the total of a table of amounts.   *)
(* Every conservation theorem of the project rests on these lemmas.           *)
(******************************************************************************)
EXTENDS AssetTotals, FiniteSetTheorems, TLAPS

\* The units of a table, one by one.
LEMMA UnitsOfTable ==
  ASSUME NEW S, NEW f \in [S -> Nat]
  PROVE  /\ Units(f) = {u \in S \X (Nat \ {0}) : u[2] <= f[u[1]]}
         /\ \A u \in Units(f) :
              u[1] \in S /\ u[2] \in 1 .. f[u[1]] /\ u[2] \in Nat /\ u = <<u[1], u[2]>>
         /\ \A x \in S : \A n \in 1 .. f[x] : <<x, n>> \in Units(f)
<1>1. \A u : u \in Units(f) <=> \E x \in S : u \in {x} \X (1 .. f[x])
  BY DEF Units
<1>2. \A x \in S : \A n \in 1 .. f[x] : <<x, n>> \in Units(f)
  BY <1>1
<1>3. \A u \in Units(f) :
        u[1] \in S /\ u[2] \in 1 .. f[u[1]] /\ u[2] \in Nat /\ u = <<u[1], u[2]>>
  BY <1>1
<1>4. Units(f) \subseteq {u \in S \X (Nat \ {0}) : u[2] <= f[u[1]]}
  BY <1>3
<1>5. {u \in S \X (Nat \ {0}) : u[2] <= f[u[1]]} \subseteq Units(f)
  <2> SUFFICES ASSUME NEW x \in S, NEW n \in Nat \ {0}, n <= f[x]
               PROVE  <<x, n>> \in Units(f)
    OBVIOUS
  <2>1. n \in 1 .. f[x]
    OBVIOUS
  <2> QED
    BY <1>2, <2>1
<1> HIDE DEF Units
<1> QED
  BY <1>2, <1>3, <1>4, <1>5

LEMMA AmountTables == ASSUME NEW S, NEW f \in [S -> Amounts] PROVE f \in [S -> Nat]
BY MaxAmountAssumption DEF Amounts

\* The units of a finite table are finitely many, so its total is a number.
LEMMA TotalIsNumber ==
  ASSUME NEW S, IsFiniteSet(S), NEW f \in [S -> Nat]
  PROVE  IsFiniteSet(Units(f)) /\ Total(f) \in Nat
<1>1. ASSUME NEW x \in S PROVE IsFiniteSet({x} \X (1 .. f[x]))
  <2>1. 1 \in Int /\ f[x] \in Int
    OBVIOUS
  <2>2. IsFiniteSet({x}) /\ IsFiniteSet(1 .. f[x])
    BY <2>1, FS_Singleton, FS_Interval
  <2> QED
    BY <2>2, FS_Product
<1>2. IsFiniteSet({{x} \X (1 .. f[x]) : x \in S})
  <2> DEFINE columns == {{x} \X (1 .. f[x]) : x \in S}
             column == [x \in S |-> {x} \X (1 .. f[x])]
  <2>1. column \in Surjection(S, columns)
    BY DEF Surjection
  <2> HIDE DEF columns, column
  <2>2. IsFiniteSet(columns)
    BY <2>1, FS_Surjection
  <2> QED
    BY <2>2 DEF columns
<1>3. IsFiniteSet(UNION {{x} \X (1 .. f[x]) : x \in S})
  <2> DEFINE columns == {{x} \X (1 .. f[x]) : x \in S}
  <2>1. \A c \in columns : IsFiniteSet(c)
    BY <1>1
  <2>2. IsFiniteSet(columns)
    BY <1>2
  <2> HIDE DEF columns
  <2>3. IsFiniteSet(UNION columns)
    BY <2>1, <2>2, FS_UNION
  <2> QED
    BY <2>3 DEF columns
<1>4. IsFiniteSet(Units(f))
  BY <1>3 DEF Units
<1> QED
  BY <1>4, FS_CardinalityType DEF Total

LEMMA TotalType ==
  ASSUME NEW S, IsFiniteSet(S), NEW f \in [S -> Amounts]
  PROVE  IsFiniteSet(Units(f)) /\ Total(f) \in Nat
BY AmountTables, TotalIsNumber

\* A table of zeros holds nothing.
LEMMA TotalZero ==
  ASSUME NEW S
  PROVE  Total([x \in S |-> 0]) = 0
<1>1. Units([x \in S |-> 0]) = {}
  BY UnitsOfTable
<1> QED
  BY <1>1, FS_EmptySet DEF Total

\* The q units of x that lie above m.
Column(x, m, q) == {x} \X (m+1 .. m+q)

\* There are q of them.
LEMMA ColumnOfUnits ==
  ASSUME NEW x, NEW m \in Nat, NEW q \in Nat
  PROVE  IsFiniteSet(Column(x, m, q)) /\ Cardinality(Column(x, m, q)) = q
<1>1. IsFiniteSet(m+1 .. m+q) /\ Cardinality(m+1 .. m+q) = q
  BY FS_Interval
<1>2. IsFiniteSet({x}) /\ Cardinality({x}) = 1
  BY FS_Singleton
<1>3. /\ IsFiniteSet({x} \X (m+1 .. m+q))
      /\ Cardinality({x} \X (m+1 .. m+q)) = Cardinality({x}) * Cardinality(m+1 .. m+q)
  BY <1>1, <1>2, FS_Product
<1>4. Cardinality({x} \X (m+1 .. m+q)) = q
  BY <1>1, <1>2, <1>3
<1> QED
  BY <1>3, <1>4 DEF Column

\* One entry raised by q raises the total by q.
LEMMA CreditAdds ==
  ASSUME NEW S, IsFiniteSet(S), NEW f \in [S -> Nat], NEW x \in S, NEW q \in Nat
  PROVE  /\ Credit(f, x, q) \in [S -> Nat]
         /\ Total(Credit(f, x, q)) = Total(f) + q
<1> DEFINE g   == Credit(f, x, q)
           new == Column(x, f[x], q)
<1>1. f[x] \in Nat
  OBVIOUS
<1>2. g \in [S -> Nat] /\ g[x] = f[x] + q /\ \A y \in S : y # x => g[y] = f[y]
  BY <1>1 DEF Credit
<1> HIDE DEF g
<1>3. Units(g) = Units(f) \cup new
  <2>1. ASSUME NEW u \in Units(g)
        PROVE  u \in Units(f) \cup new
    BY <1>1, <1>2, <2>1, UnitsOfTable DEF Column
  <2>2. ASSUME NEW u \in Units(f)
        PROVE  u \in Units(g)
    <3>1. u \in S \X (Nat \ {0}) /\ u[2] <= f[u[1]]
      BY UnitsOfTable
    <3>2. f[u[1]] \in Nat /\ g[u[1]] \in Nat /\ g[u[1]] >= f[u[1]]
      BY <1>1, <1>2, <3>1
    <3>3. u[2] <= g[u[1]]
      BY <3>1, <3>2
    <3> QED
      BY <1>2, <3>1, <3>3, UnitsOfTable
  <2>3. ASSUME NEW u \in new
        PROVE  u \in Units(g)
    BY <1>1, <1>2, <2>3, UnitsOfTable DEF Column
  <2> QED
    BY <2>1, <2>2, <2>3
<1>4. Units(f) \cap new = {}
  BY <1>1, UnitsOfTable DEF Column
<1>5. IsFiniteSet(new) /\ Cardinality(new) = q
  BY <1>1, ColumnOfUnits
<1>6. IsFiniteSet(Units(f)) /\ Cardinality(Units(f)) \in Nat
  BY TotalIsNumber DEF Total
<1>7. Cardinality(Units(g)) = Cardinality(Units(f)) + q - Cardinality({})
  BY <1>3, <1>4, <1>5, <1>6, FS_Union
<1> QED
  BY <1>2, <1>6, <1>7, FS_EmptySet DEF Total, g

\* One entry lowered by as much of it as q lowers the total by q.
LEMMA DebitTakes ==
  ASSUME NEW S, IsFiniteSet(S), NEW f \in [S -> Nat], NEW x \in S, NEW q \in Nat, q <= f[x]
  PROVE  /\ Debit(f, x, q) \in [S -> Nat]
         /\ Total(Debit(f, x, q)) = Total(f) - q
<1> DEFINE g == Debit(f, x, q)
<1>1. f[x] \in Nat /\ f[x] - q \in Nat
  OBVIOUS
<1>2. g \in [S -> Nat] /\ g[x] = f[x] - q
  BY <1>1 DEF Debit
<1>3. Credit(g, x, q) = f
  <2>1. Credit(g, x, q) = [y \in S |-> IF y = x THEN g[x] + q ELSE g[y]]
    BY <1>2 DEF Credit
  <2>2. \A y \in S : (IF y = x THEN g[x] + q ELSE g[y]) = f[y]
    BY <1>1, <1>2 DEF Debit
  <2>3. f = [y \in S |-> f[y]]
    OBVIOUS
  <2> HIDE DEF g
  <2> QED
    BY <2>1, <2>2, <2>3
<1> HIDE DEF g
<1>4. Total(f) = Total(g) + q
  <2>1. g \in [S -> Nat]
    BY <1>2
  <2>2. Total(Credit(g, x, q)) = Total(g) + q
    BY <2>1, CreditAdds
  <2> QED
    BY <1>3, <2>2, Zenon
<1>5. Total(g) \in Nat
  BY <1>2, TotalIsNumber
<1> QED
  BY <1>2, <1>4, <1>5 DEF g

\* The same of amounts, as long as they stay in their range.
LEMMA TotalCredit ==
  ASSUME NEW S, IsFiniteSet(S), NEW f \in [S -> Amounts], NEW x \in S,
         NEW q \in Nat, f[x] + q <= MaxAmount
  PROVE  /\ Credit(f, x, q) \in [S -> Amounts]
         /\ Total(Credit(f, x, q)) = Total(f) + q
<1>1. f[x] \in Nat /\ f[x] + q \in Amounts
  BY MaxAmountAssumption DEF Amounts
<1>2. Credit(f, x, q) \in [S -> Amounts]
  BY <1>1 DEF Credit
<1>3. f \in [S -> Nat]
  BY AmountTables
<1>4. Total(Credit(f, x, q)) = Total(f) + q
  BY <1>3, CreditAdds
<1> QED
  BY <1>2, <1>4

LEMMA TotalDebit ==
  ASSUME NEW S, IsFiniteSet(S), NEW f \in [S -> Amounts], NEW x \in S,
         NEW q \in Nat, q <= f[x]
  PROVE  /\ Debit(f, x, q) \in [S -> Amounts]
         /\ Total(Debit(f, x, q)) = Total(f) - q
<1>1. f[x] \in Nat /\ f[x] - q \in Amounts
  BY MaxAmountAssumption DEF Amounts
<1>2. Debit(f, x, q) \in [S -> Amounts]
  BY <1>1 DEF Debit
<1>3. f \in [S -> Nat]
  BY AmountTables
<1>4. Total(Debit(f, x, q)) = Total(f) - q
  BY <1>3, DebitTakes
<1> QED
  BY <1>2, <1>4

\* Nobody holds more than the total.
LEMMA EntryWithin ==
  ASSUME NEW S, IsFiniteSet(S), NEW f \in [S -> Nat], NEW x \in S
  PROVE  f[x] <= Total(f)
<1>1. f[x] \in Nat
  OBVIOUS
<1>2. Total(Debit(f, x, f[x])) = Total(f) - f[x] /\ Debit(f, x, f[x]) \in [S -> Nat]
  BY <1>1, DebitTakes
<1>3. Total(Debit(f, x, f[x])) \in Nat /\ Total(f) \in Nat
  BY <1>2, TotalIsNumber
<1> QED
  BY <1>1, <1>2, <1>3

LEMMA TotalBoundsEntry ==
  ASSUME NEW S, IsFiniteSet(S), NEW f \in [S -> Amounts], NEW x \in S
  PROVE  f[x] <= Total(f)
BY AmountTables, EntryWithin

\* Two distinct holders together hold no more than the total.
LEMMA TotalBoundsPair ==
  ASSUME NEW S, IsFiniteSet(S), NEW f \in [S -> Amounts],
         NEW x \in S, NEW y \in S, x # y
  PROVE  f[x] + f[y] <= Total(f)
<1> DEFINE g == Debit(f, x, f[x])
<1>1. f[x] \in Nat /\ f[y] \in Nat /\ f[x] <= MaxAmount
  BY MaxAmountAssumption DEF Amounts
<1>2. Total(g) = Total(f) - f[x] /\ g \in [S -> Amounts]
  BY <1>1, TotalDebit
<1>3. g[y] = f[y]
  BY DEF Debit
<1>4. g[y] <= Total(g) /\ Total(g) \in Nat /\ Total(f) \in Nat
  BY <1>2, TotalBoundsEntry, TotalType
<1> QED
  BY <1>1, <1>2, <1>3, <1>4

\* Moving q from x to y leaves the total as it was.
LEMMA TotalMove ==
  ASSUME NEW S, IsFiniteSet(S), NEW f \in [S -> Amounts],
         NEW x \in S, NEW y \in S, x # y,
         NEW q \in Nat, q <= f[x], f[y] + q <= MaxAmount
  PROVE  /\ Credit(Debit(f, x, q), y, q) \in [S -> Amounts]
         /\ Total(Credit(Debit(f, x, q), y, q)) = Total(f)
<1> DEFINE g == Debit(f, x, q)
<1>1. g \in [S -> Amounts] /\ Total(g) = Total(f) - q
  BY TotalDebit
<1>2. g[y] + q <= MaxAmount
  BY DEF Debit
<1>3. Credit(g, y, q) \in [S -> Amounts] /\ Total(Credit(g, y, q)) = Total(g) + q
  BY <1>1, <1>2, TotalCredit
<1>4. Total(f) \in Nat
  BY TotalType
<1> QED
  BY <1>1, <1>3, <1>4

\* A table in two parts holds what they hold together.
LEMMA SplitAdds ==
  ASSUME NEW A, NEW B, IsFiniteSet(A), IsFiniteSet(B), A \cap B = {},
         NEW f \in [A \cup B -> Nat]
  PROVE  Total(f) = Total(Restrict(f, A)) + Total(Restrict(f, B))
<1> DEFINE g == Restrict(f, A)
           h == Restrict(f, B)
           U == Units(g)
           V == Units(h)
<1>1. /\ g \in [A -> Nat] /\ \A x \in A : g[x] = f[x]
      /\ h \in [B -> Nat] /\ \A x \in B : h[x] = f[x]
  BY DEF Restrict
<1> HIDE DEF g, h
<1>2. Units(f) = U \cup V
  BY <1>1, UnitsOfTable
<1>3. U \cap V = {}
  BY <1>1, UnitsOfTable
<1>4. /\ IsFiniteSet(U) /\ Cardinality(U) \in Nat
      /\ IsFiniteSet(V) /\ Cardinality(V) \in Nat
  BY <1>1, TotalIsNumber DEF Total
<1> HIDE DEF U, V
<1>5. Cardinality(U \cup V) = Cardinality(U) + Cardinality(V) - Cardinality({})
  BY <1>3, <1>4, FS_Union
<1>6. Cardinality({}) = 0
  BY FS_EmptySet
<1> QED
  BY <1>2, <1>4, <1>5, <1>6 DEF Total, U, V, g, h

LEMMA TotalSplit ==
  ASSUME NEW A, NEW B, IsFiniteSet(A), IsFiniteSet(B), A \cap B = {},
         NEW f \in [A \cup B -> Amounts]
  PROVE  Total(f) = Total(Restrict(f, A)) + Total(Restrict(f, B))
BY AmountTables, SplitAdds

\* A part of a table holds no more than the table.
LEMMA PartWithin ==
  ASSUME NEW S, IsFiniteSet(S), NEW A \in SUBSET S, NEW f \in [S -> Nat]
  PROVE  Total(Restrict(f, A)) \in Nat /\ Total(Restrict(f, A)) <= Total(f)
<1> DEFINE B == S \ A
<1>1. IsFiniteSet(A) /\ IsFiniteSet(B)
  BY FS_Subset
<1>2. A \cap B = {} /\ f \in [A \cup B -> Nat]
  OBVIOUS
<1>3. Restrict(f, A) \in [A -> Nat] /\ Restrict(f, B) \in [B -> Nat]
  BY DEF Restrict
<1>4. Total(Restrict(f, A)) \in Nat /\ Total(Restrict(f, B)) \in Nat
  BY <1>1, <1>3, TotalIsNumber
<1> HIDE DEF B
<1>5. Total(f) = Total(Restrict(f, A)) + Total(Restrict(f, B))
  BY <1>1, <1>2, SplitAdds
<1> QED
  BY <1>4, <1>5

LEMMA TotalPart ==
  ASSUME NEW S, IsFiniteSet(S), NEW A \in SUBSET S, NEW f \in [S -> Amounts]
  PROVE  Total(Restrict(f, A)) \in Nat /\ Total(Restrict(f, A)) <= Total(f)
BY AmountTables, PartWithin

\* Where every entry is at most another's, so is the total.
LEMMA TotalGrows ==
  ASSUME NEW S, IsFiniteSet(S), NEW f \in [S -> Nat], NEW g \in [S -> Nat],
         \A x \in S : f[x] <= g[x]
  PROVE  Total(f) <= Total(g)
<1>1. Units(f) \subseteq Units(g)
  <2> SUFFICES ASSUME NEW u \in Units(f) PROVE u \in Units(g)
    OBVIOUS
  <2>1. u[1] \in S /\ u[2] \in Nat \ {0} /\ u[2] <= f[u[1]] /\ u = <<u[1], u[2]>>
    BY UnitsOfTable
  <2>2. f[u[1]] \in Nat /\ g[u[1]] \in Nat /\ f[u[1]] <= g[u[1]]
    BY <2>1
  <2>3. u[2] \in 1 .. g[u[1]]
    BY <2>1, <2>2
  <2> QED
    BY <2>1, <2>3, UnitsOfTable
<1>2. IsFiniteSet(Units(g))
  BY TotalIsNumber
<1> QED
  BY <1>1, <1>2, FS_Subset DEF Total

\* A table named anew holds what it held.
LEMMA TotalRenamed ==
  ASSUME NEW S, IsFiniteSet(S), NEW T, NEW f \in [S -> Nat], NEW g \in [T -> Nat],
         NEW h \in Bijection(S, T), \A x \in S : g[h[x]] = f[x]
  PROVE  Total(f) = Total(g)
<1> DEFINE H == [u \in Units(f) |-> <<h[u[1]], u[2]>>]
<1>1. /\ \A x \in S : h[x] \in T
      /\ \A x, y \in S : h[x] = h[y] => x = y
      /\ \A y \in T : \E x \in S : h[x] = y
  BY DEF Bijection, Injection, Surjection, IsInjective
<1>2. /\ \A u \in Units(f) : u[1] \in S /\ u[2] \in 1 .. f[u[1]] /\ u = <<u[1], u[2]>>
      /\ \A u \in Units(g) : u[1] \in T /\ u[2] \in 1 .. g[u[1]] /\ u = <<u[1], u[2]>>
      /\ \A x \in S : \A n \in 1 .. f[x] : <<x, n>> \in Units(f)
      /\ \A y \in T : \A n \in 1 .. g[y] : <<y, n>> \in Units(g)
  BY UnitsOfTable
<1>3. H \in [Units(f) -> Units(g)]
  BY <1>1, <1>2
<1>4. \A u, w \in Units(f) : H[u] = H[w] => u = w
  <2> SUFFICES ASSUME NEW u \in Units(f), NEW w \in Units(f), H[u] = H[w] PROVE u = w
    OBVIOUS
  <2>1. h[u[1]] = h[w[1]] /\ u[2] = w[2]
    OBVIOUS
  <2> QED
    BY <1>1, <1>2, <2>1
<1>5. \A w \in Units(g) : \E u \in Units(f) : H[u] = w
  <2> SUFFICES ASSUME NEW w \in Units(g) PROVE \E u \in Units(f) : H[u] = w
    OBVIOUS
  <2>1. PICK x \in S : h[x] = w[1]
    BY <1>1, <1>2
  <2>2. <<x, w[2]>> \in Units(f)
    BY <1>2, <2>1
  <2>3. H[<<x, w[2]>>] = w
    BY <1>2, <2>1, <2>2
  <2> QED
    BY <2>2, <2>3
<1>6. H \in Bijection(Units(f), Units(g))
  BY <1>3, <1>4, <1>5 DEF Bijection, Injection, Surjection, IsInjective
<1>7. IsFiniteSet(Units(f))
  BY TotalIsNumber
<1> QED
  BY <1>6, <1>7, FS_Bijection DEF ExistsBijection, Total

\* Two tables added up hold what they hold together.
LEMMA TotalOfSums ==
  ASSUME NEW S, IsFiniteSet(S), NEW f \in [S -> Nat], NEW g \in [S -> Nat]
  PROVE  /\ [x \in S |-> f[x] + g[x]] \in [S -> Nat]
         /\ Total([x \in S |-> f[x] + g[x]]) = Total(f) + Total(g)
<1> DEFINE s == [x \in S |-> f[x] + g[x]]
           above == Units(s) \ Units(f)
           H == [u \in Units(g) |-> <<u[1], f[u[1]] + u[2]>>]
<1>1. s \in [S -> Nat] /\ \A x \in S : s[x] = f[x] + g[x] /\ f[x] \in Nat /\ g[x] \in Nat
  OBVIOUS
<1> HIDE DEF s
<1>2. /\ \A u \in Units(f) : u[1] \in S /\ u[2] \in 1 .. f[u[1]] /\ u = <<u[1], u[2]>>
      /\ \A u \in Units(g) : u[1] \in S /\ u[2] \in 1 .. g[u[1]] /\ u = <<u[1], u[2]>>
      /\ \A u \in Units(s) : u[1] \in S /\ u[2] \in 1 .. s[u[1]] /\ u = <<u[1], u[2]>>
      /\ \A x \in S : \A n \in 1 .. f[x] : <<x, n>> \in Units(f)
      /\ \A x \in S : \A n \in 1 .. g[x] : <<x, n>> \in Units(g)
      /\ \A x \in S : \A n \in 1 .. s[x] : <<x, n>> \in Units(s)
  BY <1>1, UnitsOfTable
<1>3. \A u \in Units(g) : H[u] \in above
  <2> SUFFICES ASSUME NEW u \in Units(g) PROVE <<u[1], f[u[1]] + u[2]>> \in above
    OBVIOUS
  <2> DEFINE x == u[1]
             n == f[x] + u[2]
  <2>1. x \in S /\ n \in 1 .. s[x] /\ n \notin 1 .. f[x]
    BY <1>1, <1>2
  <2>2. <<x, n>> \in Units(s)
    BY <1>2, <2>1
  <2>3. <<x, n>> \notin Units(f)
    <3> SUFFICES ASSUME <<x, n>> \in Units(f) PROVE FALSE
      OBVIOUS
    <3>1. <<x, n>>[1] = x /\ <<x, n>>[2] = n
      OBVIOUS
    <3> QED
      BY <1>2, <2>1, <3>1
  <2> QED
    BY <2>2, <2>3
<1>4. \A u, w \in Units(g) : H[u] = H[w] => u = w
  <2> SUFFICES ASSUME NEW u \in Units(g), NEW w \in Units(g), H[u] = H[w] PROVE u = w
    OBVIOUS
  <2>1. u[1] = w[1] /\ f[u[1]] + u[2] = f[w[1]] + w[2]
    OBVIOUS
  <2>2. u[2] = w[2]
    BY <1>1, <1>2, <2>1
  <2> QED
    BY <1>2, <2>1, <2>2
<1>5. \A w \in above : \E u \in Units(g) : H[u] = w
  <2> SUFFICES ASSUME NEW w \in above PROVE \E u \in Units(g) : H[u] = w
    OBVIOUS
  <2> DEFINE x == w[1]
             n == w[2] - f[x]
  <2>1. x \in S /\ w[2] \in 1 .. s[x] /\ w = <<x, w[2]>>
    BY <1>2
  <2>2. w[2] \notin 1 .. f[x]
    BY <1>2, <2>1
  <2>3. n \in 1 .. g[x] /\ f[x] + n = w[2]
    BY <1>1, <2>1, <2>2
  <2> HIDE DEF n
  <2>4. <<x, n>> \in Units(g)
    BY <1>2, <2>1, <2>3
  <2>5. H[<<x, n>>] = w
    BY <2>1, <2>3, <2>4
  <2> QED
    BY <2>4, <2>5
<1>6. H \in Bijection(Units(g), above)
  BY <1>3, <1>4, <1>5 DEF Bijection, Injection, Surjection, IsInjective
<1>7. /\ IsFiniteSet(Units(f)) /\ IsFiniteSet(Units(g)) /\ IsFiniteSet(Units(s))
      /\ Total(f) \in Nat /\ Total(g) \in Nat /\ Total(s) \in Nat
  BY <1>1, TotalIsNumber
<1> HIDE DEF above, H
<1>8. Cardinality(above) = Total(g)
  BY <1>6, <1>7, FS_Bijection DEF ExistsBijection, Total
<1>9. Units(f) \subseteq Units(s)
  <2> SUFFICES ASSUME NEW u \in Units(f) PROVE u \in Units(s)
    OBVIOUS
  <2>1. u[1] \in S /\ u[2] \in 1 .. f[u[1]] /\ u = <<u[1], u[2]>>
    BY <1>2
  <2>2. u[2] \in 1 .. s[u[1]]
    BY <1>1, <2>1
  <2> QED
    BY <1>2, <2>1, <2>2
<1>10. Units(s) \cap Units(f) = Units(f)
  BY <1>9
<1>11. Cardinality(above) = Cardinality(Units(s)) - Cardinality(Units(s) \cap Units(f))
  BY <1>7, FS_Difference DEF above
<1>12. Total(g) = Total(s) - Total(f)
  BY <1>8, <1>10, <1>11, Zenon DEF Total
<1> HIDE DEF s
<1>13. Total(s) = Total(f) + Total(g)
  BY <1>7, <1>12
<1> QED
  BY <1>1, <1>13 DEF s

\* There are n numbers from 1 to n.
LEMMA FirstNumbers ==
  ASSUME NEW n \in Nat
  PROVE  IsFiniteSet(1 .. n) /\ Cardinality(1 .. n) = n
<1>1. 1 \in Int /\ n \in Int
  OBVIOUS
<1>2. IsFiniteSet(1 .. n) /\ Cardinality(1 .. n) = IF 1 > n THEN 0 ELSE n - 1 + 1
  BY <1>1, FS_Interval
<1> QED
  BY <1>2

\* A set with no more elements than another fits into it.
LEMMA SmallerFits ==
  ASSUME NEW A, NEW B, IsFiniteSet(A), IsFiniteSet(B), Cardinality(A) <= Cardinality(B)
  PROVE  Injection(A, B) # {}
<1> DEFINE a == Cardinality(A)
           b == Cardinality(B)
<1>1. a \in Nat /\ b \in Nat /\ a <= b
  BY FS_CardinalityType
<1>1a. /\ IsFiniteSet(1 .. a) /\ Cardinality(1 .. a) = a
       /\ IsFiniteSet(1 .. b) /\ Cardinality(1 .. b) = b
  BY <1>1, FirstNumbers
<1>2. PICK i \in Bijection(A, 1 .. a) : TRUE
  BY <1>1a, FS_SameCardinalityBij DEF ExistsBijection
<1>3. PICK j \in Bijection(1 .. b, B) : TRUE
  BY <1>1a, FS_SameCardinalityBij DEF ExistsBijection
<1> HIDE DEF a, b
<1>4. /\ \A x \in A : i[x] \in 1 .. a
      /\ \A x, y \in A : i[x] = i[y] => x = y
      /\ \A n \in 1 .. b : j[n] \in B
      /\ \A m, n \in 1 .. b : j[m] = j[n] => m = n
  BY DEF Bijection, Injection, IsInjective
<1>5. \A n \in 1 .. a : n \in 1 .. b
  BY <1>1
<1> DEFINE k == [x \in A |-> j[i[x]]]
<1>6. k \in Injection(A, B)
  BY <1>4, <1>5 DEF Injection, IsInjective
<1> QED
  BY <1>6

\* Where b times an entry is at most a times another's, so it is of the totals:
\* nothing is lost in adding up what was rounded down entry by entry.
LEMMA TotalScaled ==
  ASSUME NEW S, IsFiniteSet(S), NEW f \in [S -> Nat], NEW g \in [S -> Nat],
         NEW a \in Nat, NEW b \in Nat, \A x \in S : g[x] * b <= f[x] * a
  PROVE  Total(g) * b <= Total(f) * a
<1> DEFINE A(x) == (1 .. g[x]) \X (1 .. b)
           B(x) == (1 .. f[x]) \X (1 .. a)
           h == [x \in S |-> CHOOSE i : i \in Injection(A(x), B(x))]
<1>1. IsFiniteSet(1 .. a) /\ Cardinality(1 .. a) = a
      /\ IsFiniteSet(1 .. b) /\ Cardinality(1 .. b) = b
  BY FirstNumbers
<1>2. ASSUME NEW x \in S PROVE h[x] \in Injection(A(x), B(x))
  <2>1. f[x] \in Nat /\ g[x] \in Nat /\ g[x] * b <= f[x] * a
    OBVIOUS
  <2>2. /\ IsFiniteSet(1 .. f[x]) /\ Cardinality(1 .. f[x]) = f[x]
        /\ IsFiniteSet(1 .. g[x]) /\ Cardinality(1 .. g[x]) = g[x]
    BY <2>1, FirstNumbers
  <2>3. /\ IsFiniteSet((1 .. g[x]) \X (1 .. b))
        /\ Cardinality((1 .. g[x]) \X (1 .. b)) = Cardinality(1 .. g[x]) * Cardinality(1 .. b)
        /\ IsFiniteSet((1 .. f[x]) \X (1 .. a))
        /\ Cardinality((1 .. f[x]) \X (1 .. a)) = Cardinality(1 .. f[x]) * Cardinality(1 .. a)
    BY <1>1, <2>2, FS_Product
  <2>4. /\ IsFiniteSet(A(x)) /\ Cardinality(A(x)) = g[x] * b
        /\ IsFiniteSet(B(x)) /\ Cardinality(B(x)) = f[x] * a
    BY <1>1, <2>2, <2>3
  <2> HIDE DEF A, B
  <2>5. Injection(A(x), B(x)) # {}
    BY <2>1, <2>4, SmallerFits
  <2> QED
    BY <2>5
<1> HIDE DEF h
<1>3. ASSUME NEW x \in S
      PROVE  /\ \A n \in 1 .. g[x], m \in 1 .. b :
                  h[x][<<n, m>>][1] \in 1 .. f[x] /\ h[x][<<n, m>>][2] \in 1 .. a
             /\ \A p, q \in A(x) : h[x][p] = h[x][q] => p = q
             /\ \A p \in A(x) : h[x][p] = <<h[x][p][1], h[x][p][2]>>
  <2>1. \A n \in 1 .. g[x], m \in 1 .. b : <<n, m>> \in A(x)
    OBVIOUS
  <2>2. \A p \in B(x) : p[1] \in 1 .. f[x] /\ p[2] \in 1 .. a /\ p = <<p[1], p[2]>>
    OBVIOUS
  <2> HIDE DEF A, B
  <2>3. /\ \A p \in A(x) : h[x][p] \in B(x)
        /\ \A p, q \in A(x) : h[x][p] = h[x][q] => p = q
    BY <1>2 DEF Injection, IsInjective
  <2> QED
    BY <2>1, <2>2, <2>3
<1> DEFINE H == [w \in Units(g) \X (1 .. b) |->
                   LET x == w[1][1]
                       p == h[x][<<w[1][2], w[2]>>]
                   IN  <<<<x, p[1]>>, p[2]>>]
           F == Units(f) \X (1 .. a)
           G == Units(g) \X (1 .. b)
<1>4. /\ \A u \in Units(g) : u[1] \in S /\ u[2] \in 1 .. g[u[1]] /\ u = <<u[1], u[2]>>
      /\ \A x \in S : \A n \in 1 .. f[x] : <<x, n>> \in Units(f)
  <2>1. \A u \in Units(g) : u[1] \in S /\ u[2] \in 1 .. g[u[1]] /\ u = <<u[1], u[2]>>
    BY UnitsOfTable
  <2>2. \A x \in S : \A n \in 1 .. f[x] : <<x, n>> \in Units(f)
    BY UnitsOfTable, ZenonT(60)
  <2> QED
    BY <2>1, <2>2
<1>5. ASSUME NEW u \in Units(g), NEW m \in 1 .. b
      PROVE  /\ u[1] \in S /\ <<u[2], m>> \in A(u[1])
             /\ H[<<u, m>>] = <<<<u[1], h[u[1]][<<u[2], m>>][1]>>, h[u[1]][<<u[2], m>>][2]>>
             /\ H[<<u, m>>] \in F
  <2>1. u[1] \in S /\ u[2] \in 1 .. g[u[1]]
    BY <1>4
  <2>2. h[u[1]][<<u[2], m>>][1] \in 1 .. f[u[1]] /\ h[u[1]][<<u[2], m>>][2] \in 1 .. a
    BY <1>3, <2>1
  <2>3. <<u[1], h[u[1]][<<u[2], m>>][1]>> \in Units(f)
    BY <1>4, <2>1, <2>2
  <2> QED
    BY <2>1, <2>2, <2>3
<1>6. H \in [G -> F]
  <2>1. \A w \in G : w[1] \in Units(g) /\ w[2] \in 1 .. b /\ w = <<w[1], w[2]>>
    OBVIOUS
  <2>2. H = [w \in G |-> H[w]]
    OBVIOUS
  <2> HIDE DEF H, F
  <2>3. ASSUME NEW w \in G PROVE H[w] \in F
    <3>1. H[<<w[1], w[2]>>] \in F
      BY <1>5, <2>1
    <3> QED
      BY <2>1, <3>1, Zenon
  <2> HIDE DEF G
  <2> QED
    BY <2>2, <2>3
<1>7. ASSUME NEW u \in Units(g), NEW m \in 1 .. b, NEW v \in Units(g), NEW n \in 1 .. b,
             H[<<u, m>>] = H[<<v, n>>]
      PROVE  <<u, m>> = <<v, n>>
  <2> DEFINE p == <<u[2], m>>
             q == <<v[2], n>>
  <2>1. u[1] = v[1] /\ h[u[1]][p][1] = h[v[1]][q][1] /\ h[u[1]][p][2] = h[v[1]][q][2]
    <3> HIDE DEF H
    <3>1. <<<<u[1], h[u[1]][p][1]>>, h[u[1]][p][2]>> = <<<<v[1], h[v[1]][q][1]>>, h[v[1]][q][2]>>
      <4>1. H[<<u, m>>] = <<<<u[1], h[u[1]][p][1]>>, h[u[1]][p][2]>>
        BY <1>5
      <4>2. H[<<v, n>>] = <<<<v[1], h[v[1]][q][1]>>, h[v[1]][q][2]>>
        BY <1>5
      <4> QED
        BY <1>7, <4>1, <4>2, Zenon
    <3> HIDE DEF p, q
    <3> QED
      BY <3>1
  <2>2. u[1] \in S /\ p \in A(u[1]) /\ q \in A(u[1])
    BY <1>5, <2>1
  <2> HIDE DEF p, q, A
  <2>3. /\ h[u[1]][p] = <<h[u[1]][p][1], h[u[1]][p][2]>>
        /\ h[u[1]][q] = <<h[u[1]][q][1], h[u[1]][q][2]>>
        /\ h[u[1]][p] = h[u[1]][q] => p = q
    BY <1>3, <2>2, Zenon
  <2>4. p = q
    BY <2>1, <2>3, Zenon
  <2>5. u[2] = v[2] /\ m = n
    BY <2>4 DEF p, q
  <2> QED
    BY <1>4, <2>1, <2>5
<1>8. H \in Injection(G, F)
  <2>1. \A w \in G : w[1] \in Units(g) /\ w[2] \in 1 .. b /\ w = <<w[1], w[2]>>
    OBVIOUS
  <2> HIDE DEF H
  <2>2. \A w, z \in G : H[w] = H[z] => w = z
    BY <1>7, <2>1
  <2> HIDE DEF G, F
  <2> QED
    BY <1>6, <2>2 DEF Injection, IsInjective
<1>9. /\ IsFiniteSet(Units(f)) /\ IsFiniteSet(Units(g))
      /\ Cardinality(Units(f)) = Total(f) /\ Cardinality(Units(g)) = Total(g)
  BY TotalIsNumber DEF Total
<1>10. /\ IsFiniteSet(F) /\ Cardinality(F) = Cardinality(Units(f)) * Cardinality(1 .. a)
       /\ Cardinality(G) = Cardinality(Units(g)) * Cardinality(1 .. b)
  BY <1>1, <1>9, FS_Product
<1>11. Cardinality(F) = Total(f) * a /\ Cardinality(G) = Total(g) * b
  BY <1>1, <1>9, <1>10, Zenon
<1> HIDE DEF F, G, H
<1> QED
  BY <1>8, <1>10, <1>11, FS_Injection
================================================================================
