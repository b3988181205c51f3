----------------------------- MODULE SeriesProofs -----------------------------
(****************************************************************************)
(* Facts about the operators of Series, and the few of the library, that    *)
(* the proofs about figures, rankings and texts keep needing: for sequences *)
(* of every length.                                                         *)
(****************************************************************************)
EXTENDS Series, FiniteSetsExt, Functions, FiniteSetTheorems, SequenceTheorems, TLAPS

(****************************************************************************)
(* Induction and recursion.  A theorem that takes a predicate cannot be     *)
(* instantiated, so induction is over sets, and a recursive function is     *)
(* shown to exist, which a CHOOSE then is.                                  *)
(****************************************************************************)
\* Natural numbers: a set with 0 that n + 1 is in with n has them all.
LEMMA Induction ==
    ASSUME NEW S, 0 \in S, \A n \in Nat : n \in S => n + 1 \in S
    PROVE  Nat \subseteq S
<1> DEFINE T == Nat \ S
<1>1. SUFFICES ASSUME T # {} PROVE FALSE
  OBVIOUS
<1>2. \E x \in T : \A y \in T : ~ (<<y, x>> \in OpToRel(<, Nat))
  BY <1>1, NatLessThanWellFounded, WFMin
<1>3. PICK x \in T : \A y \in T : ~(y < x)
  BY <1>2 DEF OpToRel
<1>4. x # 0 /\ x - 1 \in Nat /\ x - 1 < x
  OBVIOUS
<1>5. x - 1 \in S
  BY <1>3, <1>4
<1>6. QED
  BY <1>4, <1>5

\* Induction up to a bound.
LEMMA UpTo ==
    ASSUME NEW L \in Nat, NEW S, 0 \in S, \A n \in 1..L : n - 1 \in S => n \in S
    PROVE  0..L \subseteq S /\ L \in S
<1> DEFINE T == {n \in Nat : n <= L => n \in S}
<1>1. 0 \in T
  OBVIOUS
<1>2. \A n \in Nat : n \in T => n + 1 \in T
  <2>1. TAKE n \in Nat
  <2>2. CASE n + 1 <= L
    <3>1. n + 1 \in 1..L /\ (n + 1) - 1 = n
      BY <2>2
    <3>2. QED
      BY <3>1, <2>2
  <2>3. QED
    BY <2>2
<1>3. Nat \subseteq T
  <2> HIDE DEF T
  <2>1. QED
    BY <1>1, <1>2, Induction
<1>4. QED
  BY <1>3

\* A function on 1..n with values in a set is a sequence over it.
LEMMA SequenceOf ==
    ASSUME NEW n \in Nat, NEW T, NEW f, f = [i \in 1..n |-> f[i]], \A i \in 1..n : f[i] \in T
    PROVE  f \in Seq(T) /\ Len(f) = n
OBVIOUS

\* A function on 1..n is a sequence.
LEMMA IntSequence ==
    ASSUME NEW n \in Nat, NEW f, f = [i \in 1..n |-> f[i]], \A i \in 1..n : f[i] \in Int
    PROVE  f \in Seq(Int) /\ Len(f) = n
OBVIOUS

\* f follows a recursion along 0..L: a base and, for each position, a step.
Follows(f, L, V, base, step) ==
    /\ f \in [0..L -> V] /\ f[0] = base
    /\ \A n \in 1..L : f[n] = step[n][f[n - 1]]

\* A recursion along 0..L has a solution.
LEMMA RecursionExists ==
    ASSUME NEW L \in Nat, NEW V, NEW base \in V, NEW step \in [1..L -> [V -> V]]
    PROVE  \E f : Follows(f, L, V, base, step)
<1> DEFINE Good(k) == {f \in [0..k -> V] :
                          f[0] = base /\ \A n \in 1..k : f[n] = step[n][f[n - 1]]}
           S == {k \in 0..L : Good(k) # {}}
<1>1. 0 \in S
  <2>1. [n \in 0..0 |-> base] \in Good(0)
    OBVIOUS
  <2>2. QED
    BY <2>1
<1>2. \A k \in 1..L : k - 1 \in S => k \in S
  <2>1. TAKE k \in 1..L
  <2>2. HAVE k - 1 \in S
  <2>3. PICK f \in [0..(k - 1) -> V] :
                f[0] = base /\ \A n \in 1..(k - 1) : f[n] = step[n][f[n - 1]]
    BY <2>2
  <2> DEFINE g == [n \in 0..k |-> IF n < k THEN f[n] ELSE step[k][f[k - 1]]]
  <2>4. step[k][f[k - 1]] \in V
    BY <2>3
  <2>5. g \in [0..k -> V]
    BY <2>3, <2>4
  <2>6. g[0] = base
    BY <2>3
  <2>7. ASSUME NEW n \in 1..k
        PROVE  g[n] = step[n][g[n - 1]]
    <3>1. CASE n < k
      <4>1. n \in 1..(k - 1) /\ g[n] = f[n] /\ g[n - 1] = f[n - 1]
        BY <3>1
      <4>2. QED
        BY <2>3, <4>1
    <3>2. CASE n = k
      <4>1. g[n] = step[k][f[k - 1]] /\ g[n - 1] = f[k - 1]
        BY <3>2
      <4>2. QED
        BY <3>2, <4>1
    <3>3. QED
      BY <3>1, <3>2
  <2> HIDE DEF g
  <2>8. g \in Good(k)
    BY <2>5, <2>6, <2>7
  <2>9. QED
    BY <2>8
<1>3. 0..L \subseteq S
  <2> HIDE DEF S
  <2>1. QED
    BY <1>1, <1>2, UpTo
<1>4. QED
  BY <1>3 DEF Follows

(****************************************************************************)
(* Sums.                                                                    *)
(****************************************************************************)
\* The sum of integers, along its partial sums.
PartialSums(sum, s) ==
    /\ sum[0] = 0
    /\ \A n \in 0..Len(s) : sum[n] \in Int
    /\ \A n \in 1..Len(s) : s[n] \in Int /\ sum[n] = sum[n - 1] + s[n]

\* A sum of integers is the last of its partial sums.
LEMMA SumByParts ==
    ASSUME NEW s \in Seq(Int)
    PROVE  \E sum : PartialSums(sum, s) /\ SumOf(s) = sum[Len(s)]
<1> DEFINE L == Len(s)
           step == [n \in 1..L |-> [x \in Int |-> x + s[n]]]
           Eq(f) == f = [n \in 0..L |-> IF n = 0 THEN 0 ELSE f[n - 1] + s[n]]
<1>1. L \in Nat /\ \A n \in 1..L : s[n] \in Int
  OBVIOUS
<1>2. 0 \in Int /\ step \in [1..L -> [Int -> Int]]
  BY <1>1
<1>3. \A n \in 1..L, x \in Int : step[n][x] = x + s[n]
  OBVIOUS
<1>4. \A f : Eq(f) => /\ f = [n \in 0..L |-> f[n]]
                      /\ f[0] = 0 /\ \A n \in 1..L : f[n] = f[n - 1] + s[n]
  BY <1>1
<1> DEFINE c == CHOOSE g : Eq(g)
<1>5. SumOf(s) = c[L]
  BY DEF SumOf
<1> HIDE DEF L, step
<1>6. PICK f : Follows(f, L, Int, 0, step)
  BY <1>1, <1>2, RecursionExists
<1>7. Eq(f)
  <2>1. f \in [0..L -> Int] /\ f[0] = 0
    BY <1>6 DEF Follows
  <2>2. \A n \in 1..L : f[n] = f[n - 1] + s[n]
    <3>1. \A n \in 1..L : f[n] = step[n][f[n - 1]]
      BY <1>6 DEF Follows
    <3>2. \A n \in 1..L : f[n - 1] \in Int
      BY <1>1, <2>1
    <3>3. QED
      BY <1>3, <3>1, <3>2
  <2>3. QED
    BY <1>1, <2>1, <2>2
<1>8. Eq(c)
  BY <1>7
<1> HIDE DEF c, Eq
<1>9. c = [n \in 0..L |-> c[n]] /\ c[0] = 0 /\ \A n \in 1..L : c[n] = c[n - 1] + s[n]
  BY <1>4, <1>8
<1>10. \A n \in 0..L : c[n] \in Int
  <2> DEFINE S == {n \in 0..L : c[n] \in Int}
  <2>1. 0 \in S
    BY <1>1, <1>9
  <2>2. \A n \in 1..L : n - 1 \in S => n \in S
    <3>1. TAKE n \in 1..L
    <3>2. n \in 0..L
      BY <1>1
    <3>3. s[n] \in Int /\ c[n] = c[n - 1] + s[n]
      BY <1>1, <1>9
    <3>4. QED
      BY <3>2, <3>3
  <2> HIDE DEF S
  <2>3. 0..L \subseteq S
    BY <1>1, <2>1, <2>2, UpTo
  <2>4. QED
    BY <2>3 DEF S
<1>11. QED
  BY <1>1, <1>5, <1>9, <1>10 DEF L, PartialSums

\* It is an integer.
LEMMA SumIsInt ==
    ASSUME NEW s \in Seq(Int)
    PROVE  SumOf(s) \in Int
<1>1. PICK sum : PartialSums(sum, s) /\ SumOf(s) = sum[Len(s)]
  BY SumByParts
<1>2. Len(s) \in 0..Len(s)
  OBVIOUS
<1>3. QED
  BY <1>1, <1>2 DEF PartialSums

\* Sums of two pairs.
LEMMA Regroup == \A a, b, c, d \in Int : (a + b) + (c + d) = (a + c) + (b + d)
OBVIOUS

\* The sum of the sums is the sum of the parts.
LEMMA SumAdds ==
    ASSUME NEW s \in Seq(Int), NEW t \in Seq(Int), NEW u \in Seq(Int),
           Len(s) = Len(u), Len(t) = Len(u),
           \A i \in 1..Len(u) : u[i] = s[i] + t[i]
    PROVE  SumOf(u) = SumOf(s) + SumOf(t)
<1> DEFINE L == Len(u)
<1>1. PICK a : PartialSums(a, s) /\ SumOf(s) = a[L]
  BY SumByParts
<1>2. PICK b : PartialSums(b, t) /\ SumOf(t) = b[L]
  BY SumByParts
<1>3. PICK c : PartialSums(c, u) /\ SumOf(u) = c[L]
  BY SumByParts
<1> DEFINE S == {n \in 0..L : c[n] = a[n] + b[n]}
<1>4. L \in Nat /\ 0 \in S
  BY <1>1, <1>2, <1>3 DEF PartialSums
<1>5. \A n \in 1..L : n - 1 \in S => n \in S
  <2>1. TAKE n \in 1..L
  <2>2. n - 1 \in 0..L /\ n \in 0..L
    BY <1>4
  <2>3. /\ a[n] = a[n - 1] + s[n] /\ b[n] = b[n - 1] + t[n] /\ c[n] = c[n - 1] + u[n]
        /\ a[n - 1] \in Int /\ b[n - 1] \in Int /\ s[n] \in Int /\ t[n] \in Int
    BY <1>1, <1>2, <1>3, <2>2 DEF PartialSums
  <2>4. u[n] = s[n] + t[n]
    OBVIOUS
  <2>5. ASSUME n - 1 \in S
        PROVE  c[n] = a[n] + b[n]
    <3>1. c[n - 1] = a[n - 1] + b[n - 1]
      BY <2>5
    <3>2. c[n] = (a[n - 1] + b[n - 1]) + (s[n] + t[n])
      BY <2>3, <2>4, <3>1, Zenon
    <3>3. (a[n - 1] + b[n - 1]) + (s[n] + t[n]) = (a[n - 1] + s[n]) + (b[n - 1] + t[n])
      BY <2>3, Regroup, SMTT(60)
    <3>4. QED
      BY <2>3, <3>2, <3>3, Zenon
  <2>6. QED
    BY <2>2, <2>5
<1> HIDE DEF S
<1>6. L \in S
  BY <1>4, <1>5, UpTo
<1>7. QED
  BY <1>1, <1>2, <1>3, <1>6 DEF S

\* A factor of a sum.
LEMMA Distributes == \A a, b, k \in Int : (a + b) * k = a * k + b * k
OBVIOUS

\* A common factor.
LEMMA SumScales ==
    ASSUME NEW k \in Int, NEW s \in Seq(Int), NEW t \in Seq(Int), Len(s) = Len(t),
           \A i \in 1..Len(t) : t[i] = s[i] * k
    PROVE  SumOf(t) = SumOf(s) * k
<1> DEFINE L == Len(t)
<1>1. PICK a : PartialSums(a, s) /\ SumOf(s) = a[L]
  BY SumByParts
<1>2. PICK b : PartialSums(b, t) /\ SumOf(t) = b[L]
  BY SumByParts
<1> DEFINE S == {n \in 0..L : b[n] = a[n] * k}
<1>3. L \in Nat /\ 0 \in S
  BY <1>1, <1>2 DEF PartialSums
<1>4. \A n \in 1..L : n - 1 \in S => n \in S
  <2>1. TAKE n \in 1..L
  <2>2. n - 1 \in 0..L /\ n \in 0..L
    BY <1>3
  <2>3. /\ a[n] = a[n - 1] + s[n] /\ b[n] = b[n - 1] + t[n] /\ t[n] = s[n] * k
        /\ {a[n - 1], s[n]} \subseteq Int
    BY <1>1, <1>2, <2>2 DEF PartialSums
  <2>4. (a[n - 1] + s[n]) * k = a[n - 1] * k + s[n] * k
    BY <2>3, Distributes
  <2>5. QED
    BY <2>2, <2>3, <2>4
<1> HIDE DEF S
<1>5. L \in S
  BY <1>3, <1>4, UpTo
<1>6. QED
  BY <1>1, <1>2, <1>5 DEF S

\* Larger summands, a sum at least as large.
LEMMA SumMonotone ==
    ASSUME NEW s \in Seq(Int), NEW t \in Seq(Int), Len(s) = Len(t),
           \A i \in 1..Len(t) : s[i] <= t[i]
    PROVE  SumOf(s) <= SumOf(t)
<1> DEFINE L == Len(t)
<1>1. PICK a : PartialSums(a, s) /\ SumOf(s) = a[L]
  BY SumByParts
<1>2. PICK b : PartialSums(b, t) /\ SumOf(t) = b[L]
  BY SumByParts
<1> DEFINE S == {n \in 0..L : a[n] <= b[n]}
<1>3. L \in Nat /\ 0 \in S
  BY <1>1, <1>2 DEF PartialSums
<1>4. \A n \in 1..L : n - 1 \in S => n \in S
  <2>1. TAKE n \in 1..L
  <2>2. n - 1 \in 0..L /\ n \in 0..L
    BY <1>3
  <2>3. /\ a[n] = a[n - 1] + s[n] /\ b[n] = b[n - 1] + t[n]
        /\ {a[n - 1], b[n - 1], s[n], t[n]} \subseteq Int
    BY <1>1, <1>2, <2>2 DEF PartialSums
  <2>4. QED
    BY <2>2, <2>3, SMTT(60)
<1> HIDE DEF S
<1>5. L \in S
  BY <1>3, <1>4, UpTo
<1>6. QED
  BY <1>1, <1>2, <1>5 DEF S

(****************************************************************************)
(* Sorts and filters.  A member's rank is the number of members before it;  *)
(* ranks are distinct and every one is taken, so the sort lists each member *)
(* once.                                                                    *)
(****************************************************************************)
\* A strict total order on a set.
IsOrder(relation, set) ==
    /\ relation \subseteq set \X set
    /\ \A x \in set : <<x, x>> \notin relation
    /\ \A x, y \in set : x = y \/ <<x, y>> \in relation \/ <<y, x>> \in relation
    /\ \A x, y, z \in set : <<x, y>> \in relation /\ <<y, z>> \in relation => <<x, z>> \in relation

\* The members that come before one.
Below(x, set, relation) == {y \in set : <<y, x>> \in relation}

\* How many members come before one tells the members apart.
LEMMA RanksAreDistinct ==
    ASSUME NEW set, IsFiniteSet(set), NEW relation, IsOrder(relation, set),
           NEW x \in set, NEW y \in set, <<x, y>> \in relation
    PROVE  /\ Cardinality(Below(x, set, relation)) \in Nat
           /\ Cardinality(Below(y, set, relation)) \in Nat
           /\ Cardinality(Below(x, set, relation)) < Cardinality(Below(y, set, relation))
<1> DEFINE A == Below(x, set, relation)
           B == Below(y, set, relation)
<1>1. A \in SUBSET B /\ B \in SUBSET set
  BY DEF Below, IsOrder
<1>2. A # B
  BY DEF Below, IsOrder
<1>3. IsFiniteSet(B)
  BY <1>1, FS_Subset
<1> HIDE DEF A, B
<1>4. /\ IsFiniteSet(A) /\ Cardinality(A) <= Cardinality(B)
      /\ Cardinality(B) = Cardinality(A) => B = A
  BY <1>1, <1>3, FS_Subset
<1>5. Cardinality(A) \in Nat /\ Cardinality(B) \in Nat
  BY <1>3, <1>4, FS_CardinalityType
<1>6. QED
  BY <1>2, <1>4, <1>5 DEF A, B

\* Every rank from none to all but one is that of a member.
LEMMA RanksAreTaken ==
    ASSUME NEW set, IsFiniteSet(set), NEW relation, IsOrder(relation, set)
    PROVE  /\ Cardinality(set) \in Nat
           /\ \A x \in set : Cardinality(Below(x, set, relation)) \in 0..(Cardinality(set) - 1)
           /\ \A n \in 1..Cardinality(set) :
                 \E x \in set : Cardinality(Below(x, set, relation)) = n - 1
<1> DEFINE L == Cardinality(set)
           T == 0..(L - 1)
           rank == [x \in set |-> Cardinality(Below(x, set, relation))]
<1>1. L \in Nat
  BY FS_CardinalityType
<1>2. ASSUME NEW x \in set
      PROVE  Cardinality(Below(x, set, relation)) \in T
  <2> DEFINE A == Below(x, set, relation)
  <2>1. A \in SUBSET set /\ A # set
    BY DEF Below, IsOrder
  <2> HIDE DEF A
  <2>2. IsFiniteSet(A) /\ Cardinality(A) <= L /\ Cardinality(A) # L
    BY <2>1, FS_Subset
  <2>3. Cardinality(A) \in Nat
    BY <2>2, FS_CardinalityType
  <2>4. QED
    BY <1>1, <2>2, <2>3 DEF A
<1>3. rank \in Injection(set, T)
  <2>1. rank \in [set -> T]
    BY <1>2
  <2>2. ASSUME NEW x \in set, NEW y \in set, rank[x] = rank[y]
        PROVE  x = y
    <3>1. CASE <<x, y>> \in relation
      BY <2>2, <3>1, RanksAreDistinct
    <3>2. CASE <<y, x>> \in relation
      BY <2>2, <3>2, RanksAreDistinct
    <3>3. QED
      BY <3>1, <3>2 DEF IsOrder
  <2>3. QED
    BY <2>1, <2>2 DEF Injection, IsInjective
<1> HIDE DEF rank
<1>4. IsFiniteSet(T) /\ Cardinality(T) = L
  BY <1>1, FS_Interval, SMTT(60)
<1>5. rank \in Surjection(set, T)
  BY <1>3, <1>4, FS_Injection
<1>6. ASSUME NEW n \in 1..L
      PROVE  \E x \in set : Cardinality(Below(x, set, relation)) = n - 1
  <2>1. n - 1 \in T
    BY <1>1
  <2>2. QED
    BY <1>5, <2>1 DEF Surjection, rank
<1>7. QED
  BY <1>1, <1>2, <1>6

\* A sort lists exactly the members, each once, in their order.
LEMMA OrderedFacts ==
    ASSUME NEW set, IsFiniteSet(set), NEW relation, IsOrder(relation, set)
    PROVE  LET order == Ordered(set, relation)
           IN  /\ Cardinality(set) \in Nat /\ DOMAIN order = 1..Cardinality(set)
               /\ \A n \in 1..Cardinality(set) :
                     /\ order[n] \in set
                     /\ Cardinality(Below(order[n], set, relation)) = n - 1
               /\ \A x \in set : \E n \in 1..Cardinality(set) : order[n] = x
               /\ \A m, n \in 1..Cardinality(set) :
                     m < n => <<order[m], order[n]>> \in relation
<1> DEFINE L == Cardinality(set)
           order == Ordered(set, relation)
           rank(x) == Cardinality(Below(x, set, relation))
<1>1. /\ L \in Nat /\ \A x \in set : rank(x) \in 0..(L - 1)
      /\ \A n \in 1..L : \E x \in set : rank(x) = n - 1
  BY RanksAreTaken
<1>2. order = [n \in 1..L |-> CHOOSE x \in set : rank(x) = n - 1]
  BY DEF Ordered, Below
<1> HIDE DEF order, L
<1>3. \A n \in 1..L : order[n] \in set /\ rank(order[n]) = n - 1
  BY <1>1, <1>2
<1> HIDE DEF rank
<1>4. ASSUME NEW x \in set, NEW y \in set, <<x, y>> \in relation
      PROVE  rank(x) < rank(y)
  BY <1>4, RanksAreDistinct DEF rank
<1>5. \A x, y \in set : rank(x) = rank(y) => x = y
  <2>1. TAKE x \in set, y \in set
  <2>2. rank(x) \in Int /\ rank(y) \in Int
    BY <1>1
  <2>3. (~(rank(x) < rank(y)) /\ ~(rank(y) < rank(x))) \/ rank(x) # rank(y)
    BY <2>2
  <2>4. x = y \/ <<x, y>> \in relation \/ <<y, x>> \in relation
    BY DEF IsOrder
  <2>5. QED
    BY <1>4, <2>3, <2>4, Zenon
<1>6. \A x \in set : \E n \in 1..L : order[n] = x
  <2>1. TAKE x \in set
  <2>2. rank(x) + 1 \in 1..L /\ rank(x) = (rank(x) + 1) - 1
    BY <1>1
  <2>3. order[rank(x) + 1] \in set /\ rank(order[rank(x) + 1]) = rank(x)
    BY <1>3, <2>2
  <2>4. QED
    BY <1>5, <2>2, <2>3
<1>7. ASSUME NEW m \in 1..L, NEW n \in 1..L, m < n
      PROVE  <<order[m], order[n]>> \in relation
  <2>1. order[m] \in set /\ order[n] \in set /\ rank(order[m]) = m - 1 /\ rank(order[n]) = n - 1
    BY <1>3
  <2>2. order[m] # order[n]
    BY <1>1, <1>7, <2>1
  <2>3. ~(<<order[n], order[m]>> \in relation)
    BY <1>1, <1>4, <1>7, <2>1
  <2>4. QED
    BY <2>1, <2>2, <2>3 DEF IsOrder
<1>8. QED
  BY <1>1, <1>2, <1>3, <1>6, <1>7 DEF order, L, rank

\* The numbers up to n are n.
LEMMA CountUpTo ==
    ASSUME NEW n \in Nat
    PROVE  IsFiniteSet(1..n) /\ Cardinality(1..n) = n
<1>1. 1 \in Int /\ n \in Int
  OBVIOUS
<1>2. IsFiniteSet(1..n) /\ Cardinality(1..n) = IF 1 > n THEN 0 ELSE n - 1 + 1
  BY <1>1, FS_Interval
<1>3. QED
  BY <1>2

\* The members of a set of positions, in increasing order.
LEMMA AscendingFacts ==
    ASSUME NEW L \in Nat, NEW K \in SUBSET (1..L)
    PROVE  LET kept == Ascending(K)
           IN  /\ Cardinality(K) \in Nat /\ DOMAIN kept = 1..Cardinality(K)
               /\ \A n \in 1..Cardinality(K) : kept[n] \in K
               /\ \A i \in K : \E n \in 1..Cardinality(K) : kept[n] = i
               /\ \A m, n \in 1..Cardinality(K) : m < n => kept[m] < kept[n]
<1> DEFINE R == {p \in K \X K : p[1] < p[2]}
<1>1. IsFiniteSet(K)
  BY CountUpTo, FS_Subset
<1>2. IsOrder(R, K)
  BY DEF IsOrder
<1>3. Ascending(K) = Ordered(K, R)
  BY DEF Ascending
<1>4. \A i, j : <<i, j>> \in R => i < j
  OBVIOUS
<1> HIDE DEF R
<1>5. LET order == Ordered(K, R)
      IN  /\ Cardinality(K) \in Nat /\ DOMAIN order = 1..Cardinality(K)
          /\ \A n \in 1..Cardinality(K) : order[n] \in K
          /\ \A x \in K : \E n \in 1..Cardinality(K) : order[n] = x
          /\ \A m, n \in 1..Cardinality(K) : m < n => <<order[m], order[n]>> \in R
  BY <1>1, <1>2, OrderedFacts
<1>6. QED
  BY <1>3, <1>4, <1>5

\* Picking keeps what was picked, and its order.
LEMMA PickedFacts ==
    ASSUME NEW T, NEW s \in Seq(T), NEW K \in SUBSET DOMAIN s
    PROVE  LET picked == Picked(s, K)
           IN  /\ Cardinality(K) \in Nat /\ DOMAIN picked = 1..Cardinality(K)
               /\ picked \in Seq(T) /\ Len(picked) = Cardinality(K)
               /\ \A n \in DOMAIN picked : \E i \in K : picked[n] = s[i]
               /\ \A i \in K : \E n \in DOMAIN picked : picked[n] = s[i]
               /\ (\A i, j \in DOMAIN s : s[i] = s[j] => i = j) =>
                      \A m, n \in DOMAIN picked : picked[m] = picked[n] => m = n
<1> DEFINE kept == Ascending(K)
           C == Cardinality(K)
           picked == Picked(s, K)
<1>1. DOMAIN s = 1..Len(s) /\ Len(s) \in Nat
  OBVIOUS
<1>2. /\ C \in Nat /\ DOMAIN kept = 1..C
      /\ \A n \in 1..C : kept[n] \in K
      /\ \A i \in K : \E n \in 1..C : kept[n] = i
      /\ \A m, n \in 1..C : m < n => kept[m] < kept[n]
  BY <1>1, AscendingFacts
<1>3. picked = [n \in 1..C |-> s[kept[n]]]
  BY <1>2 DEF Picked
<1> HIDE DEF kept, C, picked
<1>4. \A n \in 1..C : picked[n] \in T
  BY <1>2, <1>3
<1>5. picked \in Seq(T) /\ Len(picked) = C /\ DOMAIN picked = 1..C
  BY <1>2, <1>3, <1>4
<1>6. \A n \in 1..C : \E i \in K : picked[n] = s[i]
  BY <1>2, <1>3
<1>7. \A i \in K : \E n \in 1..C : picked[n] = s[i]
  BY <1>2, <1>3
<1>8. ASSUME \A i, j \in DOMAIN s : s[i] = s[j] => i = j,
             NEW m \in 1..C, NEW n \in 1..C, picked[m] = picked[n]
      PROVE  m = n
  <2>1. kept[m] \in DOMAIN s /\ kept[n] \in DOMAIN s /\ s[kept[m]] = s[kept[n]]
    BY <1>2, <1>3, <1>8
  <2>2. kept[m] = kept[n] /\ kept[m] \in Int
    BY <1>1, <1>8, <2>1
  <2>3. ~(m < n) /\ ~(n < m)
    BY <1>2, <2>2
  <2>4. QED
    BY <1>2, <2>3
<1>9. QED
  BY <1>2, <1>5, <1>6, <1>7, <1>8 DEF C, picked

\* What is picked is in the result.
LEMMA PickedRange ==
    ASSUME NEW T, NEW s \in Seq(T), NEW K \in SUBSET DOMAIN s, NEW i \in K
    PROVE  s[i] \in Range(Picked(s, K))
<1>1. \A j \in K : \E n \in DOMAIN Picked(s, K) : Picked(s, K)[n] = s[j]
  BY PickedFacts
<1>2. PICK n \in DOMAIN Picked(s, K) : Picked(s, K)[n] = s[i]
  BY <1>1
<1>3. QED
  BY <1>2 DEF Range

\* Sorting the elements of a sequence without repetition orders their set: the
\* sequence they came in leaves no trace.
LEMMA ArrangedIsOfTheSet ==
    ASSUME NEW set, NEW relation, IsOrder(relation, set),
           NEW s \in Seq(set), \A x \in set : \E i \in DOMAIN s : s[i] = x,
           \A i, j \in DOMAIN s : s[i] = s[j] => i = j,
           NEW R, R = {p \in (DOMAIN s) \X (DOMAIN s) : <<s[p[1]], s[p[2]]>> \in relation}
    PROVE  Arranged(s, R) = Ordered(set, relation)
<1> DEFINE L == Len(s)
           D == 1..L
           order == Ordered(D, R)
<1>1. D = DOMAIN s /\ L \in Nat
  OBVIOUS
<1>2. \A i \in D : s[i] \in set
  OBVIOUS
<1>3. IsFiniteSet(D) /\ Cardinality(D) = L
  BY <1>1, CountUpTo
<1>4. IsOrder(R, D)
  BY <1>1, <1>2 DEF IsOrder
<1>5. IsFiniteSet(set) /\ Cardinality(set) = L
  <2>1. s \in Surjection(D, set) /\ s \in Injection(D, set)
    BY <1>1 DEF Surjection, Injection, IsInjective
  <2>2. QED
    BY <1>3, <2>1, FS_Surjection
<1> HIDE DEF D, L
<1>6. /\ DOMAIN order = 1..L
      /\ \A n \in 1..L : order[n] \in D /\ Cardinality(Below(order[n], D, R)) = n - 1
  BY <1>3, <1>4, OrderedFacts
<1>7. ASSUME NEW i \in D
      PROVE  Cardinality(Below(i, D, R)) = Cardinality(Below(s[i], set, relation))
  <2> DEFINE A == Below(i, D, R)
             B == Below(s[i], set, relation)
             f == [j \in A |-> s[j]]
  <2>1. \A j \in D : j \in A <=> s[j] \in B
    BY <1>1, <1>2 DEF Below
  <2>2. A \in SUBSET D /\ B \in SUBSET set
    BY DEF Below
  <2>3. f \in Surjection(A, B) /\ f \in Injection(A, B)
    <3> HIDE DEF A, B
    <3>1. f \in [A -> B]
      BY <2>1, <2>2
    <3>2. \A y \in B : \E j \in A : f[j] = y
      BY <1>1, <2>1, <2>2
    <3>3. \A j, k \in A : f[j] = f[k] => j = k
      BY <1>1, <2>2
    <3>4. QED
      BY <3>1, <3>2, <3>3 DEF Surjection, Injection, IsInjective
  <2>4. IsFiniteSet(A)
    BY <1>3, <2>2, FS_Subset
  <2> HIDE DEF A, B, f
  <2>5. Cardinality(B) = Cardinality(A)
    BY <2>3, <2>4, FS_Surjection
  <2>6. QED
    BY <2>5 DEF A, B
<1>8. ASSUME NEW n \in 1..L
      PROVE  s[order[n]] = Ordered(set, relation)[n]
  <2>1. s[order[n]] \in set /\ Cardinality(Below(s[order[n]], set, relation)) = n - 1
    BY <1>2, <1>6, <1>7
  <2> DEFINE other == Ordered(set, relation)[n]
  <2>2. other \in set /\ Cardinality(Below(other, set, relation)) = n - 1
    BY <1>5, OrderedFacts
  <2> HIDE DEF other
  <2>3. n - 1 \in Int
    BY <1>1
  <2>4. ~(<<s[order[n]], other>> \in relation) /\ ~(<<other, s[order[n]]>> \in relation)
    BY <1>5, <2>1, <2>2, <2>3, RanksAreDistinct
  <2>5. QED
    BY <2>1, <2>2, <2>4 DEF IsOrder, other
<1>9. Arranged(s, R) = [n \in 1..L |-> s[order[n]]]
  BY <1>1 DEF Arranged, D
<1>10. Ordered(set, relation) = [n \in 1..L |-> Ordered(set, relation)[n]]
  <2>1. Ordered(set, relation)
           = [n \in 1..Cardinality(set) |-> Ordered(set, relation)[n]]
    <3> DEFINE e(n) == CHOOSE x \in set : Cardinality({y \in set : <<y, x>> \in relation}) = n - 1
    <3>1. Ordered(set, relation) = [n \in 1..Cardinality(set) |-> e(n)]
      BY DEF Ordered
    <3> HIDE DEF e
    <3>2. QED
      BY <3>1
  <2>2. QED
    BY <1>5, <2>1, Zenon
<1>11. QED
  BY <1>8, <1>9, <1>10, ZenonT(60)

\* A sort is a function on positions.
LEMMA OrderedIsFunction ==
    ASSUME NEW set, NEW relation
    PROVE  Ordered(set, relation) =
               [n \in 1..Cardinality(set) |-> Ordered(set, relation)[n]]
<1> DEFINE e(n) == CHOOSE x \in set : Cardinality({y \in set : <<y, x>> \in relation}) = n - 1
<1>1. Ordered(set, relation) = [n \in 1..Cardinality(set) |-> e(n)]
  BY DEF Ordered
<1> HIDE DEF e
<1>2. QED
  BY <1>1

\* Sorting by positions: each position is used once, in the order of the relation.
LEMMA ArrangedFacts ==
    ASSUME NEW T, NEW s \in Seq(T), NEW R, IsOrder(R, DOMAIN s)
    PROVE  /\ Arranged(s, R) \in Seq(T) /\ Len(Arranged(s, R)) = Len(s)
           /\ \E place \in [DOMAIN s -> DOMAIN s] :
                 /\ \A n \in DOMAIN s : Arranged(s, R)[n] = s[place[n]]
                 /\ \A i \in DOMAIN s : \E n \in DOMAIN s : place[n] = i
                 /\ \A m, n \in DOMAIN s : m < n => <<place[m], place[n]>> \in R
<1> DEFINE L == Len(s)
           place == Ordered(DOMAIN s, R)
           sorted == Arranged(s, R)
<1>1. L \in Nat /\ DOMAIN s = 1..L
  OBVIOUS
<1>2. IsFiniteSet(DOMAIN s) /\ Cardinality(DOMAIN s) = L
  BY <1>1, CountUpTo
<1>3. /\ DOMAIN place = 1..L
      /\ \A n \in 1..L : place[n] \in DOMAIN s
      /\ \A i \in DOMAIN s : \E n \in 1..L : place[n] = i
      /\ \A m, n \in 1..L : m < n => <<place[m], place[n]>> \in R
  <2> DEFINE D == DOMAIN s
  <2>1. IsFiniteSet(D) /\ Cardinality(D) = L /\ IsOrder(R, D)
    BY <1>2
  <2> HIDE DEF D, L
  <2>2. DOMAIN Ordered(D, R) = 1..L
    BY <2>1, OrderedFacts
  <2>3. \A n \in 1..L : Ordered(D, R)[n] \in D
    BY <2>1, OrderedFacts
  <2>4. \A i \in D : \E n \in 1..L : Ordered(D, R)[n] = i
    BY <2>1, OrderedFacts
  <2>5. \A m, n \in 1..L : m < n => <<Ordered(D, R)[m], Ordered(D, R)[n]>> \in R
    BY <2>1, OrderedFacts
  <2>6. QED
    BY <2>2, <2>3, <2>4, <2>5 DEF D
<1>4. sorted = [n \in 1..L |-> s[place[n]]]
  BY <1>1 DEF Arranged
<1>5. place = [n \in 1..L |-> place[n]]
  <2> DEFINE D == DOMAIN s
  <2>1. Ordered(D, R) = [n \in 1..Cardinality(D) |-> Ordered(D, R)[n]]
    BY OrderedIsFunction
  <2>2. Cardinality(D) = L
    BY <1>2
  <2> HIDE DEF D, L
  <2>3. Ordered(D, R) = [n \in 1..L |-> Ordered(D, R)[n]]
    BY <2>1, <2>2
  <2>4. QED
    BY <2>3 DEF D
<1> HIDE DEF place, L, sorted
<1>6. place \in [1..L -> DOMAIN s]
  BY <1>3, <1>5
<1>7. \A n \in 1..L : s[place[n]] \in T
  <2>1. TAKE n \in 1..L
  <2>2. place[n] \in DOMAIN s
    BY <1>3
  <2>3. \A i \in DOMAIN s : s[i] \in T
    OBVIOUS
  <2>4. QED
    BY <2>2, <2>3
<1>8. sorted \in Seq(T) /\ Len(sorted) = L /\ \A n \in 1..L : sorted[n] = s[place[n]]
  BY <1>1, <1>4, <1>7
<1>9. QED
  BY <1>1, <1>3, <1>6, <1>8 DEF sorted, L

\* A stable sort: ties are broken by position.
Stably(P, D) ==
    {p \in D \X D : \/ <<p[1], p[2]>> \in P
                    \/ <<p[2], p[1]>> \notin P /\ p[1] < p[2]}

\* If elements of which neither precedes the other are ties, a stable sort is
\* by a total order of the positions.
LEMMA StableOrder ==
    ASSUME NEW n \in Nat, NEW P,
           \A i, j \in 1..n : <<i, j>> \in P => <<j, i>> \notin P,
           \A i, j, k \in 1..n : <<i, k>> \in P => <<i, j>> \in P \/ <<j, k>> \in P
    PROVE  IsOrder(Stably(P, 1..n), 1..n)
<1> DEFINE D == 1..n
           R == Stably(P, D)
<1>1. \A i, j \in D : <<i, j>> \in R <=>
          <<i, j>> \in P \/ (<<j, i>> \notin P /\ i < j)
  BY DEF Stably
<1>2. R \subseteq D \X D
  BY DEF Stably
<1>3. \A i \in D : i \in Int
  OBVIOUS
<1>4. \A i, j, k \in D : <<i, k>> \in P => <<i, j>> \in P \/ <<j, k>> \in P
  OBVIOUS
<1>5. \A i, j \in D : <<i, j>> \in P => <<j, i>> \notin P
  OBVIOUS
<1> HIDE DEF D, R
<1>6. \A i \in D : <<i, i>> \notin R
  BY <1>1, <1>3, <1>5
<1>7. \A i, j \in D : i = j \/ <<i, j>> \in R \/ <<j, i>> \in R
  <2>1. TAKE i, j \in D
  <2>2. i = j \/ i < j \/ j < i
    BY <1>3
  <2>3. QED
    BY <1>1, <2>2
<1>8. \A i, j, k \in D : <<i, j>> \in R /\ <<j, k>> \in R => <<i, k>> \in R
  <2>1. TAKE i, j, k \in D
  <2>2. HAVE <<i, j>> \in R /\ <<j, k>> \in R
  <2>3. i < j /\ j < k => i < k
    BY <1>3
  <2>4. <<j, i>> \notin P /\ <<k, j>> \notin P
    BY <1>1, <1>5, <2>2
  <2>5. <<k, i>> \notin P
    BY <1>4, <2>4
  <2>6. CASE <<i, j>> \in P
    <3>1. <<i, k>> \in P \/ <<k, j>> \in P
      BY <1>4, <2>6
    <3>2. QED
      BY <1>1, <2>4, <3>1
  <2>7. CASE <<j, k>> \in P
    <3>1. <<j, i>> \in P \/ <<i, k>> \in P
      BY <1>4, <2>7
    <3>2. QED
      BY <1>1, <2>4, <3>1
  <2>8. CASE <<i, j>> \notin P /\ <<j, k>> \notin P
    BY <1>1, <2>2, <2>3, <2>5, <2>8
  <2>9. QED
    BY <2>6, <2>7, <2>8
<1>9. IsOrder(R, D)
  BY <1>2, <1>6, <1>7, <1>8 DEF IsOrder
<1>10. QED
  BY <1>9 DEF D, R

(****************************************************************************)
(* Least and greatest.                                                      *)
(****************************************************************************)
\* The order of integers is a strict total order.
LEMMA LessIsOrder ==
    ASSUME NEW S \in SUBSET Int
    PROVE  IsOrder({p \in S \X S : p[1] < p[2]}, S)
<1> DEFINE R == {p \in S \X S : p[1] < p[2]}
<1>1. \A x, y \in S : <<x, y>> \in R <=> x < y
  OBVIOUS
<1>2. R \subseteq S \X S
  OBVIOUS
<1> HIDE DEF R
<1>3. \A x \in S : <<x, x>> \notin R
  BY <1>1
<1>4. \A x, y \in S : x = y \/ <<x, y>> \in R \/ <<y, x>> \in R
  <2>1. TAKE x, y \in S
  <2>2. x \in Int /\ y \in Int
    OBVIOUS
  <2>3. x = y \/ x < y \/ y < x
    BY <2>2
  <2>4. QED
    BY <1>1, <2>3
<1>5. \A x, y, z \in S : <<x, y>> \in R /\ <<y, z>> \in R => <<x, z>> \in R
  BY <1>1
<1>6. IsOrder(R, S)
  BY <1>2, <1>3, <1>4, <1>5 DEF IsOrder
<1>7. QED
  BY <1>6 DEF R

\* A finite set of integers has a least and a greatest member.
LEMMA Extremes ==
    ASSUME NEW S \in SUBSET Int, IsFiniteSet(S), S # {}
    PROVE  /\ Min(S) \in S /\ \A x \in S : Min(S) <= x
           /\ Max(S) \in S /\ \A x \in S : x <= Max(S)
<1> DEFINE R == {p \in S \X S : p[1] < p[2]}
           order == Ordered(S, R)
           L == Cardinality(S)
<1>1. IsOrder(R, S)
  BY LessIsOrder
<1>2. \A x, y \in S : <<x, y>> \in R => x < y
  OBVIOUS
<1> HIDE DEF R
<1>3. /\ L \in Nat
      /\ \A n \in 1..L : order[n] \in S
      /\ \A x \in S : \E n \in 1..L : order[n] = x
      /\ \A m, n \in 1..L : m < n => <<order[m], order[n]>> \in R
  BY <1>1, OrderedFacts
<1> HIDE DEF L, order
<1>4. L > 0
  <2>1. PICK x : x \in S
    OBVIOUS
  <2>2. PICK n \in 1..L : order[n] = x
    BY <1>3, <2>1
  <2>3. QED
    BY <1>3, <2>2
<1>5. 1 \in 1..L /\ L \in 1..L
  BY <1>3, <1>4
<1>6. \A m, n \in 1..L : m <= n => order[m] <= order[n]
  <2>1. TAKE m, n \in 1..L
  <2>2. order[m] \in S /\ order[n] \in S /\ order[m] \in Int /\ order[n] \in Int
    BY <1>3
  <2>3. CASE m < n
    <3>1. order[m] < order[n]
      BY <1>2, <1>3, <2>2, <2>3
    <3>2. QED
      BY <3>1, <2>2
  <2>4. CASE m = n
    BY <2>2, <2>4
  <2>5. QED
    BY <2>3, <2>4
<1>7. \A x \in S : order[1] <= x /\ x <= order[L]
  <2>1. TAKE x \in S
  <2>2. PICK n \in 1..L : order[n] = x
    BY <1>3
  <2>3. 1 <= n /\ n <= L
    BY <1>3
  <2>4. QED
    BY <1>5, <1>6, <2>2, <2>3
<1>8. \E x \in S : \A y \in S : x <= y
  BY <1>3, <1>5, <1>7
<1>9. \E x \in S : \A y \in S : x >= y
  <2>1. \A y \in S : order[L] >= y
    <3>1. TAKE y \in S
    <3>2. order[L] \in Int /\ y \in Int /\ y <= order[L]
      BY <1>3, <1>5, <1>7
    <3>3. QED
      BY <3>2
  <2>2. QED
    BY <1>3, <1>5, <2>1
<1>10. Min(S) \in S /\ \A x \in S : Min(S) <= x
  BY <1>8 DEF Min
<1>11. Max(S) \in S /\ \A x \in S : Max(S) >= x
  BY <1>9 DEF Max
<1>12. \A x \in S : x <= Max(S)
  <2>1. TAKE x \in S
  <2>2. x \in Int /\ Max(S) \in Int /\ Max(S) >= x
    BY <1>11
  <2>3. QED
    BY <2>2
<1>13. QED
  BY <1>10, <1>11, <1>12

\* A pair is finite.
LEMMA PairIsFinite ==
    ASSUME NEW x, NEW y
    PROVE  IsFiniteSet({x, y})
<1>1. IsFiniteSet({x})
  BY FS_Singleton
<1>2. IsFiniteSet({x} \cup {y})
  BY <1>1, FS_AddElement
<1>3. {x} \cup {y} = {x, y}
  OBVIOUS
<1>4. QED
  BY <1>2, <1>3

\* The first element that passes a test, by its position.
LEMMA FirstPosition ==
    ASSUME NEW n \in Nat, NEW I \in SUBSET (1..n)
    PROVE  LET first == IF I # {} THEN Min(I) ELSE 0
           IN  /\ first \in 0..n /\ (first # 0 <=> I # {})
               /\ first # 0 => first \in I
<1>1. IsFiniteSet(I) /\ I \subseteq Int
  <2>1. IsFiniteSet(1..n) /\ 1..n \subseteq Int
    BY CountUpTo
  <2>2. QED
    BY <2>1, FS_Subset
<1>2. I # {} => Min(I) \in I
  BY <1>1, Extremes
<1> DEFINE least == Min(I)
<1>3. I # {} => least \in I
  BY <1>2
<1> HIDE DEF least
<1>4. I # {} => least \in 1..n
  BY <1>3
<1>5. QED
  BY <1>3, <1>4 DEF least

(****************************************************************************)
(* Joins.                                                                   *)
(****************************************************************************)
\* A concatenation has the elements of both parts.
LEMMA ConcatenationRange ==
    ASSUME NEW T, NEW s \in Seq(T), NEW t \in Seq(T)
    PROVE  s \o t \in Seq(T) /\ Range(s \o t) = Range(s) \cup Range(t)
<1> DEFINE u == s \o t
           m == Len(s)
           n == Len(t)
<1>1. m \in Nat /\ n \in Nat /\ DOMAIN s = 1..m /\ DOMAIN t = 1..n
  OBVIOUS
<1>2. /\ u \in Seq(T) /\ Len(u) = m + n
      /\ \A i \in 1..(m + n) : u[i] = IF i <= m THEN s[i] ELSE t[i - m]
  BY ConcatProperties
<1>3. DOMAIN u = 1..(m + n)
  BY <1>2
<1> HIDE DEF u, m, n
<1>4. Range(u) \subseteq Range(s) \cup Range(t)
  <2>1. SUFFICES ASSUME NEW i \in 1..(m + n) PROVE u[i] \in Range(s) \cup Range(t)
    BY <1>3 DEF Range
  <2>2. CASE i <= m
    <3>1. i \in DOMAIN s /\ u[i] = s[i]
      BY <1>1, <1>2, <2>2
    <3>2. QED
      BY <3>1 DEF Range
  <2>3. CASE ~(i <= m)
    <3>1. i - m \in DOMAIN t /\ u[i] = t[i - m]
      BY <1>1, <1>2, <2>3
    <3>2. QED
      BY <3>1 DEF Range
  <2>4. QED
    BY <2>2, <2>3
<1>5. Range(s) \subseteq Range(u)
  <2>1. SUFFICES ASSUME NEW i \in 1..m PROVE s[i] \in Range(u)
    BY <1>1 DEF Range
  <2>2. i \in 1..(m + n) /\ u[i] = s[i]
    BY <1>1, <1>2
  <2>3. QED
    BY <1>3, <2>2 DEF Range
<1>6. Range(t) \subseteq Range(u)
  <2>1. SUFFICES ASSUME NEW i \in 1..n PROVE t[i] \in Range(u)
    BY <1>1 DEF Range
  <2>2. m + i \in 1..(m + n) /\ ~(m + i <= m) /\ (m + i) - m = i
    BY <1>1
  <2>3. u[m + i] = t[i]
    BY <1>2, <2>2
  <2>4. QED
    BY <1>3, <2>2, <2>3 DEF Range
<1>7. QED
  BY <1>2, <1>4, <1>5, <1>6 DEF u

\* A join has the elements of all its parts, and no other.
LEMMA JoinedRange ==
    ASSUME NEW T, NEW seqs \in Seq(Seq(T))
    PROVE  /\ Joined(seqs) \in Seq(T)
           /\ \A x : x \in Range(Joined(seqs)) <=> \E k \in DOMAIN seqs : x \in Range(seqs[k])
<1> DEFINE L == Len(seqs)
           V == Seq(T)
           next(n, x) == x \o seqs[n]
           step == [n \in 1..L |-> [x \in V |-> next(n, x)]]
           Eq(f) == f = [n \in 0..L |-> IF n = 0 THEN <<>> ELSE next(n, f[n - 1])]
           c == CHOOSE g : Eq(g)
<1>1. L \in Nat /\ DOMAIN seqs = 1..L /\ \A n \in 1..L : seqs[n] \in V
  OBVIOUS
<1>2. <<>> \in V /\ Range(<<>>) = {}
  BY DEF Range
<1>3. \A s, t \in V : s \o t \in V /\ Range(s \o t) = Range(s) \cup Range(t)
  BY ConcatenationRange
<1>4. Joined(seqs) = c[L]
  BY DEF Joined
<1> HIDE DEF L, V
<1>5. \A n \in 1..L, x \in V : next(n, x) \in V
  BY <1>1, <1>3
<1> HIDE DEF next
<1>6. step \in [1..L -> [V -> V]] /\ \A n \in 1..L, x \in V : step[n][x] = next(n, x)
  BY <1>5
<1> HIDE DEF step
<1>7. PICK f : Follows(f, L, V, <<>>, step)
  BY <1>1, <1>2, <1>6, RecursionExists
<1>8. Eq(f)
  <2>1. f \in [0..L -> V] /\ f[0] = <<>>
    BY <1>7 DEF Follows
  <2>2. \A n \in 1..L : f[n] = next(n, f[n - 1])
    <3>1. \A n \in 1..L : f[n] = step[n][f[n - 1]]
      BY <1>7 DEF Follows
    <3>2. \A n \in 1..L : f[n - 1] \in V
      BY <1>1, <2>1
    <3>3. QED
      BY <1>6, <3>1, <3>2
  <2>3. QED
    BY <1>1, <2>1, <2>2
<1>9. Eq(c)
  BY <1>8
<1> HIDE DEF c
<1>10. c[0] = <<>> /\ \A n \in 1..L : c[n] = c[n - 1] \o seqs[n]
  <2>1. \A n \in 0..L : c[n] = IF n = 0 THEN <<>> ELSE next(n, c[n - 1])
    BY <1>9
  <2>2. c[0] = <<>> /\ \A n \in 1..L : c[n] = next(n, c[n - 1])
    BY <1>1, <2>1
  <2>3. QED
    BY <2>2 DEF next
<1> HIDE DEF Eq
<1> DEFINE Collects(n) ==
               /\ c[n] \in V
               /\ \A x : x \in Range(c[n]) <=> \E k \in 1..n : x \in Range(seqs[k])
           S == {n \in 0..L : Collects(n)}
<1>11. 0 \in S
  <2>1. 0 \in 0..L /\ 1..0 = {}
    BY <1>1
  <2>2. QED
    BY <1>2, <1>10, <2>1
<1>12. \A n \in 1..L : n - 1 \in S => n \in S
  <2>1. TAKE n \in 1..L
  <2>2. HAVE n - 1 \in S
  <2>3. n \in 0..L /\ n \in Nat /\ n >= 1
    BY <1>1
  <2>4. /\ c[n - 1] \in V
        /\ \A x : x \in Range(c[n - 1]) <=> \E k \in 1..(n - 1) : x \in Range(seqs[k])
    BY <2>2
  <2>5. c[n] \in V /\ Range(c[n]) = Range(c[n - 1]) \cup Range(seqs[n])
    BY <1>1, <1>3, <1>10, <2>4, ZenonT(60)
  <2>6. \A k : k \in 1..n <=> k \in 1..(n - 1) \/ k = n
    BY <2>3
  <2>7. \A x : x \in Range(c[n]) <=> \E k \in 1..n : x \in Range(seqs[k])
    BY <2>4, <2>5, <2>6, Zenon
  <2>8. QED
    BY <2>3, <2>5, <2>7
<1>13. L \in S
  <2> HIDE DEF S
  <2>1. QED
    BY <1>1, <1>11, <1>12, UpTo
<1>14. QED
  BY <1>1, <1>4, <1>13 DEF V

(****************************************************************************)
(* Division.                                                                *)
(****************************************************************************)
\* Any two integers compare.
LEMMA Trichotomy == \A a, b \in Int : a = b \/ a < b \/ b < a
OBVIOUS

\* Division rounds down.
LEMMA Division ==
    ASSUME NEW a \in Int, NEW d \in Nat, d > 0
    PROVE  /\ a \div d \in Int
           /\ d * (a \div d) <= a /\ a < d * (a \div d) + d
OBVIOUS

\* A positive factor of both sides.
LEMMA Cancels ==
    ASSUME NEW p \in Int, NEW q \in Int, NEW d \in Nat, d > 0, d * p < d * q
    PROVE  p < q
OBVIOUS

\* What a rounded quotient is at least, the unrounded one is.
LEMMA DivAtLeast ==
    ASSUME NEW a \in Int, NEW d \in Nat, d > 0, NEW b \in Int
    PROVE  a \div d >= b <=> a >= d * b
<1> DEFINE q == a \div d
<1>1. q \in Int /\ d * q <= a /\ a < d * q + d
  BY Division
<1> HIDE DEF q
<1>2. ASSUME q >= b PROVE a >= d * b
  <2>1. d * q >= d * b
    BY <1>1, <1>2
  <2>2. QED
    BY <1>1, <2>1
<1>3. ASSUME a >= d * b PROVE q >= b
  <2>1. SUFFICES ASSUME q < b PROVE FALSE
    BY <1>1
  <2>2. q + 1 <= b
    BY <1>1, <2>1
  <2>3. d * (q + 1) <= d * b
    BY <1>1, <2>2
  <2>4. d * (q + 1) = d * q + d
    BY <1>1
  <2>5. QED
    BY <1>1, <1>3, <2>3, <2>4
<1>4. QED
  BY <1>2, <1>3 DEF q

\* A rounded quotient grows with the number divided.
LEMMA DivMonotone ==
    ASSUME NEW a \in Int, NEW b \in Int, a <= b, NEW d \in Nat, d > 0
    PROVE  a \div d <= b \div d
<1>1. a \div d \in Int /\ b \div d \in Int /\ d * (a \div d) <= a
  BY Division
<1> DEFINE q == a \div d
<1>2. d * q \in Int /\ d * q <= b
  BY <1>1
<1> HIDE DEF q
<1>3. q \in Int
  BY <1>1 DEF q
<1>4. b >= d * q
  BY <1>2, <1>3
<1>5. b \div d >= q
  BY <1>3, <1>4, DivAtLeast
<1>6. QED
  BY <1>1, <1>5 DEF q
================================================================================
