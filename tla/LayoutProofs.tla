---------------------------- MODULE LayoutProofs ----------------------------
(***************************************************************************)
(* Lemmas about the operations of Layout, Indexing and Arrange, for arrays  *)
(* of any shape and strides.                                                *)
(*                                                                          *)
(* What every operation keeps is Laid: as many strides as axes, all of them *)
(* integers, and an integer offset.  Of every such array, the flags say how *)
(* its cells lie and memory_extent is the span of its cells (LaidFlags,     *)
(* LaidExtent): this is arithmetic on positions and strides, whose sums and *)
(* products the first part expresses as chains of partial results.          *)
(***************************************************************************)
EXTENDS NdArrays, FiniteSetTheorems, SequenceTheorems, WellFoundedInduction, TLAPS

----------------------------------------------------------------------------
(* Counting up.  A local recursive function is some function with its         *)
(* equation; that there is one is shown by counting up to its last argument.  *)

\* A set of naturals with an element has a least one.
LEMMA Least ==
  ASSUME NEW S \in SUBSET Nat, S # {}
  PROVE  \E m \in S : \A x \in S : m <= x
  <1>1. PICK m \in S : \A x \in S : <<x, m>> \notin OpToRel(<, Nat)  BY WFMin, NatLessThanWellFounded
  <1>2. \A x \in S : m <= x
    <2> TAKE x \in S
    <2>1. ~(x < m)  BY <1>1, Zenon DEF OpToRel
    <2> QED  BY <2>1
  <1> QED  BY <1>2

\* Counting up from zero reaches every number up to n.
LEMMA UpTo ==
  ASSUME NEW n \in Nat, NEW T \in SUBSET (0..n), 0 \in T,
         \A k \in 0..n - 1 : k \in T => k + 1 \in T
  PROVE  T = 0..n
  <1> SUFFICES ASSUME T # 0..n  PROVE FALSE  OBVIOUS
  <1> DEFINE S == 0..n \ T
  <1>1. S # {} /\ S \in SUBSET Nat
    <2>1. \E x \in 0..n : x \notin T
      <3> SUFFICES ASSUME \A x \in 0..n : x \in T  PROVE T = 0..n  OBVIOUS
      <3> QED  OBVIOUS
    <2> QED  BY <2>1
  <1>2. PICK m \in S : \A x \in S : m <= x  BY <1>1, Least
  <1>3. m # 0 /\ m - 1 \in 0..n - 1  BY <1>2
  <1>4. m - 1 \notin S  BY <1>2, <1>3
  <1>5. (m - 1) + 1 = m  BY <1>2
  <1> QED  BY <1>2, <1>3, <1>4, <1>5

\* f runs from x, each value given by the table G of the one before.
Chain(f, n, x, G) == f[0] = x /\ \A k \in 1..n : f[k] = G[<<k, f[k - 1]>>]

\* As long as g stays in V its next value is what G says.
Steps(g, n, V, G) == \A k \in 1..n : g[k - 1] \in V => g[k] = G[<<k, g[k - 1]>>]

\* All values of g up to n lie in V.
Within(g, n, V) == \A k \in 0..n : g[k] \in V

\* A chain from x in V, each step of which G gives, stays in V.
LEMMA ChainStays ==
  ASSUME NEW n \in Nat, NEW V, NEW x \in V, NEW G \in [(1..n) \X V -> V],
         NEW g, g[0] = x, Steps(g, n, V, G)
  PROVE  Within(g, n, V)
  <1> DEFINE T == {k \in 0..n : g[k] \in V}
  <1>1. 0 \in T  OBVIOUS
  <1>2. ASSUME NEW k \in 0..n - 1, k \in T  PROVE k + 1 \in T
    <2>1. k + 1 \in 1..n /\ (k + 1) - 1 = k  OBVIOUS
    <2>2. g[k + 1] = G[<<k + 1, g[k]>>]
      <3>1. g[(k + 1) - 1] \in V  BY <1>2, <2>1
      <3> QED  BY <2>1, <3>1 DEF Steps
    <2> QED  BY <1>2, <2>1, <2>2
  <1>3. T = 0..n
    <2> HIDE DEF T
    <2>1. T \in SUBSET (0..n)  BY DEF T
    <2> QED  BY <1>1, <1>2, <2>1, UpTo
  <1> QED  BY <1>3 DEF Within

\* There is one.
LEMMA ChainExists ==
  ASSUME NEW n \in Nat, NEW V, NEW x \in V, NEW G \in [(1..n) \X V -> V]
  PROVE  \E f \in [0..n -> V] : Chain(f, n, x, G)
  <1> DEFINE Step(f, m) == f[0] = x /\ \A k \in 1..m : f[k] = G[<<k, f[k - 1]>>]
             T == {m \in 0..n : \E f \in [0..m -> V] : Step(f, m)}
  <1>1. 0 \in T
    <2>1. PICK f : f = [k \in 0..0 |-> x]  OBVIOUS
    <2>2. f \in [0..0 -> V] /\ Step(f, 0)  BY <2>1
    <2> QED  BY <2>2
  <1>2. ASSUME NEW m \in 0..n - 1, m \in T  PROVE m + 1 \in T
    <2>1. PICK f \in [0..m -> V] : Step(f, m)  BY <1>2
    <2>2. m + 1 \in 1..n /\ m \in 0..m /\ f[m] \in V  OBVIOUS
    <2>3. PICK y \in V : y = G[<<m + 1, f[m]>>]  BY <2>2
    <2>4. PICK e : e = [k \in 0..m + 1 |-> IF k = m + 1 THEN y ELSE f[k]]  OBVIOUS
    <2>5. e \in [0..m + 1 -> V]
      <3>1. ASSUME NEW k \in 0..m + 1  PROVE (IF k = m + 1 THEN y ELSE f[k]) \in V
        <4>1. CASE k = m + 1  BY <4>1
        <4>2. CASE k # m + 1
          <5>1. k \in 0..m  BY <4>2
          <5> QED  BY <4>2, <5>1
        <4> QED  BY <4>1, <4>2
      <3> QED  BY <2>4, <3>1
    <2>6. Step(e, m + 1)
      <3>1. e[0] = x  BY <2>1, <2>4
      <3>2. ASSUME NEW k \in 1..m + 1  PROVE e[k] = G[<<k, e[k - 1]>>]
        <4>1. k - 1 \in 0..m + 1 /\ k - 1 # m + 1  OBVIOUS
        <4>2. e[k - 1] = f[k - 1]  BY <2>4, <4>1
        <4>3. CASE k = m + 1
          <5>1. k - 1 = m /\ e[k] = y  BY <2>4, <4>3
          <5> QED  BY <2>3, <4>2, <4>3, <5>1
        <4>4. CASE k # m + 1
          <5>1. k \in 1..m  BY <4>4
          <5>2. e[k] = f[k]  BY <2>4, <4>4
          <5>3. f[k] = G[<<k, f[k - 1]>>]  BY <2>1, <5>1
          <5> QED  BY <4>2, <5>2, <5>3
        <4> QED  BY <4>3, <4>4
      <3> QED  BY <3>1, <3>2
    <2>7. m + 1 \in 0..n  OBVIOUS
    <2> HIDE DEF Step
    <2> QED  BY <2>5, <2>6, <2>7
  <1>3. T = 0..n
    <2> HIDE DEF T
    <2>1. T \in SUBSET (0..n)  BY DEF T
    <2> QED  BY <1>1, <1>2, <2>1, UpTo
  <1>4. n \in T
    <2> HIDE DEF T
    <2> QED  BY <1>3
  <1> QED  BY <1>4 DEF Chain

----------------------------------------------------------------------------
(* Sums and products of sequences, an element at a time.                      *)

\* The partial sums of a sequence.
Sums(s) == LET sum[i \in 0..Len(s)] == IF i = 0 THEN 0 ELSE sum[i - 1] + s[i] IN sum

\* The partial products of a sequence.
Prods(s) == LET prod[i \in 0..Len(s)] == IF i = 0 THEN 1 ELSE prod[i - 1] * s[i] IN prod

\* Total is the last of the partial sums.
LEMMA SumsChain ==
  ASSUME NEW s \in Seq(Int)
  PROVE  /\ Sums(s)[0] = 0
         /\ \A k \in 1..Len(s) : Sums(s)[k] = Sums(s)[k - 1] + s[k]
         /\ \A k \in 0..Len(s) : Sums(s)[k] \in Int
         /\ Total(s) = Sums(s)[Len(s)]
  <1> DEFINE G == [p \in (1..Len(s)) \X Int |-> p[2] + s[p[1]]]
  <1>1. Len(s) \in Nat /\ \A k \in 1..Len(s) : s[k] \in Int  OBVIOUS
  <1>2. PICK g : g = G  OBVIOUS
  <1>3. g \in [(1..Len(s)) \X Int -> Int]  BY <1>1, <1>2
  <1>n. Len(s) \in Nat /\ 0 \in Int  OBVIOUS
  <1>c. \E f \in [0..Len(s) -> Int] : Chain(f, Len(s), 0, g)  BY <1>n, <1>3, ChainExists
  <1>4. PICK f \in [0..Len(s) -> Int] : f[0] = 0 /\ \A k \in 1..Len(s) : f[k] = g[<<k, f[k - 1]>>]
    BY <1>c DEF Chain
  <1>5. f = [k \in 0..Len(s) |-> IF k = 0 THEN 0 ELSE f[k - 1] + s[k]]
    <2>1. ASSUME NEW k \in 0..Len(s)
          PROVE  f[k] = IF k = 0 THEN 0 ELSE f[k - 1] + s[k]
      <3>1. CASE k = 0  BY <1>4, <3>1
      <3>2. CASE k # 0
        <4>1. k \in 1..Len(s) /\ f[k - 1] \in Int  BY <3>2
        <4>2. <<k, f[k - 1]>> \in (1..Len(s)) \X Int  BY <4>1
        <4> QED  BY <1>2, <1>4, <3>2, <4>1, <4>2
      <3> QED  BY <3>1, <3>2
    <2> QED  BY <2>1
  <1>6. PICK d : d = CHOOSE h : h = [k \in 0..Len(s) |-> IF k = 0 THEN 0 ELSE h[k - 1] + s[k]]  OBVIOUS
  <1>7. d = [k \in 0..Len(s) |-> IF k = 0 THEN 0 ELSE d[k - 1] + s[k]]  BY <1>5, <1>6
  <1>8. d[0] = 0  BY <1>1, <1>7
  <1>9. ASSUME NEW k \in 1..Len(s)  PROVE d[k] = d[k - 1] + s[k]
    <2>1. k \in 0..Len(s) /\ k # 0  OBVIOUS
    <2> QED  BY <1>7, <2>1
  <1>10. \A k \in 0..Len(s) : d[k] \in Int
    <2>1. ASSUME NEW k \in 1..Len(s), d[k - 1] \in Int  PROVE d[k] = g[<<k, d[k - 1]>>]
      <3>1. <<k, d[k - 1]>> \in (1..Len(s)) \X Int  BY <2>1
      <3> QED  BY <1>2, <1>9, <3>1
    <2>2. Steps(d, Len(s), Int, g)  BY <2>1 DEF Steps
    <2>3. Within(d, Len(s), Int)  BY <1>n, <1>3, <1>8, <2>2, ChainStays
    <2> QED  BY <2>3 DEF Within
  <1>11. Sums(s) = d /\ Total(s) = d[Len(s)]  BY <1>6 DEF Sums, Total
  <1> QED  BY <1>8, <1>9, <1>10, <1>11

\* Size is the last of the partial products.
LEMMA ProdsChain ==
  ASSUME NEW s \in Seq(Int)
  PROVE  /\ Prods(s)[0] = 1
         /\ \A k \in 1..Len(s) : Prods(s)[k] = Prods(s)[k - 1] * s[k]
         /\ \A k \in 0..Len(s) : Prods(s)[k] \in Int
         /\ Size(s) = Prods(s)[Len(s)]
  <1> DEFINE G == [p \in (1..Len(s)) \X Int |-> p[2] * s[p[1]]]
  <1>1. Len(s) \in Nat /\ \A k \in 1..Len(s) : s[k] \in Int  OBVIOUS
  <1>2. PICK g : g = G  OBVIOUS
  <1>3. g \in [(1..Len(s)) \X Int -> Int]  BY <1>1, <1>2
  <1>n. Len(s) \in Nat /\ 1 \in Int  OBVIOUS
  <1>c. \E f \in [0..Len(s) -> Int] : Chain(f, Len(s), 1, g)  BY <1>n, <1>3, ChainExists
  <1>4. PICK f \in [0..Len(s) -> Int] : f[0] = 1 /\ \A k \in 1..Len(s) : f[k] = g[<<k, f[k - 1]>>]
    BY <1>c DEF Chain
  <1>5. f = [k \in 0..Len(s) |-> IF k = 0 THEN 1 ELSE f[k - 1] * s[k]]
    <2>1. ASSUME NEW k \in 0..Len(s)
          PROVE  f[k] = IF k = 0 THEN 1 ELSE f[k - 1] * s[k]
      <3>1. CASE k = 0  BY <1>4, <3>1
      <3>2. CASE k # 0
        <4>1. k \in 1..Len(s) /\ f[k - 1] \in Int  BY <3>2
        <4>2. <<k, f[k - 1]>> \in (1..Len(s)) \X Int  BY <4>1
        <4> QED  BY <1>2, <1>4, <3>2, <4>1, <4>2
      <3> QED  BY <3>1, <3>2
    <2> QED  BY <2>1
  <1>6. PICK d : d = CHOOSE h : h = [k \in 0..Len(s) |-> IF k = 0 THEN 1 ELSE h[k - 1] * s[k]]  OBVIOUS
  <1>7. d = [k \in 0..Len(s) |-> IF k = 0 THEN 1 ELSE d[k - 1] * s[k]]  BY <1>5, <1>6
  <1>8. d[0] = 1  BY <1>1, <1>7
  <1>9. ASSUME NEW k \in 1..Len(s)  PROVE d[k] = d[k - 1] * s[k]
    <2>1. k \in 0..Len(s) /\ k # 0  OBVIOUS
    <2> QED  BY <1>7, <2>1
  <1>10. \A k \in 0..Len(s) : d[k] \in Int
    <2>1. ASSUME NEW k \in 1..Len(s), d[k - 1] \in Int  PROVE d[k] = g[<<k, d[k - 1]>>]
      <3>1. <<k, d[k - 1]>> \in (1..Len(s)) \X Int  BY <2>1
      <3> QED  BY <1>2, <1>9, <3>1
    <2>2. Steps(d, Len(s), Int, g)  BY <2>1 DEF Steps
    <2>3. Within(d, Len(s), Int)  BY <1>n, <1>3, <1>8, <2>2, ChainStays
    <2> QED  BY <2>3 DEF Within
  <1>11. Prods(s) = d /\ Size(s) = d[Len(s)]  BY <1>6 DEF Prods, Size
  <1> QED  BY <1>8, <1>9, <1>10, <1>11

\* The sum of an elementwise combination.
LEMMA TotalLinear ==
  ASSUME NEW r \in Seq(Int), NEW s \in Seq(Int), NEW t \in Seq(Int), NEW c \in Int,
         Len(s) = Len(r), Len(t) = Len(r), \A i \in 1..Len(r) : r[i] = c * s[i] + t[i]
  PROVE  Total(r) = c * Total(s) + Total(t)
  <1> DEFINE T == {k \in 0..Len(r) : Sums(r)[k] = c * Sums(s)[k] + Sums(t)[k]}
  <1>1. Len(r) \in Nat  OBVIOUS
  <1>2. 0 \in T  BY <1>1, SumsChain
  <1>3. ASSUME NEW k \in 0..Len(r) - 1, k \in T  PROVE k + 1 \in T
    <2>1. k + 1 \in 1..Len(r) /\ (k + 1) - 1 = k /\ k \in 0..Len(r) /\ k + 1 \in 0..Len(r)  OBVIOUS
    <2>2. /\ Sums(r)[k + 1] = Sums(r)[k] + r[k + 1]
          /\ Sums(s)[k + 1] = Sums(s)[k] + s[k + 1]
          /\ Sums(t)[k + 1] = Sums(t)[k] + t[k + 1]
          /\ Sums(s)[k] \in Int /\ Sums(t)[k] \in Int /\ Sums(r)[k] \in Int
      BY <2>1, SumsChain
    <2>a. s[k + 1] \in Int  BY <2>1
    <2>b. t[k + 1] \in Int  BY <2>1
    <2>c. Sums(s)[k] \in Int /\ Sums(t)[k] \in Int  BY <2>2
    <2>3. PICK x, y \in Int : x = Sums(s)[k] /\ y = s[k + 1]  BY <2>a, <2>c, Zenon
    <2>4. PICK v, w \in Int : v = Sums(t)[k] /\ w = t[k + 1]  BY <2>b, <2>c, Zenon
    <2>5. Sums(r)[k] = c * x + v /\ r[k + 1] = c * y + w  BY <1>3, <2>1, <2>3, <2>4
    <2>6. (c * x + v) + (c * y + w) = c * (x + y) + (v + w)  OBVIOUS
    <2>7. Sums(r)[k + 1] = c * (x + y) + (v + w)  BY <2>2, <2>5, <2>6
    <2> QED  BY <2>1, <2>2, <2>3, <2>4, <2>7
  <1>4. T = 0..Len(r)
    <2> HIDE DEF T
    <2>1. T \in SUBSET (0..Len(r))  BY DEF T
    <2> QED  BY <1>1, <1>2, <1>3, <2>1, UpTo
  <1>5. Len(r) \in T
    <2> HIDE DEF T
    <2> QED  BY <1>1, <1>4
  <1> QED  BY <1>5, SumsChain

\* A sum of integers is an integer.
LEMMA TotalIsInt ==
  ASSUME NEW s \in Seq(Int)
  PROVE  Total(s) \in Int
  <1>1. Len(s) \in 0..Len(s)  OBVIOUS
  <1> QED  BY <1>1, SumsChain

\* Partial sums grow with the elements; so does the whole sum.
LEMMA TotalGrows ==
  ASSUME NEW s \in Seq(Int), NEW t \in Seq(Int), Len(s) = Len(t),
         \A i \in 1..Len(t) : s[i] <= t[i]
  PROVE  Total(s) <= Total(t)
  <1> DEFINE T == {k \in 0..Len(t) : Sums(s)[k] <= Sums(t)[k]}
  <1>1. Len(t) \in Nat  OBVIOUS
  <1>2. 0 \in T  BY <1>1, SumsChain
  <1>3. ASSUME NEW k \in 0..Len(t) - 1, k \in T  PROVE k + 1 \in T
    <2>1. k + 1 \in 1..Len(t) /\ (k + 1) - 1 = k /\ k \in 0..Len(t) /\ k + 1 \in 0..Len(t)  OBVIOUS
    <2>2. /\ Sums(s)[k + 1] = Sums(s)[k] + s[k + 1]
          /\ Sums(t)[k + 1] = Sums(t)[k] + t[k + 1]
          /\ Sums(s)[k] \in Int /\ Sums(t)[k] \in Int
      BY <2>1, SumsChain
    <2> QED  BY <1>3, <2>1, <2>2
  <1>4. T = 0..Len(t)
    <2> HIDE DEF T
    <2>1. T \in SUBSET (0..Len(t))  BY DEF T
    <2> QED  BY <1>1, <1>2, <1>3, <2>1, UpTo
  <1>5. Len(t) \in T
    <2> HIDE DEF T
    <2> QED  BY <1>1, <1>4
  <1> QED  BY <1>5, SumsChain

\* Sums of two sequences one after the other.
LEMMA TotalConcat ==
  ASSUME NEW s \in Seq(Int), NEW t \in Seq(Int)
  PROVE  Total(s \o t) = Total(s) + Total(t)
  <1>1. PICK u : u = s \o t  OBVIOUS
  <1>2. PICK m, n \in Nat : m = Len(s) /\ n = Len(t)  OBVIOUS
  <1>3. u \in Seq(Int) /\ Len(u) = m + n  BY <1>1, <1>2
  <1>4. \A i \in 1..m : u[i] = s[i]  BY <1>1, <1>2
  <1>5. \A i \in 1..n : u[m + i] = t[i]
    <2> TAKE i \in 1..n
    <2>1. m + i \in 1..m + n /\ m + i > m /\ (m + i) - m = i  BY <1>2
    <2> QED  BY <1>1, <1>2, <2>1
  <1> DEFINE T == {k \in 0..m : Sums(u)[k] = Sums(s)[k]}
             U == {k \in 0..n : Sums(u)[m + k] = Sums(s)[m] + Sums(t)[k]}
  <1>6. T = 0..m
    <2>1. 0 \in T  BY <1>2, <1>3, SumsChain
    <2>2. ASSUME NEW k \in 0..m - 1, k \in T  PROVE k + 1 \in T
      <3>1. k + 1 \in 1..m /\ (k + 1) - 1 = k /\ k + 1 \in 1..Len(u) /\ k + 1 \in 0..m  BY <1>3
      <3>2. Sums(u)[k + 1] = Sums(u)[k] + u[k + 1] /\ Sums(s)[k + 1] = Sums(s)[k] + s[k + 1]
        BY <1>2, <1>3, <3>1, SumsChain
      <3> QED  BY <1>4, <2>2, <3>1, <3>2
    <2> HIDE DEF T
    <2>3. T \in SUBSET (0..m)  BY DEF T
    <2> QED  BY <2>1, <2>2, <2>3, UpTo
  <1>7. m \in T
    <2> HIDE DEF T
    <2> QED  BY <1>6
  <1>8. U = 0..n
    <2>1. 0 \in U
      <3>1. Sums(t)[0] = 0 /\ Sums(s)[m] \in Int  BY <1>2, SumsChain
      <3> QED  BY <1>7, <3>1
    <2>2. ASSUME NEW k \in 0..n - 1, k \in U  PROVE k + 1 \in U
      <3>1. k + 1 \in 1..n /\ (k + 1) - 1 = k /\ m + (k + 1) \in 1..Len(u) /\ k + 1 \in 0..n
            /\ (m + (k + 1)) - 1 = m + k
        BY <1>3
      <3>2. Sums(u)[m + (k + 1)] = Sums(u)[m + k] + u[m + (k + 1)] /\ Sums(t)[k + 1] = Sums(t)[k] + t[k + 1]
        BY <1>2, <1>3, <3>1, SumsChain
      <3>3. Sums(s)[m] \in Int /\ Sums(t)[k] \in Int /\ t[k + 1] \in Int
        <4>1. m \in 0..Len(s) /\ k \in 0..Len(t)  BY <1>2, <3>1
        <4> QED  BY <1>2, <3>1, <4>1, SumsChain
      <3>4. u[m + (k + 1)] = t[k + 1]  BY <1>5, <3>1
      <3> QED  BY <2>2, <3>1, <3>2, <3>3, <3>4
    <2> HIDE DEF U
    <2>3. U \in SUBSET (0..n)  BY DEF U
    <2> QED  BY <2>1, <2>2, <2>3, UpTo
  <1>9. n \in U
    <2> HIDE DEF U
    <2> QED  BY <1>8
  <1> QED  BY <1>1, <1>2, <1>3, <1>9, SumsChain

\* Products of two sequences one after the other.
LEMMA SizeConcat ==
  ASSUME NEW s \in Seq(Int), NEW t \in Seq(Int)
  PROVE  Size(s \o t) = Size(s) * Size(t)
  <1>1. PICK u : u = s \o t  OBVIOUS
  <1>2. PICK m, n \in Nat : m = Len(s) /\ n = Len(t)  OBVIOUS
  <1>3. u \in Seq(Int) /\ Len(u) = m + n  BY <1>1, <1>2
  <1>4. \A i \in 1..m : u[i] = s[i]  BY <1>1, <1>2
  <1>5. \A i \in 1..n : u[m + i] = t[i]
    <2> TAKE i \in 1..n
    <2>1. m + i \in 1..m + n /\ m + i > m /\ (m + i) - m = i  BY <1>2
    <2> QED  BY <1>1, <1>2, <2>1
  <1> DEFINE T == {k \in 0..m : Prods(u)[k] = Prods(s)[k]}
             U == {k \in 0..n : Prods(u)[m + k] = Prods(s)[m] * Prods(t)[k]}
  <1>6. T = 0..m
    <2>1. 0 \in T  BY <1>2, <1>3, ProdsChain
    <2>2. ASSUME NEW k \in 0..m - 1, k \in T  PROVE k + 1 \in T
      <3>1. k + 1 \in 1..m /\ (k + 1) - 1 = k /\ k + 1 \in 1..Len(u) /\ k + 1 \in 0..m  BY <1>3
      <3>2. Prods(u)[k + 1] = Prods(u)[k] * u[k + 1] /\ Prods(s)[k + 1] = Prods(s)[k] * s[k + 1]
        BY <1>2, <1>3, <3>1, ProdsChain
      <3> QED  BY <1>4, <2>2, <3>1, <3>2
    <2> HIDE DEF T
    <2>3. T \in SUBSET (0..m)  BY DEF T
    <2> QED  BY <2>1, <2>2, <2>3, UpTo
  <1>7. m \in T
    <2> HIDE DEF T
    <2> QED  BY <1>6
  <1>8. U = 0..n
    <2>1. 0 \in U
      <3>1. Prods(t)[0] = 1 /\ Prods(s)[m] \in Int  BY <1>2, ProdsChain
      <3> QED  BY <1>7, <3>1
    <2>2. ASSUME NEW k \in 0..n - 1, k \in U  PROVE k + 1 \in U
      <3>1. k + 1 \in 1..n /\ (k + 1) - 1 = k /\ m + (k + 1) \in 1..Len(u) /\ k + 1 \in 0..n
            /\ (m + (k + 1)) - 1 = m + k
        BY <1>3
      <3>2. Prods(u)[m + (k + 1)] = Prods(u)[m + k] * u[m + (k + 1)] /\ Prods(t)[k + 1] = Prods(t)[k] * t[k + 1]
        BY <1>2, <1>3, <3>1, ProdsChain
      <3>3. Prods(s)[m] \in Int /\ Prods(t)[k] \in Int /\ t[k + 1] \in Int
        <4>1. m \in 0..Len(s) /\ k \in 0..Len(t)  BY <1>2, <3>1
        <4> QED  BY <1>2, <3>1, <4>1, ProdsChain
      <3>4. PICK x, y, z \in Int : x = Prods(s)[m] /\ y = Prods(t)[k] /\ z = t[k + 1]  BY <3>3
      <3>5. u[m + (k + 1)] = z  BY <1>5, <3>1, <3>4
      <3>6. (x * y) * z = x * (y * z)  OBVIOUS
      <3> QED  BY <2>2, <3>1, <3>2, <3>4, <3>5, <3>6
    <2> HIDE DEF U
    <2>3. U \in SUBSET (0..n)  BY DEF U
    <2> QED  BY <2>1, <2>2, <2>3, UpTo
  <1>9. n \in U
    <2> HIDE DEF U
    <2> QED  BY <1>8
  <1> QED  BY <1>1, <1>2, <1>3, <1>9, ProdsChain

\* The number of elements of a shape: one for no axes, none when some axis is empty.
LEMMA SizeIs ==
  ASSUME NEW shape \in Seq(Nat)
  PROVE  /\ Size(shape) \in Nat
         /\ Size(shape) = 0 <=> \E d \in 1..Len(shape) : shape[d] = 0
         /\ Len(shape) = 0 => Size(shape) = 1
  <1>1. shape \in Seq(Int) /\ Len(shape) \in Nat  OBVIOUS
  <1> DEFINE p == Prods(shape)
             T == {k \in 0..Len(shape) : p[k] \in Nat /\ (p[k] = 0 <=> \E d \in 1..k : shape[d] = 0)}
  <1>2. 0 \in T
    <2>1. p[0] = 1  BY <1>1, ProdsChain
    <2> QED  BY <1>1, <2>1
  <1>3. ASSUME NEW k \in 0..Len(shape) - 1, k \in T  PROVE k + 1 \in T
    <2>1. k + 1 \in 1..Len(shape) /\ (k + 1) - 1 = k /\ k + 1 \in 0..Len(shape)  OBVIOUS
    <2>2. p[k + 1] = p[k] * shape[k + 1]  BY <1>1, <2>1, ProdsChain
    <2>3. PICK x, y \in Nat : x = p[k] /\ y = shape[k + 1]  BY <1>3, <2>1
    <2>4. p[k + 1] = x * y  BY <2>2, <2>3
    <2>5. x * y \in Nat /\ (x * y = 0 <=> x = 0 \/ y = 0)  OBVIOUS
    <2>6. (\E d \in 1..k + 1 : shape[d] = 0) <=> x = 0 \/ y = 0
      <3>1. ASSUME NEW d \in 1..k + 1, shape[d] = 0  PROVE x = 0 \/ y = 0
        <4>1. CASE d = k + 1  BY <2>3, <3>1, <4>1
        <4>2. CASE d # k + 1
          <5>1. d \in 1..k  BY <4>2
          <5> QED  BY <1>3, <2>3, <3>1, <5>1
        <4> QED  BY <4>1, <4>2
      <3>2. ASSUME x = 0  PROVE \E d \in 1..k + 1 : shape[d] = 0
        <4>1. PICK d \in 1..k : shape[d] = 0  BY <1>3, <2>3, <3>2
        <4>2. d \in 1..k + 1  OBVIOUS
        <4> QED  BY <4>1, <4>2
      <3>3. ASSUME y = 0  PROVE \E d \in 1..k + 1 : shape[d] = 0
        <4>1. k + 1 \in 1..k + 1  OBVIOUS
        <4> QED  BY <2>3, <3>3, <4>1
      <3> QED  BY <3>1, <3>2, <3>3
    <2> HIDE DEF p
    <2>7. p[k + 1] \in Nat /\ (p[k + 1] = 0 <=> \E d \in 1..k + 1 : shape[d] = 0)  BY <2>4, <2>5, <2>6
    <2> QED  BY <2>1, <2>7
  <1>4. T = 0..Len(shape)
    <2> HIDE DEF T
    <2>1. T \in SUBSET (0..Len(shape))  BY DEF T
    <2> QED  BY <1>1, <1>2, <1>3, <2>1, UpTo
  <1>5. Len(shape) \in T
    <2> HIDE DEF T
    <2> QED  BY <1>1, <1>4
  <1> QED  BY <1>1, <1>5, ProdsChain

\* Sequences with the same elements.
LEMMA SameSeq ==
  ASSUME NEW V, NEW s \in Seq(V), NEW t \in Seq(V), Len(s) = Len(t), \A i \in 1..Len(s) : s[i] = t[i]
  PROVE  s = t
  OBVIOUS

\* What a sequence with one more element in front holds.
LEMMA Prepend ==
  ASSUME NEW V, NEW x \in V, NEW t \in Seq(V)
  PROVE  /\ <<x>> \o t \in Seq(V) /\ Len(<<x>> \o t) = Len(t) + 1
         /\ (<<x>> \o t)[1] = x /\ \A i \in 1..Len(t) : (<<x>> \o t)[i + 1] = t[i]
  <1>1. PICK h : h = <<x>>  OBVIOUS
  <1>2. h \in Seq(V) /\ Len(h) = 1 /\ h[1] = x  BY <1>1
  <1>3. PICK u : u = h \o t  OBVIOUS
  <1>4. /\ u \in Seq(V) /\ Len(u) = Len(h) + Len(t)
        /\ \A i \in 1..Len(h) + Len(t) : u[i] = IF i <= Len(h) THEN h[i] ELSE t[i - Len(h)]
    BY <1>2, <1>3, ConcatProperties
  <1>5. Len(u) = Len(t) + 1 /\ u[1] = x
    <2>1. Len(t) \in Nat  OBVIOUS
    <2> QED  BY <1>2, <1>4, <2>1
  <1>6. ASSUME NEW i \in 1..Len(t)  PROVE u[i + 1] = t[i]
    <2>1. i + 1 \in 1..1 + Len(t) /\ ~(i + 1 <= 1) /\ (i + 1) - 1 = i  OBVIOUS
    <2> QED  BY <1>2, <1>4, <2>1
  <1> QED  BY <1>1, <1>3, <1>4, <1>5, <1>6

\* Cutting a sequence in two.
LEMMA Cuts ==
  ASSUME NEW V, NEW s \in Seq(V), NEW k \in 0..Len(s)
  PROVE  /\ SubSeq(s, 1, k) \in Seq(V) /\ Len(SubSeq(s, 1, k)) = k
         /\ SubSeq(s, k + 1, Len(s)) \in Seq(V) /\ Len(SubSeq(s, k + 1, Len(s))) = Len(s) - k
         /\ s = SubSeq(s, 1, k) \o SubSeq(s, k + 1, Len(s))
  <1>1. PICK n \in Nat : n = Len(s)  OBVIOUS
  <1>2. PICK a, b : a = SubSeq(s, 1, k) /\ b = SubSeq(s, k + 1, n)  OBVIOUS
  <1>3. a \in Seq(V) /\ Len(a) = k /\ \A i \in 1..k : a[i] = s[i]  BY <1>1, <1>2
  <1>4. b \in Seq(V) /\ Len(b) = n - k /\ \A i \in 1..n - k : b[i] = s[k + i]
    <2>1. b \in Seq(V)  BY <1>1, <1>2
    <2>2. Len(b) = n - k  BY <1>1, <1>2
    <2>3. ASSUME NEW i \in 1..n - k  PROVE b[i] = s[k + i]
      <3>1. (k + 1) + i - 1 = k + i  BY <1>1
      <3> QED  BY <1>1, <1>2, <2>2, <3>1
    <2> QED  BY <2>1, <2>2, <2>3
  <1>5. PICK c : c = a \o b  OBVIOUS
  <1>6. c \in Seq(V) /\ Len(c) = n  BY <1>1, <1>3, <1>4, <1>5
  <1>7. ASSUME NEW i \in 1..n  PROVE c[i] = s[i]
    <2>1. CASE i <= k  BY <1>1, <1>3, <1>4, <1>5, <2>1
    <2>2. CASE i > k
      <3>1. i - k \in 1..n - k /\ k + (i - k) = i  BY <1>1, <2>2
      <3>2. c[i] = b[i - k]  BY <1>1, <1>3, <1>4, <1>5, <2>2, <3>1
      <3> QED  BY <1>4, <3>1, <3>2
    <2> QED  BY <1>1, <2>1, <2>2
  <1>8. c = s  BY <1>1, <1>6, <1>7
  <1> QED  BY <1>1, <1>2, <1>3, <1>4, <1>5, <1>8

\* The size of a vector.
LEMMA SizeOne ==
  ASSUME NEW x \in Int
  PROVE  Size(<<x>>) = x
  <1>1. PICK s : s = <<x>>  OBVIOUS
  <1>2. s \in Seq(Int) /\ Len(s) = 1 /\ s[1] = x  BY <1>1
  <1>3. Prods(s)[0] = 1 /\ Prods(s)[1] = Prods(s)[0] * s[1] /\ Size(s) = Prods(s)[1]
    <2>1. 1 \in 1..Len(s) /\ 1 - 1 = 0  BY <1>2
    <2> QED  BY <1>2, <2>1, ProdsChain
  <1> QED  BY <1>1, <1>2, <1>3

\* No elements, no sum; one element at a time.
LEMMA TotalEmpty ==
  ASSUME NEW s \in Seq(Int), Len(s) = 0
  PROVE  Total(s) = 0
  BY SumsChain

\* The elements of an array below one place of axis d.
Inner(shape, d) == Size(SubSeq(shape, d + 1, Len(shape)))

\* Inner counts the elements one step along an axis passes over in C order.
LEMMA InnerIs ==
  ASSUME NEW shape \in Seq(Nat)
  PROVE  /\ Inner(shape, 0) = Size(shape)
         /\ Inner(shape, Len(shape)) = 1
         /\ \A d \in 0..Len(shape) : Inner(shape, d) \in Nat
         /\ \A d \in 1..Len(shape) : Inner(shape, d - 1) = shape[d] * Inner(shape, d)
  <1>1. PICK n \in Nat : n = Len(shape)  OBVIOUS
  <1>2. \A d \in 0..n : /\ SubSeq(shape, d + 1, n) \in Seq(Nat)
                        /\ Len(SubSeq(shape, d + 1, n)) = n - d
    <2> TAKE d \in 0..n
    <2> QED  BY <1>1, Cuts
  <1>3. \A d \in 0..n : Inner(shape, d) \in Nat  BY <1>1, <1>2, SizeIs DEF Inner
  <1>4. Inner(shape, 0) = Size(shape)
    <2>1. SubSeq(shape, 0 + 1, n) = shape  BY <1>1
    <2> QED  BY <1>1, <2>1 DEF Inner
  <1>5. Inner(shape, n) = 1
    <2>1. n \in 0..n /\ n - n = 0  OBVIOUS
    <2>2. SubSeq(shape, n + 1, n) \in Seq(Nat) /\ Len(SubSeq(shape, n + 1, n)) = 0  BY <1>2, <2>1
    <2>3. Size(SubSeq(shape, n + 1, n)) = 1  BY <2>2, SizeIs
    <2> QED  BY <1>1, <2>3 DEF Inner
  <1>6. ASSUME NEW d \in 1..n  PROVE Inner(shape, d - 1) = shape[d] * Inner(shape, d)
    <2>1. PICK t, x : t = SubSeq(shape, d + 1, n) /\ x = shape[d]  OBVIOUS
    <2>2. t \in Seq(Int) /\ Len(t) = n - d /\ x \in Int
      <3>1. d \in 0..n  OBVIOUS
      <3>2. t \in Seq(Nat) /\ Len(t) = n - d  BY <1>2, <2>1, <3>1
      <3> QED  BY <1>1, <2>1, <3>2
    <2>3. SubSeq(shape, d, n) = <<x>> \o t
      <3>1. PICK a : a = SubSeq(shape, d, n)  OBVIOUS
      <3>2. a \in Seq(Nat) /\ Len(a) = n - d + 1
        <4>1. d - 1 \in 0..n /\ (d - 1) + 1 = d /\ n - (d - 1) = n - d + 1  OBVIOUS
        <4> QED  BY <1>2, <3>1, <4>1
      <3>3. PICK b : b = <<x>> \o t  OBVIOUS
      <3>4. b \in Seq(Int) /\ Len(b) = 1 + (n - d)
        <4>1. b \in Seq(Int) /\ Len(b) = Len(t) + 1  BY <2>2, <3>3, Prepend
        <4>2. Len(t) \in Int /\ n - d \in Int  BY <2>2
        <4> QED  BY <2>2, <4>1, <4>2
      <3>5. ASSUME NEW i \in 1..n - d + 1  PROVE a[i] = b[i]
        <4>1. a[i] = shape[d + i - 1]  BY <1>1, <3>1, <3>2
        <4>2. CASE i = 1  BY <2>1, <2>2, <3>3, <4>1, <4>2, Prepend
        <4>3. CASE i # 1
          <5>1. b[i] = t[i - 1]
            <6>1. i - 1 \in 1..Len(t) /\ (i - 1) + 1 = i  BY <2>2, <4>3
            <6>2. b[(i - 1) + 1] = t[i - 1]  BY <2>2, <3>3, <6>1, Prepend
            <6> QED  BY <6>1, <6>2
          <5>2. t[i - 1] = shape[(d + 1) + (i - 1) - 1]  BY <1>1, <2>1, <2>2, <4>3
          <5>3. (d + 1) + (i - 1) - 1 = d + i - 1  OBVIOUS
          <5> QED  BY <4>1, <5>1, <5>2, <5>3
        <4> QED  BY <4>2, <4>3
      <3>6. a \in Seq(Int) /\ Len(a) = Len(b) /\ \A i \in 1..Len(a) : a[i] = b[i]  BY <3>2, <3>4, <3>5
      <3>7. a = b  BY <3>4, <3>6, SameSeq
      <3> QED  BY <3>1, <3>3, <3>7
    <2>4. Size(<<x>> \o t) = Size(<<x>>) * Size(t) /\ Size(<<x>>) = x
      <3>1. <<x>> \in Seq(Int)  BY <2>2
      <3>2. Size(<<x>> \o t) = Size(<<x>>) * Size(t)  BY <2>2, <3>1, SizeConcat
      <3> QED  BY <2>2, <3>2, SizeOne
    <2>5. (d - 1) + 1 = d  OBVIOUS
    <2> QED  BY <1>1, <2>1, <2>3, <2>4, <2>5 DEF Inner
  <1> QED  BY <1>1, <1>3, <1>4, <1>5, <1>6

----------------------------------------------------------------------------
(* Division.                                                                  *)

\* Quotient and remainder of an integer.
LEMMA DivMod ==
  ASSUME NEW a \in Int, NEW b \in Nat \ {0}
  PROVE  /\ a \div b \in Int /\ a % b \in Int
         /\ a = b * (a \div b) + (a % b)
         /\ 0 <= a % b /\ a % b < b
  OBVIOUS

\* Multiplication by a natural number keeps the order.
LEMMA TimesKeepsOrder ==
  ASSUME NEW x \in Int, NEW y \in Int, NEW b \in Nat, x <= y
  PROVE  b * x <= b * y
  <1>1. b * (y - x) >= 0  OBVIOUS
  <1>2. b * (y - x) = b * y - b * x  OBVIOUS
  <1>3. b * y \in Int /\ b * x \in Int  OBVIOUS
  <1> QED  BY <1>1, <1>2, <1>3

\* Quotient and remainder are the only ones.
LEMMA DivModUnique ==
  ASSUME NEW b \in Nat \ {0}, NEW q \in Int, NEW r \in Int, 0 <= r, r < b
  PROVE  (b * q + r) \div b = q /\ (b * q + r) % b = r
  <1> DEFINE a == b * q + r
             p == a \div b
             s == a % b
  <1>1. a \in Int /\ p \in Int /\ s \in Int /\ a = b * p + s /\ 0 <= s /\ s < b  BY DivMod
  <1>n. b \in Nat  OBVIOUS
  <1>2. p <= q
    <2>1. CASE p >= q + 1
      <3>1. b * (q + 1) <= b * p  BY <1>1, <1>n, <2>1, TimesKeepsOrder
      <3>2. b * (q + 1) = b * q + b  OBVIOUS
      <3> QED  BY <1>1, <3>1, <3>2
    <2> QED  BY <1>1, <2>1
  <1>3. q <= p
    <2>1. CASE q >= p + 1
      <3>1. b * (p + 1) <= b * q  BY <1>1, <1>n, <2>1, TimesKeepsOrder
      <3>2. b * (p + 1) = b * p + b  BY <1>1
      <3> QED  BY <1>1, <3>1, <3>2
    <2> QED  BY <1>1, <2>1
  <1>4. p = q  BY <1>1, <1>2, <1>3
  <1>5. s = r  BY <1>1, <1>4
  <1> QED  BY <1>4, <1>5

\* Dividing by a product is dividing twice.
LEMMA DivTwice ==
  ASSUME NEW k \in Int, NEW b \in Nat \ {0}, NEW c \in Nat \ {0}
  PROVE  /\ (k \div b) \div c = k \div (c * b)
         /\ (k \div b) = (k \div (c * b)) * c + ((k \div b) % c)
  <1>1. PICK q, r \in Int : k = b * q + r /\ 0 <= r /\ r < b /\ q = k \div b  BY DivMod
  <1>2. PICK u, v \in Int : q = c * u + v /\ 0 <= v /\ v < c /\ u = q \div c /\ v = q % c  BY <1>1, DivMod
  <1>3. k = (c * b) * u + (b * v + r)
    <2>1. b * (c * u + v) = (c * b) * u + b * v  OBVIOUS
    <2>2. k = b * (c * u + v) + r  BY <1>1, <1>2
    <2>3. PICK x, y \in Int : x = (c * b) * u /\ y = b * v  OBVIOUS
    <2> QED  BY <1>1, <2>1, <2>2, <2>3
  <1>4. 0 <= b * v + r /\ b * v + r < c * b
    <2>1. b * v <= b * (c - 1)
      <3>1. b \in Nat /\ c - 1 \in Int /\ v <= c - 1  BY <1>2
      <3> QED  BY <3>1, TimesKeepsOrder
    <2>2. b * (c - 1) = c * b - b  OBVIOUS
    <2>3. 0 <= b * v
      <3>1. b * 0 <= b * v
        <4>1. b \in Nat /\ 0 \in Int  OBVIOUS
        <4> QED  BY <1>2, <4>1, TimesKeepsOrder
      <3> QED  BY <3>1
    <2>4. PICK x, y \in Int : x = b * v /\ y = c * b  OBVIOUS
    <2> QED  BY <1>1, <2>1, <2>2, <2>3, <2>4
  <1>5. k \div (c * b) = u
    <2>1. PICK d \in Nat \ {0} : d = c * b  OBVIOUS
    <2>2. PICK e \in Int : e = b * v + r  OBVIOUS
    <2>3. (d * u + e) \div d = u  BY <1>4, <2>1, <2>2, DivModUnique
    <2> QED  BY <1>3, <2>1, <2>2, <2>3
  <1>6. q = u * c + v  BY <1>2
  <1> QED  BY <1>1, <1>2, <1>5, <1>6

----------------------------------------------------------------------------
(* Positions and their numbers.                                               *)

\* A shape without an empty axis.
Filled(shape) == /\ shape \in Seq(Nat)
                 /\ \A d \in 1..Len(shape) : shape[d] \in Nat \ {0}
                 /\ \A d \in 0..Len(shape) : Inner(shape, d) \in Nat \ {0}

\* No axis of a shape with elements is empty.
LEMMA FilledIs ==
  ASSUME NEW shape \in Seq(Nat), Size(shape) # 0
  PROVE  Filled(shape)
  <1>1. \A d \in 1..Len(shape) : shape[d] \in Nat \ {0}  BY SizeIs
  <1>2. PICK n \in Nat : n = Len(shape)  OBVIOUS
  <1> DEFINE T == {d \in 0..n : Inner(shape, d) # 0}
  <1>3. 0 \in T  BY <1>2, InnerIs
  <1>4. ASSUME NEW d \in 0..n - 1, d \in T  PROVE d + 1 \in T
    <2>1. d + 1 \in 1..n /\ (d + 1) - 1 = d /\ d + 1 \in 0..n  BY <1>2
    <2>2. Inner(shape, d) = shape[d + 1] * Inner(shape, d + 1)
      <3>1. \A e \in 1..n : Inner(shape, e - 1) = shape[e] * Inner(shape, e)  BY <1>2, InnerIs
      <3> QED  BY <2>1, <3>1
    <2>3. shape[d + 1] * 0 = 0  BY <1>1, <1>2, <2>1
    <2> QED  BY <1>4, <2>1, <2>2, <2>3
  <1>5. T = 0..n
    <2> HIDE DEF T
    <2>1. T \in SUBSET (0..n)  BY DEF T
    <2> QED  BY <1>3, <1>4, <2>1, UpTo
  <1>6. \A d \in 0..n : Inner(shape, d) \in Nat  BY <1>2, InnerIs
  <1> QED  BY <1>1, <1>2, <1>5, <1>6 DEF Filled

\* One place of an outer axis holds whole places of an inner one.
LEMMA InnerDivides ==
  ASSUME NEW shape, Filled(shape), NEW d \in 0..Len(shape), NEW e \in d..Len(shape)
  PROVE  \E m \in Nat \ {0} : Inner(shape, d) = m * Inner(shape, e)
  <1>1. shape \in Seq(Nat) /\ \A x \in 1..Len(shape) : shape[x] \in Nat \ {0}  BY DEF Filled
  <1>2. PICK n \in Nat : n = Len(shape)  BY <1>1
  <1>3. PICK w \in Nat : w = e - d  BY <1>2
  <1>4. \A x \in 0..n : Inner(shape, x) \in Nat \ {0}  BY <1>2 DEF Filled
  <1>5. \A x \in 1..n : Inner(shape, x - 1) = shape[x] * Inner(shape, x)  BY <1>1, <1>2, InnerIs
  <1> DEFINE P(x) == \E m \in Nat \ {0} : Inner(shape, d) = m * Inner(shape, d + x)
             T == {x \in 0..w : P(x)}
  <1>6. 0 \in T
    <2>1. d + 0 = d /\ d \in 0..n /\ 1 \in Nat \ {0} /\ 0 \in 0..w  BY <1>2
    <2>2. Inner(shape, d) = 1 * Inner(shape, d)  BY <1>4, <2>1
    <2> QED  BY <2>1, <2>2
  <1>7. ASSUME NEW x \in 0..w - 1, x \in T  PROVE x + 1 \in T
    <2>1. PICK m \in Nat \ {0} : Inner(shape, d) = m * Inner(shape, d + x)  BY <1>7
    <2>2. d + (x + 1) \in 1..n /\ (d + (x + 1)) - 1 = d + x /\ d + (x + 1) \in 0..n /\ x + 1 \in 0..w
      BY <1>2, <1>3
    <2>3. Inner(shape, d + x) = shape[d + (x + 1)] * Inner(shape, d + (x + 1))  BY <1>5, <2>2
    <2>4. PICK s, i \in Nat \ {0} : s = shape[d + (x + 1)] /\ i = Inner(shape, d + (x + 1))
      BY <1>1, <1>2, <1>4, <2>2
    <2>5. m * s \in Nat \ {0}  OBVIOUS
    <2>6. m * (s * i) = (m * s) * i  OBVIOUS
    <2>7. P(x + 1)  BY <2>1, <2>3, <2>4, <2>5, <2>6
    <2> QED  BY <2>2, <2>7
  <1>8. T = 0..w
    <2> HIDE DEF T
    <2>1. T \in SUBSET (0..w)  BY DEF T
    <2> QED  BY <1>6, <1>7, <2>1, UpTo
  <1>9. w \in T
    <2> HIDE DEF T
    <2> QED  BY <1>8
  <1>10. d + w = e  BY <1>2, <1>3
  <1> QED  BY <1>9, <1>10

\* The k-th position in C order lies within the shape.
LEMMA PositionIs ==
  ASSUME NEW shape, Filled(shape), NEW k \in Nat
  PROVE  /\ Position(shape, k) \in Seq(Int) /\ Len(Position(shape, k)) = Len(shape)
         /\ DOMAIN Position(shape, k) = 1..Len(shape)
         /\ \A d \in 1..Len(shape) : /\ Position(shape, k)[d] = (k \div Inner(shape, d)) % shape[d]
                                     /\ Position(shape, k)[d] \in 0..shape[d] - 1
  <1>1. shape \in Seq(Nat)  BY DEF Filled
  <1>2. PICK n \in Nat : n = Len(shape)  BY <1>1
  <1>3. DOMAIN shape = 1..n  BY <1>1, <1>2
  <1>4. ASSUME NEW d \in 1..n
        PROVE  /\ (k \div Inner(shape, d)) % shape[d] \in Int
               /\ (k \div Inner(shape, d)) % shape[d] \in 0..shape[d] - 1
    <2>1. PICK s, i \in Nat \ {0} : s = shape[d] /\ i = Inner(shape, d)
      <3>1. d \in 0..n  BY <1>2
      <3> QED  BY <1>2, <3>1 DEF Filled
    <2>2. k \div i \in Int  BY DivMod
    <2>3. (k \div i) % s \in Int /\ 0 <= (k \div i) % s /\ (k \div i) % s < s  BY <2>2, DivMod
    <2> QED  BY <2>1, <2>3
  <1>5. PICK p : p = [d \in 1..n |-> (k \div Inner(shape, d)) % shape[d]]  OBVIOUS
  <1>6. Position(shape, k) = p  BY <1>2, <1>3, <1>5 DEF Position, Inner
  <1>7. p \in [1..n -> Int]  BY <1>4, <1>5
  <1>8. p \in Seq(Int) /\ Len(p) = n  BY <1>7
  <1> QED  BY <1>2, <1>4, <1>5, <1>6, <1>8

\* A sum with one term.
LEMMA TotalUnit ==
  ASSUME NEW s \in Seq(Int), NEW d \in 1..Len(s), \A e \in 1..Len(s) : e # d => s[e] = 0
  PROVE  Total(s) = s[d]
  <1>1. PICK n \in Nat : n = Len(s)  OBVIOUS
  <1>2. PICK x \in Int : x = s[d]  OBVIOUS
  <1> DEFINE T == {k \in 0..n : Sums(s)[k] = IF k >= d THEN x ELSE 0}
  <1>3. 0 \in T  BY <1>1, SumsChain
  <1>4. ASSUME NEW k \in 0..n - 1, k \in T  PROVE k + 1 \in T
    <2>1. k + 1 \in 1..n /\ (k + 1) - 1 = k /\ k + 1 \in 0..n  BY <1>1
    <2>2. Sums(s)[k + 1] = Sums(s)[k] + s[k + 1]  BY <1>1, <2>1, SumsChain
    <2>3. CASE k + 1 = d
      <3>1. Sums(s)[k] = 0  BY <1>4, <2>3
      <3> QED  BY <1>2, <2>1, <2>2, <2>3, <3>1
    <2>4. CASE k + 1 # d
      <3>1. s[k + 1] = 0  BY <1>1, <2>1, <2>4
      <3>2. (k + 1 >= d) <=> (k >= d)  BY <1>1, <2>4
      <3> QED  BY <1>2, <1>4, <2>1, <2>2, <3>1, <3>2
    <2> QED  BY <2>3, <2>4
  <1>5. T = 0..n
    <2> HIDE DEF T
    <2>1. T \in SUBSET (0..n)  BY DEF T
    <2> QED  BY <1>3, <1>4, <2>1, UpTo
  <1>6. n \in T
    <2> HIDE DEF T
    <2> QED  BY <1>5
  <1>7. Sums(s)[n] = x  BY <1>1, <1>6
  <1> QED  BY <1>1, <1>2, <1>7, SumsChain

\* The number of the position k is k.
LEMMA NumberOfPosition ==
  ASSUME NEW shape, Filled(shape), NEW k \in 0..Size(shape) - 1, NEW r \in Seq(Int),
         Len(r) = Len(shape), \A d \in 1..Len(shape) : r[d] = Position(shape, k)[d] * Inner(shape, d)
  PROVE  Total(r) = k
  <1>1. shape \in Seq(Nat) /\ \A x \in 1..Len(shape) : shape[x] \in Nat \ {0}  BY DEF Filled
  <1>2. PICK n \in Nat : n = Len(shape)  BY <1>1
  <1>3. \A x \in 0..n : Inner(shape, x) \in Nat \ {0}  BY <1>2 DEF Filled
  <1>4. /\ \A x \in 1..n : Inner(shape, x - 1) = shape[x] * Inner(shape, x)
        /\ Inner(shape, 0) = Size(shape) /\ Inner(shape, n) = 1
    BY <1>1, <1>2, InnerIs
  <1>5. Size(shape) \in Nat /\ k \in Nat  BY <1>1, SizeIs
  <1>6. \A d \in 1..n : Position(shape, k)[d] = (k \div Inner(shape, d)) % shape[d]  BY <1>2, <1>5, PositionIs
  <1> DEFINE T == {d \in 0..n : Sums(r)[d] = (k \div Inner(shape, d)) * Inner(shape, d)}
  <1>7. 0 \in T
    <2>1. PICK b \in Nat \ {0} : b = Size(shape)  BY <1>5
    <2>2. k \div b = 0
      <3>1. b * 0 + k = k  BY <1>5
      <3>2. (b * 0 + k) \div b = 0
        <4>1. 0 \in Int /\ k \in Int /\ 0 <= k /\ k < b  BY <2>1, <1>5
        <4> QED  BY <4>1, DivModUnique
      <3> QED  BY <3>1, <3>2
    <2>3. Sums(r)[0] = 0  BY SumsChain
    <2> QED  BY <1>4, <2>1, <2>2, <2>3
  <1>8. ASSUME NEW d \in 0..n - 1, d \in T  PROVE d + 1 \in T
    <2>1. d + 1 \in 1..n /\ (d + 1) - 1 = d /\ d + 1 \in 0..n  BY <1>2
    <2>2. PICK b, c \in Nat \ {0} : b = Inner(shape, d + 1) /\ c = shape[d + 1]  BY <1>1, <1>2, <1>3, <2>1
    <2>3. Inner(shape, d) = c * b  BY <1>4, <2>1, <2>2
    <2>4. r[d + 1] = ((k \div b) % c) * b  BY <1>2, <1>6, <2>1, <2>2
    <2>5. Sums(r)[d + 1] = (k \div (c * b)) * (c * b) + ((k \div b) % c) * b
      <3>1. Sums(r)[d + 1] = Sums(r)[d] + r[d + 1]  BY <1>2, <2>1, SumsChain
      <3>2. Sums(r)[d] = (k \div (c * b)) * (c * b)  BY <1>8, <2>3
      <3> QED  BY <2>4, <3>1, <3>2
    <2>6. PICK u, v, q \in Int : u = k \div (c * b) /\ v = (k \div b) % c /\ q = k \div b
      <3>1. c * b \in Nat \ {0} /\ k \in Int  BY <1>5
      <3>2. k \div b \in Int  BY <3>1, DivMod
      <3>3. (k \div b) % c \in Int /\ k \div (c * b) \in Int
        <4>1. PICK e \in Nat \ {0} : e = c * b  BY <3>1
        <4>2. k \div e \in Int  BY <3>1, DivMod
        <4>3. (k \div b) % c \in Int  BY <3>2, DivMod
        <4> QED  BY <4>1, <4>2, <4>3
      <3> QED  BY <3>2, <3>3
    <2>7. q = u * c + v
      <3>1. k \in Int  BY <1>5
      <3> QED  BY <2>6, <3>1, DivTwice
    <2>8. u * (c * b) + v * b = (u * c + v) * b  OBVIOUS
    <2> QED  BY <2>1, <2>2, <2>5, <2>6, <2>7, <2>8
  <1>9. T = 0..n
    <2> HIDE DEF T
    <2>1. T \in SUBSET (0..n)  BY DEF T
    <2> QED  BY <1>2, <1>7, <1>8, <2>1, UpTo
  <1>10. n \in T
    <2> HIDE DEF T
    <2> QED  BY <1>9
  <1>11. Sums(r)[n] = k
    <2>1. (k \div 1) * 1 = k  BY <1>5
    <2> QED  BY <1>4, <1>10, <2>1
  <1> QED  BY <1>2, <1>11, SumsChain

\* A place of a shape.
Place(p, shape) ==
    p \in Seq(Int) /\ Len(p) = Len(shape) /\ \A d \in 1..Len(shape) : p[d] \in 0..shape[d] - 1

\* The position with the number of p is p.
LEMMA PositionOfNumber ==
  ASSUME NEW shape, Filled(shape), NEW p, Place(p, shape), NEW r \in Seq(Int),
         Len(r) = Len(shape), \A d \in 1..Len(shape) : r[d] = p[d] * Inner(shape, d)
  PROVE  Total(r) \in 0..Size(shape) - 1 /\ Position(shape, Total(r)) = p
  <1>1. shape \in Seq(Nat) /\ \A x \in 1..Len(shape) : shape[x] \in Nat \ {0}  BY DEF Filled
  <1>2. PICK n \in Nat : n = Len(shape)  BY <1>1
  <1>3. \A x \in 0..n : Inner(shape, x) \in Nat \ {0}  BY <1>2 DEF Filled
  <1>4. /\ \A x \in 1..n : Inner(shape, x - 1) = shape[x] * Inner(shape, x)
        /\ Inner(shape, 0) = Size(shape) /\ Inner(shape, n) = 1
    BY <1>1, <1>2, InnerIs
  <1>5. /\ p \in Seq(Int) /\ Len(p) = n
        /\ \A d \in 1..n : p[d] \in 0..shape[d] - 1
    BY <1>2 DEF Place
  <1>6. PICK k \in Int : k = Total(r)  BY TotalIsInt
  <1>7. Sums(r)[0] = 0 /\ Sums(r)[n] = k  BY <1>2, <1>6, SumsChain
  <1>8. \A d \in 0..n : Sums(r)[d] \in Int  BY <1>2, SumsChain
  <1>9. \A d \in 1..n : Sums(r)[d] = Sums(r)[d - 1] + r[d]  BY <1>2, SumsChain
  <1> DEFINE After(d) == k - Sums(r)[d]
             T == {d \in 0..n : 0 <= After(n - d) /\ After(n - d) < Inner(shape, n - d)}
             W(d, m) == Sums(r)[d] = Inner(shape, d) * m
  <1>10. 0 \in T
    <2>1. n - 0 = n /\ k - k = 0  BY <1>2
    <2> QED  BY <1>4, <1>7, <2>1
  <1>11. ASSUME NEW x \in 0..n - 1, x \in T  PROVE x + 1 \in T
    <2>1. PICK d \in 1..n : d = n - x
      <3>1. n - x \in 1..n  OBVIOUS
      <3> QED  BY <3>1
    <2>2. n - (x + 1) = d - 1 /\ d - 1 \in 0..n /\ d \in 0..n /\ x + 1 \in 0..n  BY <1>2, <2>1
    <2>3. PICK b, c \in Nat \ {0} : b = Inner(shape, d) /\ c = shape[d]  BY <1>1, <1>2, <1>3, <2>2
    <2>4. PICK q \in Int : q = p[d] /\ 0 <= q /\ q <= c - 1  BY <1>5, <2>3
    <2>5. r[d] = q * b  BY <1>2, <2>3, <2>4
    <2>6. PICK u, v \in Int : u = Sums(r)[d] /\ v = Sums(r)[d - 1]  BY <1>8, <2>2
    <2>7. u = v + q * b  BY <1>9, <2>5, <2>6
    <2>8. 0 <= k - u /\ k - u < b  BY <1>11, <2>1, <2>3, <2>6
    <2>9. 0 <= q * b /\ q * b <= (c - 1) * b
      <3>1. b * 0 <= b * q
        <4>1. b \in Nat /\ 0 \in Int  OBVIOUS
        <4> QED  BY <2>4, <4>1, TimesKeepsOrder
      <3>2. b * q <= b * (c - 1)
        <4>1. b \in Nat /\ c - 1 \in Int  OBVIOUS
        <4> QED  BY <2>4, <4>1, TimesKeepsOrder
      <3>3. b * q = q * b /\ b * (c - 1) = (c - 1) * b /\ b * 0 = 0  OBVIOUS
      <3> QED  BY <3>1, <3>2, <3>3
    <2>10. (c - 1) * b = c * b - b  OBVIOUS
    <2>11. Inner(shape, d - 1) = c * b  BY <1>4, <2>3
    <2>12. PICK y, z \in Int : y = q * b /\ z = c * b  OBVIOUS
    <2>13. 0 <= k - v /\ k - v < z  BY <2>7, <2>8, <2>9, <2>10, <2>12
    <2> QED  BY <2>2, <2>6, <2>11, <2>12, <2>13
  <1>12. T = 0..n
    <2> HIDE DEF T
    <2>1. T \in SUBSET (0..n)  BY DEF T
    <2> QED  BY <1>2, <1>10, <1>11, <2>1, UpTo
  <1>13. ASSUME NEW d \in 0..n  PROVE 0 <= After(d) /\ After(d) < Inner(shape, d)
    <2>1. n - d \in T /\ n - (n - d) = d
      <3>1. n - d \in 0..n  BY <1>2
      <3> HIDE DEF T
      <3> QED  BY <1>2, <1>12, <3>1
    <2> QED  BY <2>1
  <1> DEFINE U == {d \in 0..n : \E m \in Nat : W(d, m)}
  <1>14. 0 \in U
    <2>1. Inner(shape, 0) * 0 = 0 /\ 0 \in 0..n /\ 0 \in Nat  BY <1>2, <1>3
    <2> QED  BY <1>7, <2>1
  <1>15. ASSUME NEW d \in 1..n, NEW m \in Nat, W(d - 1, m)
         PROVE  W(d, shape[d] * m + p[d]) /\ shape[d] * m + p[d] \in Nat
    <2>1. d - 1 \in 0..n /\ d \in 0..n  BY <1>2
    <2>2. PICK b, c \in Nat \ {0} : b = Inner(shape, d) /\ c = shape[d]  BY <1>1, <1>2, <1>3, <2>1
    <2>3. PICK q \in Nat : q = p[d]  BY <1>5, <2>2
    <2>4. Sums(r)[d] = (c * b) * m + q * b  BY <1>2, <1>4, <1>9, <1>15, <2>2, <2>3
    <2>5. (c * b) * m + q * b = b * (c * m + q)  OBVIOUS
    <2>6. Sums(r)[d] = b * (c * m + q)  BY <2>4, <2>5
    <2>7. c * m + q \in Nat  OBVIOUS
    <2> QED  BY <2>2, <2>3, <2>6, <2>7
  <1>16. ASSUME NEW d \in 0..n - 1, d \in U  PROVE d + 1 \in U
    <2>1. d + 1 \in 1..n /\ (d + 1) - 1 = d /\ d + 1 \in 0..n  BY <1>2
    <2>2. PICK m \in Nat : W(d, m)  BY <1>16
    <2>3. W((d + 1) - 1, m)  BY <2>1, <2>2
    <2>4. W(d + 1, shape[d + 1] * m + p[d + 1]) /\ shape[d + 1] * m + p[d + 1] \in Nat
      <3> HIDE DEF W
      <3> QED  BY <1>15, <2>1, <2>3
    <2> HIDE DEF W
    <2> QED  BY <2>1, <2>4
  <1>17. U = 0..n
    <2> HIDE DEF U
    <2>1. U \in SUBSET (0..n)  BY DEF U
    <2> QED  BY <1>2, <1>14, <1>16, <2>1, UpTo
  <1>18. k \in 0..Size(shape) - 1
    <2>1. 0 \in 0..n /\ k - 0 = k  BY <1>2, <1>6
    <2>2. 0 <= k /\ k < Size(shape)  BY <1>4, <1>7, <1>13, <2>1
    <2> QED  BY <1>1, <2>2, SizeIs
  <1>19. ASSUME NEW d \in 1..n  PROVE Position(shape, k)[d] = p[d]
    <2>1. d - 1 \in 0..n /\ d \in 0..n  BY <1>2
    <2>2. PICK m \in Nat : W(d - 1, m)
      <3>1. d - 1 \in U
        <4> HIDE DEF U
        <4> QED  BY <1>17, <2>1
      <3> QED  BY <3>1
    <2>3. PICK b, c \in Nat \ {0} : b = Inner(shape, d) /\ c = shape[d]  BY <1>1, <1>2, <1>3, <2>1
    <2>4. PICK q \in Nat : q = p[d] /\ q < c  BY <1>5, <2>3
    <2>5. Sums(r)[d] = b * (c * m + q)
      <3> HIDE DEF W
      <3>1. W(d, c * m + q)  BY <1>15, <2>2, <2>3, <2>4
      <3> QED  BY <2>3, <3>1 DEF W
    <2>6. PICK t \in Int : t = After(d) /\ 0 <= t /\ t < b  BY <1>8, <1>13, <2>1, <2>3
    <2>7. k = b * (c * m + q) + t
      <3>1. PICK y \in Int : y = b * (c * m + q)  OBVIOUS
      <3> QED  BY <2>5, <2>6, <3>1
    <2>8. k \div b = c * m + q
      <3>1. PICK y \in Int : y = c * m + q  OBVIOUS
      <3>2. (b * y + t) \div b = y  BY <2>6, DivModUnique
      <3> QED  BY <2>7, <3>1, <3>2
    <2>9. (c * m + q) % c = q
      <3>1. m \in Int /\ q \in Int /\ 0 <= q  OBVIOUS
      <3> QED  BY <2>4, <3>1, DivModUnique
    <2>10. Position(shape, k)[d] = (k \div b) % c
      <3>1. k \in Nat  BY <1>18
      <3> QED  BY <1>2, <2>3, <3>1, PositionIs
    <2> QED  BY <2>4, <2>8, <2>9, <2>10
  <1>20. Position(shape, k) = p
    <2>1. k \in Nat  BY <1>18
    <2>2. Position(shape, k) \in Seq(Int) /\ Len(Position(shape, k)) = n  BY <1>2, <2>1, PositionIs
    <2>3. PICK o \in Seq(Int) : o = Position(shape, k)  BY <2>2
    <2>4. Len(o) = Len(p) /\ \A i \in 1..Len(o) : o[i] = p[i]  BY <1>5, <1>19, <2>2, <2>3
    <2>5. o = p  BY <1>5, <2>4, SameSeq
    <2> QED  BY <2>3, <2>5
  <1> QED  BY <1>6, <1>18, <1>20

----------------------------------------------------------------------------
(* Arrays and their cells.                                                    *)

\* The layout of an array makes sense, whatever its buffer.
Laid(a) ==
    /\ a = [buf |-> a.buf, shape |-> a.shape, strides |-> a.strides, offset |-> a.offset, fresh |-> a.fresh]
    /\ a.shape \in Seq(Nat)
    /\ a.strides \in Seq(Int)
    /\ Len(a.strides) = Len(a.shape)
    /\ a.offset \in Int

\* The cell at a place.
Moves(a, p) == [d \in 1..Len(a.shape) |-> p[d] * a.strides[d]]

\* The cell at position p.
Reaches(a, p) == a.offset + Total(Moves(a, p))

\* The way to a cell is one integer per axis.
LEMMA MovesIs ==
  ASSUME NEW a, Laid(a), NEW p \in Seq(Int), Len(p) = Len(a.shape)
  PROVE  /\ Moves(a, p) \in Seq(Int) /\ Len(Moves(a, p)) = Len(a.shape)
         /\ \A d \in 1..Len(a.shape) : Moves(a, p)[d] = p[d] * a.strides[d]
         /\ Reaches(a, p) \in Int
  <1>1. PICK n \in Nat : n = Len(a.shape)  BY DEF Laid
  <1>2. \A d \in 1..n : p[d] \in Int /\ a.strides[d] \in Int  BY <1>1 DEF Laid
  <1>3. \A d \in 1..n : p[d] * a.strides[d] \in Int
    <2> TAKE d \in 1..n
    <2>1. PICK x, y \in Int : x = p[d] /\ y = a.strides[d]  BY <1>2
    <2>2. x * y \in Int  OBVIOUS
    <2> QED  BY <2>1, <2>2
  <1>4. PICK m : m = Moves(a, p)  OBVIOUS
  <1>5. m = [d \in 1..n |-> p[d] * a.strides[d]]  BY <1>1, <1>4 DEF Moves
  <1>6. m \in [1..n -> Int]  BY <1>3, <1>5
  <1>7. m \in Seq(Int) /\ Len(m) = n  BY <1>6
  <1>8. Reaches(a, p) \in Int
    <2>1. Total(m) \in Int  BY <1>7, TotalIsInt
    <2>2. a.offset \in Int  BY DEF Laid
    <2> QED  BY <1>4, <2>1, <2>2 DEF Reaches
  <1> QED  BY <1>1, <1>4, <1>5, <1>7, <1>8

----------------------------------------------------------------------------
(* Contiguity.                                                                *)

\* Every axis that has more than one place takes a step over the axes after it.
Compact(a) == \A d \in 1..Len(a.shape) : a.shape[d] > 1 => a.strides[d] = Inner(a.shape, d)

\* One place on along one axis.
LEMMA PositionOfStep ==
  ASSUME NEW shape, Filled(shape), NEW d \in 1..Len(shape), shape[d] > 1
  PROVE  /\ Inner(shape, d) \in 0..Size(shape) - 1
         /\ \A e \in 1..Len(shape) : Position(shape, Inner(shape, d))[e] = IF e = d THEN 1 ELSE 0
  <1>1. shape \in Seq(Nat) /\ \A x \in 1..Len(shape) : shape[x] \in Nat \ {0}  BY DEF Filled
  <1>2. PICK n \in Nat : n = Len(shape)  BY <1>1
  <1>3. \A x \in 0..n : Inner(shape, x) \in Nat \ {0}  BY <1>2 DEF Filled
  <1>4. /\ \A x \in 1..n : Inner(shape, x - 1) = shape[x] * Inner(shape, x)
        /\ Inner(shape, 0) = Size(shape)
    BY <1>1, <1>2, InnerIs
  <1>5. PICK k, s \in Nat \ {0} : k = Inner(shape, d) /\ s = shape[d]
    <2>1. d \in 0..n  BY <1>2
    <2> QED  BY <1>1, <1>3, <2>1
  \* An axis before d, with all that is below it, holds more than a step along d.
  <1>6. ASSUME NEW e \in 0..d - 1  PROVE k < Inner(shape, e)
    <2>1. e \in 0..n /\ d - 1 \in e..n /\ d - 1 \in 0..n /\ d \in 1..n  BY <1>2
    <2>2. PICK m \in Nat \ {0} : Inner(shape, e) = m * Inner(shape, d - 1)  BY <1>2, <2>1, InnerDivides
    <2>3. Inner(shape, d - 1) = s * k  BY <1>4, <1>5, <2>1
    <2>4. k * 2 <= k * s
      <3>1. 2 \in Int /\ s \in Int /\ 2 <= s /\ k \in Nat  BY <1>5
      <3> QED  BY <3>1, TimesKeepsOrder
    <2>5. PICK u \in Nat \ {0} : u = s * k  OBVIOUS
    <2>6. k < u  BY <2>4, <2>5
    <2>7. u * 1 <= u * m
      <3>1. 1 \in Int /\ m \in Int /\ 1 <= m /\ u \in Nat  OBVIOUS
      <3> QED  BY <3>1, TimesKeepsOrder
    <2> QED  BY <2>2, <2>3, <2>5, <2>6, <2>7
  <1>7. k \in 0..Size(shape) - 1
    <2>1. 0 \in 0..d - 1  BY <1>2
    <2>2. Size(shape) \in Nat  BY <1>1, SizeIs
    <2> QED  BY <1>4, <1>6, <2>1, <2>2
  <1>8. ASSUME NEW e \in 1..n  PROVE Position(shape, k)[e] = IF e = d THEN 1 ELSE 0
    <2>1. Position(shape, k)[e] = (k \div Inner(shape, e)) % shape[e]  BY <1>2, PositionIs
    <2>2. e \in 0..n  OBVIOUS
    <2>3. PICK i, c \in Nat \ {0} : i = Inner(shape, e) /\ c = shape[e]  BY <1>1, <1>2, <1>3, <2>2
    <2>4. CASE e = d
      <3>1. k * 1 + 0 = k /\ 1 \in Int /\ 0 \in Int /\ 0 <= 0 /\ 0 < k  OBVIOUS
      <3>2. (k * 1 + 0) \div k = 1  BY <3>1, DivModUnique
      <3>3. s * 0 + 1 = 1 /\ 0 \in Int /\ 1 \in Int /\ 0 <= 1 /\ 1 < s  BY <1>5
      <3>4. (s * 0 + 1) % s = 1  BY <3>3, DivModUnique
      <3> QED  BY <1>5, <2>1, <2>4, <3>1, <3>2, <3>3, <3>4
    <2>5. CASE e < d
      <3>1. e \in 0..d - 1  BY <2>5
      <3>2. k < i  BY <1>6, <2>3, <3>1
      <3>3. i * 0 + k = k /\ 0 \in Int /\ k \in Int /\ 0 <= k  OBVIOUS
      <3>4. (i * 0 + k) \div i = 0  BY <3>2, <3>3, DivModUnique
      <3>5. 0 % c = 0  OBVIOUS
      <3> QED  BY <2>1, <2>3, <2>5, <3>3, <3>4, <3>5
    <2>6. CASE e > d
      <3>1. d \in 0..n /\ e - 1 \in d..n  BY <1>2, <2>6
      <3>2. PICK m \in Nat \ {0} : Inner(shape, d) = m * Inner(shape, e - 1)  BY <1>2, <3>1, InnerDivides
      <3>3. k = m * (c * i)  BY <1>4, <1>5, <2>3, <3>2
      <3>4. m * (c * i) = i * (c * m) + 0 /\ c * m + 0 = c * m  OBVIOUS
      <3>5. PICK y \in Int : y = c * m  OBVIOUS
      <3>6. (i * y + 0) \div i = y
        <4>1. 0 \in Int /\ 0 <= 0 /\ 0 < i  OBVIOUS
        <4> QED  BY <4>1, DivModUnique
      <3>7. (c * m + 0) % c = 0
        <4>1. 0 \in Int /\ 0 <= 0 /\ 0 < c /\ m \in Int  OBVIOUS
        <4> QED  BY <4>1, DivModUnique
      <3>8. k \div i = y  BY <3>3, <3>4, <3>5, <3>6
      <3>9. y % c = 0  BY <3>4, <3>5, <3>7
      <3> QED  BY <2>1, <2>3, <2>6, <3>8, <3>9
    <2> QED  BY <1>2, <2>4, <2>5, <2>6
  <1> QED  BY <1>2, <1>5, <1>7, <1>8

\* The elements of a before one place of axis d.
Leading(shape, d) == Size(SubSeq(shape, 1, d))

\* A sequence backwards.
Reversed(s) == [i \in 1..Len(s) |-> s[Len(s) + 1 - i]]

\* Leading counts the elements one step along an axis passes over in F order.
LEMMA LeadingIs ==
  ASSUME NEW shape \in Seq(Nat)
  PROVE  /\ Leading(shape, 0) = 1
         /\ Leading(shape, Len(shape)) = Size(shape)
         /\ \A d \in 0..Len(shape) : Leading(shape, d) \in Nat
         /\ \A d \in 1..Len(shape) : Leading(shape, d) = Leading(shape, d - 1) * shape[d]
  <1>1. PICK n \in Nat : n = Len(shape)  OBVIOUS
  <1>2. \A d \in 0..n : SubSeq(shape, 1, d) \in Seq(Nat) /\ Len(SubSeq(shape, 1, d)) = d  BY <1>1, Cuts
  <1>3. \A d \in 0..n : Leading(shape, d) \in Nat  BY <1>2, SizeIs DEF Leading
  <1>4. Leading(shape, 0) = 1
    <2>1. 0 \in 0..n  OBVIOUS
    <2> QED  BY <1>2, <2>1, SizeIs DEF Leading
  <1>5. Leading(shape, n) = Size(shape)
    <2>1. SubSeq(shape, 1, n) = shape  BY <1>1
    <2> QED  BY <2>1 DEF Leading
  <1>6. ASSUME NEW d \in 1..n  PROVE Leading(shape, d) = Leading(shape, d - 1) * shape[d]
    <2>1. PICK s, t : s = SubSeq(shape, 1, d) /\ t = SubSeq(shape, 1, d - 1)  OBVIOUS
    <2>2. d \in 0..n /\ d - 1 \in 0..n  OBVIOUS
    <2>3. s \in Seq(Int) /\ Len(s) = d /\ t \in Seq(Int) /\ Len(t) = d - 1  BY <1>2, <2>1, <2>2
    <2>4. ASSUME NEW i \in 1..d - 1  PROVE s[i] = t[i]
      <3>1. s[i] = shape[1 + i - 1]  BY <1>1, <2>1, <2>3
      <3>2. t[i] = shape[1 + i - 1]  BY <1>1, <2>1, <2>3
      <3> QED  BY <3>1, <3>2
    <2>5. s[d] = shape[d]  BY <1>1, <2>1, <2>3
    <2> DEFINE T == {k \in 0..d - 1 : Prods(s)[k] = Prods(t)[k]}
    <2>6. 0 \in T  BY <2>3, ProdsChain
    <2>7. ASSUME NEW k \in 0..(d - 1) - 1, k \in T  PROVE k + 1 \in T
      <3>1. k + 1 \in 1..d - 1 /\ (k + 1) - 1 = k /\ k + 1 \in 1..d /\ k + 1 \in 0..d - 1  OBVIOUS
      <3>2. Prods(s)[k + 1] = Prods(s)[k] * s[k + 1] /\ Prods(t)[k + 1] = Prods(t)[k] * t[k + 1]
        BY <2>3, <3>1, ProdsChain
      <3> QED  BY <2>4, <2>7, <3>1, <3>2
    <2>8. T = 0..d - 1
      <3> HIDE DEF T
      <3>1. T \in SUBSET (0..d - 1) /\ d - 1 \in Nat  BY DEF T
      <3> QED  BY <2>6, <2>7, <3>1, UpTo
    <2>9. d - 1 \in T
      <3> HIDE DEF T
      <3> QED  BY <2>8
    <2>10. Size(s) = Prods(s)[d] /\ Size(t) = Prods(t)[d - 1] /\ Prods(s)[d] = Prods(s)[d - 1] * s[d]
      <3>1. d \in 1..d  OBVIOUS
      <3> QED  BY <2>3, <3>1, ProdsChain
    <2>11. Size(s) = Size(t) * shape[d]  BY <2>5, <2>9, <2>10
    <2> QED  BY <2>1, <2>11 DEF Leading
  <1> QED  BY <1>1, <1>3, <1>4, <1>5, <1>6

\* A reversed sequence has the elements of the other end.
LEMMA ReversedIs ==
  ASSUME NEW V, NEW s \in Seq(V)
  PROVE  /\ Reversed(s) \in Seq(V) /\ Len(Reversed(s)) = Len(s)
         /\ \A i \in 1..Len(s) : Reversed(s)[i] = s[Len(s) + 1 - i]
         /\ Permuted(s, Reversal(Len(s))) = Reversed(s)
  <1>1. PICK n \in Nat : n = Len(s)  OBVIOUS
  <1>2. PICK r : r = [i \in 1..n |-> s[n + 1 - i]]  OBVIOUS
  <1>3. \A i \in 1..n : n + 1 - i \in 1..n /\ s[n + 1 - i] \in V
    <2> TAKE i \in 1..n
    <2>1. n + 1 - i \in 1..n  OBVIOUS
    <2> QED  BY <1>1, <2>1
  <1>4. r \in [1..n -> V]  BY <1>2, <1>3
  <1>5. r \in Seq(V) /\ Len(r) = n  BY <1>4
  <1>6. Reversed(s) = r  BY <1>1, <1>2 DEF Reversed
  <1>7. Permuted(s, Reversal(n)) = r
    <2>1. DOMAIN Reversal(n) = 1..n /\ \A i \in 1..n : Reversal(n)[i] = n + 1 - i  BY DEF Reversal
    <2> QED  BY <1>2, <2>1 DEF Permuted
  <1> QED  BY <1>1, <1>2, <1>5, <1>6, <1>7

\* Reversed, the axes before an axis are those after it.
LEMMA InnerReversed ==
  ASSUME NEW shape \in Seq(Nat), NEW d \in 0..Len(shape)
  PROVE  Inner(Reversed(shape), Len(shape) - d) = Leading(shape, d)
  <1>1. PICK n \in Nat : n = Len(shape)  OBVIOUS
  <1>2. PICK r : r = Reversed(shape)  OBVIOUS
  <1>3. r \in Seq(Nat) /\ Len(r) = n /\ \A i \in 1..n : r[i] = shape[n + 1 - i]  BY <1>1, <1>2, ReversedIs
  <1>4. /\ Inner(r, n) = 1 /\ \A e \in 1..n : Inner(r, e - 1) = r[e] * Inner(r, e)
        /\ \A e \in 0..n : Inner(r, e) \in Nat
    BY <1>3, InnerIs
  <1>5. /\ Leading(shape, 0) = 1 /\ \A e \in 1..n : Leading(shape, e) = Leading(shape, e - 1) * shape[e]
        /\ \A e \in 0..n : Leading(shape, e) \in Nat
    BY <1>1, LeadingIs
  <1> DEFINE T == {e \in 0..n : Inner(r, n - e) = Leading(shape, e)}
  <1>6. 0 \in T  BY <1>4, <1>5
  <1>7. ASSUME NEW e \in 0..n - 1, e \in T  PROVE e + 1 \in T
    <2>1. e + 1 \in 1..n /\ (e + 1) - 1 = e /\ e + 1 \in 0..n /\ e \in 0..n  OBVIOUS
    <2>2. n - e \in 1..n /\ (n - e) - 1 = n - (e + 1) /\ n + 1 - (n - e) = e + 1  OBVIOUS
    <2>3. Inner(r, (n - e) - 1) = r[n - e] * Inner(r, n - e)  BY <1>4, <2>2
    <2>4. r[n - e] = shape[e + 1]  BY <1>3, <2>2
    <2>5. Leading(shape, e + 1) = Leading(shape, e) * shape[e + 1]  BY <1>5, <2>1
    <2>6. PICK x, y \in Nat : x = shape[e + 1] /\ y = Leading(shape, e)  BY <1>1, <1>5, <2>1
    <2>7. x * y = y * x  OBVIOUS
    <2> QED  BY <1>7, <2>1, <2>2, <2>3, <2>4, <2>5, <2>6, <2>7
  <1>8. T = 0..n
    <2> HIDE DEF T
    <2>1. T \in SUBSET (0..n)  BY DEF T
    <2> QED  BY <1>6, <1>7, <2>1, UpTo
  <1>9. d \in T
    <2> HIDE DEF T
    <2> QED  BY <1>1, <1>8
  <1> QED  BY <1>1, <1>2, <1>9

\* transpose reverses shape and strides and keeps the size.
LEMMA TransposeIs ==
  ASSUME NEW a, Laid(a)
  PROVE  /\ Laid(transpose(a)) /\ transpose(a).shape = Reversed(a.shape)
         /\ transpose(a).strides = Reversed(a.strides) /\ Size(transpose(a).shape) = Size(a.shape)
  <1>1. a.shape \in Seq(Nat) /\ a.strides \in Seq(Int) /\ Len(a.strides) = Len(a.shape) /\ a.offset \in Int
    BY DEF Laid
  <1>2. /\ Permuted(a.shape, Reversal(Len(a.shape))) = Reversed(a.shape)
        /\ Permuted(a.strides, Reversal(Len(a.shape))) = Reversed(a.strides)
    BY <1>1, ReversedIs
  <1>3. PICK r, s : r = Reversed(a.shape) /\ s = Reversed(a.strides)  OBVIOUS
  <1>4. transpose(a) = [buf |-> a.buf, shape |-> r, strides |-> s, offset |-> a.offset, fresh |-> FALSE]
    BY <1>2, <1>3 DEF transpose, transpose_axes, View
  <1>5. r \in Seq(Nat) /\ Len(r) = Len(a.shape) /\ s \in Seq(Int) /\ Len(s) = Len(a.shape)
    BY <1>1, <1>3, ReversedIs
  <1>6. Laid(transpose(a))  BY <1>1, <1>4, <1>5 DEF Laid
  <1>7. Size(r) = Size(a.shape)
    <2>1. PICK n \in Nat : n = Len(a.shape)  BY <1>1
    <2>2. n \in 0..n /\ n - n = 0  OBVIOUS
    <2>3. Inner(r, 0) = Leading(a.shape, n)  BY <1>1, <1>3, <2>1, <2>2, InnerReversed
    <2> QED  BY <1>1, <1>5, <2>1, <2>3, InnerIs, LeadingIs
  <1> QED  BY <1>3, <1>4, <1>6, <1>7

----------------------------------------------------------------------------
(* The span of the cells.                                                     *)

\* The smaller and the larger of two integers.
LEMMA MinMaxTwo ==
  ASSUME NEW x \in Int, NEW y \in Int
  PROVE  /\ Min({x, y}) = IF x <= y THEN x ELSE y
         /\ Max({x, y}) = IF x >= y THEN x ELSE y
  <1>1. PICK m \in {x, y} : \A z \in {x, y} : m <= z
    <2>1. CASE x <= y  BY <2>1
    <2>2. CASE ~(x <= y)  BY <2>2
    <2> QED  BY <2>1, <2>2
  <1>2. Min({x, y}) \in {x, y} /\ \A z \in {x, y} : Min({x, y}) <= z  BY <1>1 DEF Min
  <1>3. PICK M \in {x, y} : \A z \in {x, y} : M >= z
    <2>1. CASE x >= y  BY <2>1
    <2>2. CASE ~(x >= y)  BY <2>2
    <2> QED  BY <2>1, <2>2
  <1>4. Max({x, y}) \in {x, y} /\ \A z \in {x, y} : Max({x, y}) >= z  BY <1>3 DEF Max
  <1>5. PICK u : u = Min({x, y})  OBVIOUS
  <1>6. PICK v : v = Max({x, y})  OBVIOUS
  <1>7. u = IF x <= y THEN x ELSE y  BY <1>2, <1>5
  <1>8. v = IF x >= y THEN x ELSE y  BY <1>4, <1>6
  <1> QED  BY <1>5, <1>6, <1>7, <1>8

\* The cell of a place whose moves are these is at the offset and their sum.
LEMMA ReachesSum ==
  ASSUME NEW a, Laid(a), NEW p \in Seq(Int), Len(p) = Len(a.shape), NEW s \in Seq(Int),
         Len(s) = Len(a.shape), \A d \in 1..Len(a.shape) : s[d] = p[d] * a.strides[d]
  PROVE  Reaches(a, p) = a.offset + Total(s)
  <1>1. PICK m : m = Moves(a, p)  OBVIOUS
  <1>2. m \in Seq(Int) /\ Len(m) = Len(a.shape) /\ \A d \in 1..Len(a.shape) : m[d] = p[d] * a.strides[d]
    BY <1>1, MovesIs
  <1>3. Len(m) = Len(s) /\ \A d \in 1..Len(m) : m[d] = s[d]  BY <1>2
  <1>4. m = s  BY <1>2, <1>3, SameSeq
  <1> QED  BY <1>1, <1>4 DEF Reaches

\* An axis can be walked to either end of its reach, and no further.
LEMMA AxisReach ==
  ASSUME NEW s \in Nat \ {0}, NEW t \in Int, NEW p \in 0..s - 1
  PROVE  /\ t * (s - 1) \in Int
         /\ Min({t * (s - 1), 0}) \in Int /\ Max({t * (s - 1), 0}) \in Int
         /\ Min({t * (s - 1), 0}) <= p * t /\ p * t <= Max({t * (s - 1), 0})
         /\ Min({t * (s - 1), 0}) = (IF t < 0 THEN s - 1 ELSE 0) * t
         /\ Max({t * (s - 1), 0}) = (IF t < 0 THEN 0 ELSE s - 1) * t
  <1>1. PICK r \in Int : r = t * (s - 1)  OBVIOUS
  <1>2. r = (s - 1) * t /\ 0 * t = 0  BY <1>1
  <1>3. /\ Min({r, 0}) = IF r <= 0 THEN r ELSE 0
        /\ Max({r, 0}) = IF r >= 0 THEN r ELSE 0
    BY MinMaxTwo
  <1>4. CASE t < 0
    <2>1. PICK n \in Nat : n = -t  BY <1>4
    <2>2. n * 0 <= n * p /\ n * p <= n * (s - 1)
      <3>1. 0 \in Int /\ p \in Int /\ s - 1 \in Int /\ 0 <= p /\ p <= s - 1  OBVIOUS
      <3> QED  BY <3>1, TimesKeepsOrder
    <2>3. t = -n  BY <2>1
    <2>4. p * (-n) = -(n * p) /\ (-n) * (s - 1) = -(n * (s - 1)) /\ n * 0 = 0  OBVIOUS
    <2>5. PICK x, y \in Int : x = n * p /\ y = n * (s - 1)  OBVIOUS
    <2>6. p * t = -x /\ r = -y /\ 0 <= x /\ x <= y  BY <1>1, <2>2, <2>3, <2>4, <2>5
    <2> QED  BY <1>1, <1>2, <1>3, <1>4, <2>6
  <1>5. CASE t >= 0
    <2>1. t \in Nat  BY <1>5
    <2>2. t * 0 <= t * p /\ t * p <= t * (s - 1)
      <3>1. 0 \in Int /\ p \in Int /\ s - 1 \in Int /\ 0 <= p /\ p <= s - 1  OBVIOUS
      <3> QED  BY <2>1, <3>1, TimesKeepsOrder
    <2>3. t * 0 = 0 /\ p * t = t * p  OBVIOUS
    <2>4. PICK x \in Int : x = t * p  OBVIOUS
    <2>5. p * t = x /\ 0 <= x /\ x <= r  BY <1>1, <2>2, <2>3, <2>4
    <2> QED  BY <1>1, <1>2, <1>3, <1>5, <2>5
  <1> QED  BY <1>4, <1>5

\* How far each axis leads below the first element.
Lows(a) == [d \in 1..Len(a.shape) |-> Min({a.strides[d] * (a.shape[d] - 1), 0})]

\* How far each axis leads above the first element.
Highs(a) == [d \in 1..Len(a.shape) |-> Max({a.strides[d] * (a.shape[d] - 1), 0})]

----------------------------------------------------------------------------
(* Lists: sequences of anything.                                              *)

\* s is a sequence, whatever its elements are.
Listed(s) == \E n \in Nat : s = [i \in 1..n |-> s[i]]

\* A function on 1..n is a sequence of n elements.
LEMMA ListedOf ==
  ASSUME NEW n \in Nat, NEW s, s = [i \in 1..n |-> s[i]]
  PROVE  Listed(s) /\ Len(s) = n /\ DOMAIN s = 1..n
  <1>1. PICK V : V = {s[i] : i \in 1..n}  OBVIOUS
  <1>2. s \in [1..n -> V]  BY <1>1
  <1>3. s \in Seq(V) /\ Len(s) = n  BY <1>2
  <1> QED  BY <1>3 DEF Listed

----------------------------------------------------------------------------
(* Sums and products of some elements of a sequence, in any order.            *)

\* A sum, less its last summand.
LEMMA TotalLast ==
  ASSUME NEW k \in Nat, NEW r \in Seq(Int), Len(r) = k + 1, NEW t \in Seq(Int), Len(t) = k,
         \A i \in 1..k : r[i] = t[i]
  PROVE  Total(r) = Total(t) + r[k + 1]
  <1> DEFINE T == {i \in 0..k : Sums(r)[i] = Sums(t)[i]}
  <1>1. 0 \in T  BY SumsChain
  <1>2. ASSUME NEW i \in 0..k - 1, i \in T  PROVE i + 1 \in T
    <2>1. i + 1 \in 1..k /\ (i + 1) - 1 = i /\ i + 1 \in 1..k + 1 /\ i + 1 \in 0..k  OBVIOUS
    <2>2. Sums(r)[i + 1] = Sums(r)[i] + r[i + 1] /\ Sums(t)[i + 1] = Sums(t)[i] + t[i + 1]  BY <2>1, SumsChain
    <2> QED  BY <1>2, <2>1, <2>2
  <1>3. T = 0..k
    <2> HIDE DEF T
    <2>1. T \in SUBSET (0..k)  BY DEF T
    <2> QED  BY <1>1, <1>2, <2>1, UpTo
  <1>4. k \in T
    <2> HIDE DEF T
    <2> QED  BY <1>3
  <1>5. k + 1 \in 1..k + 1 /\ (k + 1) - 1 = k  OBVIOUS
  <1>6. Total(r) = Sums(r)[k + 1] /\ Total(t) = Sums(t)[k] /\ Sums(r)[k + 1] = Sums(r)[k] + r[k + 1]
    BY <1>5, SumsChain
  <1> QED  BY <1>4, <1>6

\* The sum of an elementwise sum.
LEMMA TotalAdd ==
  ASSUME NEW r \in Seq(Int), NEW s \in Seq(Int), NEW t \in Seq(Int),
         Len(s) = Len(r), Len(t) = Len(r), \A i \in 1..Len(r) : r[i] = s[i] + t[i]
  PROVE  Total(r) = Total(s) + Total(t)
  <1>1. \A i \in 1..Len(r) : r[i] = 1 * s[i] + t[i]
    <2> TAKE i \in 1..Len(r)
    <2>1. s[i] \in Int  OBVIOUS
    <2> QED  BY <2>1
  <1>2. PICK c \in Int : c = 1  OBVIOUS
  <1>3. \A i \in 1..Len(r) : r[i] = c * s[i] + t[i]  BY <1>1, <1>2
  <1>4. Total(r) = c * Total(s) + Total(t)  BY <1>3, TotalLinear
  <1>5. Total(s) \in Int  BY TotalIsInt
  <1> QED  BY <1>2, <1>4, <1>5

\* q names different places of s; what it does not name adds nothing.
Names(q, m, n) == q \in [1..m -> 1..n] /\ \A i, j \in 1..m : q[i] = q[j] => i = j

\* Summands that are zero can be left out of a sum, in any order.
LEMMA TotalPick ==
  ASSUME NEW m \in Nat, NEW n \in Nat, NEW q, Names(q, m, n),
         NEW s \in Seq(Int), Len(s) = n, \A d \in 1..n : (\A i \in 1..m : q[i] # d) => s[d] = 0,
         NEW r \in Seq(Int), Len(r) = m, \A i \in 1..m : r[i] = s[q[i]]
  PROVE  Total(r) = Total(s)
  <1> DEFINE Off(w, k) == \A d \in 1..n : (\A i \in 1..k : q[i] # d) => w[d] = 0
             On(v, w, k) == Len(v) = k /\ \A i \in 1..k : v[i] = w[q[i]]
             P(k) == \A w \in Seq(Int) : Len(w) = n /\ Off(w, k) =>
                        \A v \in Seq(Int) : On(v, w, k) => Total(v) = Total(w)
             T == {k \in 0..m : P(k)}
  <1>1. 0 \in T
    <2>1. ASSUME NEW w \in Seq(Int), Len(w) = n, Off(w, 0), NEW v \in Seq(Int), On(v, w, 0)
          PROVE  Total(v) = Total(w)
      <3>1. Total(v) = 0  BY <2>1, TotalEmpty
      <3>2. \A d \in 1..n : w[d] = 0  BY <2>1
      <3>3. CASE n = 0  BY <2>1, <3>1, <3>3, TotalEmpty
      <3>4. CASE n # 0
        <4>1. 1 \in 1..Len(w) /\ \A e \in 1..Len(w) : e # 1 => w[e] = 0  BY <2>1, <3>2, <3>4
        <4>2. Total(w) = w[1]  BY <2>1, <4>1, TotalUnit
        <4> QED  BY <2>1, <3>1, <3>2, <4>1, <4>2
      <3> QED  BY <3>3, <3>4
    <2>2. 0 \in 0..m  OBVIOUS
    <2> HIDE DEF Off, On
    <2> QED  BY <2>1, <2>2
  <1>2. ASSUME NEW k \in 0..m - 1, k \in T  PROVE k + 1 \in T
    <2>1. k + 1 \in 1..m /\ k + 1 \in 0..m /\ k \in Nat /\ k + 1 \in 1..k + 1  OBVIOUS
    <2>2. ASSUME NEW w \in Seq(Int), Len(w) = n, Off(w, k + 1), NEW v \in Seq(Int), On(v, w, k + 1)
          PROVE  Total(v) = Total(w)
      <3>1. PICK j \in 1..n : j = q[k + 1]  BY <2>1 DEF Names
      <3>2. PICK w1 : w1 = [d \in 1..n |-> IF d = j THEN 0 ELSE w[d]]  OBVIOUS
      <3>3. PICK u : u = [d \in 1..n |-> IF d = j THEN w[d] ELSE 0]  OBVIOUS
      <3>4. PICK v1 : v1 = [i \in 1..k |-> v[i]]  OBVIOUS
      <3>5. \A d \in 1..n : w[d] \in Int  BY <2>2
      <3>6. w1 \in [1..n -> Int] /\ u \in [1..n -> Int]  BY <3>2, <3>3, <3>5
      <3>7. w1 \in Seq(Int) /\ Len(w1) = n /\ u \in Seq(Int) /\ Len(u) = n  BY <3>6
      <3>8. Len(v) = k + 1 /\ \A i \in 1..k + 1 : v[i] = w[q[i]] /\ v[i] \in Int  BY <2>1, <2>2
      <3>9. v1 \in [1..k -> Int]
        <4>1. \A i \in 1..k : i \in 1..k + 1  OBVIOUS
        <4> QED  BY <3>4, <3>8, <4>1
      <3>10. v1 \in Seq(Int) /\ Len(v1) = k  BY <2>1, <3>9
      <3>11. Total(w) = Total(w1) + Total(u)
        <4>1. \A d \in 1..Len(w) : w[d] = w1[d] + u[d]  BY <2>2, <3>2, <3>3, <3>5
        <4>2. w \in Seq(Int) /\ w1 \in Seq(Int) /\ u \in Seq(Int) /\ Len(w1) = Len(w) /\ Len(u) = Len(w)
          BY <2>2, <3>7
        <4> QED  BY <4>1, <4>2, TotalAdd
      <3>12. Total(u) = w[j]
        <4>1. j \in 1..Len(u) /\ \A e \in 1..Len(u) : e # j => u[e] = 0  BY <3>3, <3>7
        <4>2. Total(u) = u[j]  BY <3>7, <4>1, TotalUnit
        <4> QED  BY <3>3, <4>2
      <3>13. Total(v) = Total(v1) + v[k + 1]
        <4>1. \A i \in 1..k : v[i] = v1[i]  BY <3>4
        <4> QED  BY <2>1, <3>8, <3>10, <4>1, TotalLast
      <3>14. Total(v1) = Total(w1)
        <4>1. Off(w1, k)
          <5>1. ASSUME NEW d \in 1..n, \A i \in 1..k : q[i] # d  PROVE w1[d] = 0
            <6>1. CASE d = j  BY <3>2, <6>1
            <6>2. CASE d # j
              <7>1. \A i \in 1..k + 1 : q[i] # d
                <8> TAKE i \in 1..k + 1
                <8>1. CASE i = k + 1  BY <3>1, <6>2, <8>1
                <8>2. CASE i # k + 1
                  <9>1. i \in 1..k  BY <8>2
                  <9> QED  BY <5>1, <9>1
                <8> QED  BY <8>1, <8>2
              <7>2. w[d] = 0  BY <2>2, <7>1
              <7> QED  BY <3>2, <6>2, <7>2
            <6> QED  BY <6>1, <6>2
          <5> QED  BY <5>1
        <4>2. On(v1, w1, k)
          <5>1. ASSUME NEW i \in 1..k  PROVE v1[i] = w1[q[i]]
            <6>1. i \in 1..k + 1 /\ i \in 1..m /\ i # k + 1  OBVIOUS
            <6>2. q[i] \in 1..n /\ q[i] # j  BY <2>1, <3>1, <6>1 DEF Names
            <6> QED  BY <3>2, <3>4, <3>8, <6>1, <6>2
          <5> QED  BY <3>10, <5>1
        <4>3. P(k)  BY <1>2
        <4> HIDE DEF Off, On
        <4> QED  BY <3>7, <3>10, <4>1, <4>2, <4>3
      <3>15. v[k + 1] = w[j]  BY <2>1, <3>1, <3>8
      <3> QED  BY <3>11, <3>12, <3>13, <3>14, <3>15
    <2>3. P(k + 1)
      <3> HIDE DEF Off, On
      <3> QED  BY <2>2
    <2> HIDE DEF P
    <2> QED  BY <2>1, <2>3
  <1>3. T = 0..m
    <2> HIDE DEF T
    <2>1. T \in SUBSET (0..m)  BY DEF T
    <2> QED  BY <1>1, <1>2, <2>1, UpTo
  <1>4. P(m)
    <2>1. m \in T
      <3> HIDE DEF T
      <3> QED  BY <1>3
    <2> QED  BY <2>1
  <1>5. Off(s, m) /\ On(r, s, m)  OBVIOUS
  <1> HIDE DEF Off, On
  <1> QED  BY <1>4, <1>5

\* The size of a scalar.
LEMMA SizeEmpty ==
  ASSUME NEW s \in Seq(Int), Len(s) = 0
  PROVE  Size(s) = 1
  BY ProdsChain

\* The product of an elementwise product.
LEMMA SizeMul ==
  ASSUME NEW r \in Seq(Int), NEW s \in Seq(Int), NEW t \in Seq(Int),
         Len(s) = Len(r), Len(t) = Len(r), \A i \in 1..Len(r) : r[i] = s[i] * t[i]
  PROVE  Size(r) = Size(s) * Size(t)
  <1> DEFINE T == {k \in 0..Len(r) : Prods(r)[k] = Prods(s)[k] * Prods(t)[k]}
  <1>1. Len(r) \in Nat  OBVIOUS
  <1>2. 0 \in T  BY <1>1, ProdsChain
  <1>3. ASSUME NEW k \in 0..Len(r) - 1, k \in T  PROVE k + 1 \in T
    <2>1. k + 1 \in 1..Len(r) /\ (k + 1) - 1 = k /\ k \in 0..Len(r) /\ k + 1 \in 0..Len(r)  OBVIOUS
    <2>2. /\ Prods(r)[k + 1] = Prods(r)[k] * r[k + 1]
          /\ Prods(s)[k + 1] = Prods(s)[k] * s[k + 1]
          /\ Prods(t)[k + 1] = Prods(t)[k] * t[k + 1]
          /\ Prods(s)[k] \in Int /\ Prods(t)[k] \in Int /\ Prods(r)[k] \in Int
      BY <2>1, ProdsChain
    <2>3. PICK x, y \in Int : x = Prods(s)[k] /\ y = s[k + 1]  BY <2>1, <2>2
    <2>4. PICK v, w \in Int : v = Prods(t)[k] /\ w = t[k + 1]  BY <2>1, <2>2
    <2>5. Prods(r)[k] = x * v /\ r[k + 1] = y * w  BY <1>3, <2>1, <2>3, <2>4
    <2>6. (x * v) * (y * w) = (x * y) * (v * w)  OBVIOUS
    <2>7. Prods(r)[k + 1] = (x * y) * (v * w)  BY <2>2, <2>5, <2>6
    <2> QED  BY <2>1, <2>2, <2>3, <2>4, <2>7
  <1>4. T = 0..Len(r)
    <2> HIDE DEF T
    <2>1. T \in SUBSET (0..Len(r))  BY DEF T
    <2> QED  BY <1>1, <1>2, <1>3, <2>1, UpTo
  <1>5. Len(r) \in T
    <2> HIDE DEF T
    <2> QED  BY <1>1, <1>4
  <1> QED  BY <1>5, ProdsChain

\* A product with one factor.
LEMMA SizeUnit ==
  ASSUME NEW s \in Seq(Int), NEW d \in 1..Len(s), \A e \in 1..Len(s) : e # d => s[e] = 1
  PROVE  Size(s) = s[d]
  <1>1. PICK n \in Nat : n = Len(s)  OBVIOUS
  <1>2. PICK x \in Int : x = s[d]  OBVIOUS
  <1> DEFINE T == {k \in 0..n : Prods(s)[k] = IF k >= d THEN x ELSE 1}
  <1>3. 0 \in T  BY <1>1, ProdsChain
  <1>4. ASSUME NEW k \in 0..n - 1, k \in T  PROVE k + 1 \in T
    <2>1. k + 1 \in 1..n /\ (k + 1) - 1 = k /\ k + 1 \in 0..n  BY <1>1
    <2>2. Prods(s)[k + 1] = Prods(s)[k] * s[k + 1]  BY <1>1, <2>1, ProdsChain
    <2>3. CASE k + 1 = d
      <3>1. Prods(s)[k] = 1  BY <1>4, <2>3
      <3> QED  BY <1>2, <2>1, <2>2, <2>3, <3>1
    <2>4. CASE k + 1 # d
      <3>1. s[k + 1] = 1  BY <1>1, <2>1, <2>4
      <3>2. (k + 1 >= d) <=> (k >= d)  BY <1>1, <2>4
      <3>3. x * 1 = x /\ 1 * 1 = 1  OBVIOUS
      <3> QED  BY <1>2, <1>4, <2>1, <2>2, <3>1, <3>2, <3>3
    <2> QED  BY <2>3, <2>4
  <1>5. T = 0..n
    <2> HIDE DEF T
    <2>1. T \in SUBSET (0..n)  BY DEF T
    <2> QED  BY <1>3, <1>4, <2>1, UpTo
  <1>6. n \in T
    <2> HIDE DEF T
    <2> QED  BY <1>5
  <1>7. Prods(s)[n] = x  BY <1>1, <1>6
  <1> QED  BY <1>1, <1>2, <1>7, ProdsChain

\* A size, less the last axis.
LEMMA SizeLast ==
  ASSUME NEW k \in Nat, NEW r \in Seq(Int), Len(r) = k + 1, NEW t \in Seq(Int), Len(t) = k,
         \A i \in 1..k : r[i] = t[i]
  PROVE  Size(r) = Size(t) * r[k + 1]
  <1> DEFINE T == {i \in 0..k : Prods(r)[i] = Prods(t)[i]}
  <1>1. 0 \in T  BY ProdsChain
  <1>2. ASSUME NEW i \in 0..k - 1, i \in T  PROVE i + 1 \in T
    <2>1. i + 1 \in 1..k /\ (i + 1) - 1 = i /\ i + 1 \in 1..k + 1 /\ i + 1 \in 0..k  OBVIOUS
    <2>2. Prods(r)[i + 1] = Prods(r)[i] * r[i + 1] /\ Prods(t)[i + 1] = Prods(t)[i] * t[i + 1]
      BY <2>1, ProdsChain
    <2> QED  BY <1>2, <2>1, <2>2
  <1>3. T = 0..k
    <2> HIDE DEF T
    <2>1. T \in SUBSET (0..k)  BY DEF T
    <2> QED  BY <1>1, <1>2, <2>1, UpTo
  <1>4. k \in T
    <2> HIDE DEF T
    <2> QED  BY <1>3
  <1>5. k + 1 \in 1..k + 1 /\ (k + 1) - 1 = k  OBVIOUS
  <1>6. Size(r) = Prods(r)[k + 1] /\ Size(t) = Prods(t)[k] /\ Prods(r)[k + 1] = Prods(r)[k] * r[k + 1]
    BY <1>5, ProdsChain
  <1> QED  BY <1>4, <1>6

\* What q does not name is a one.
LEMMA SizePick ==
  ASSUME NEW m \in Nat, NEW n \in Nat, NEW q, Names(q, m, n),
         NEW s \in Seq(Int), Len(s) = n, \A d \in 1..n : (\A i \in 1..m : q[i] # d) => s[d] = 1,
         NEW r \in Seq(Int), Len(r) = m, \A i \in 1..m : r[i] = s[q[i]]
  PROVE  Size(r) = Size(s)
  <1> DEFINE Off(w, k) == \A d \in 1..n : (\A i \in 1..k : q[i] # d) => w[d] = 1
             On(v, w, k) == Len(v) = k /\ \A i \in 1..k : v[i] = w[q[i]]
             P(k) == \A w \in Seq(Int) : Len(w) = n /\ Off(w, k) =>
                        \A v \in Seq(Int) : On(v, w, k) => Size(v) = Size(w)
             T == {k \in 0..m : P(k)}
  <1>1. 0 \in T
    <2>1. ASSUME NEW w \in Seq(Int), Len(w) = n, Off(w, 0), NEW v \in Seq(Int), On(v, w, 0)
          PROVE  Size(v) = Size(w)
      <3>1. Size(v) = 1  BY <2>1, SizeEmpty
      <3>2. \A d \in 1..n : w[d] = 1  BY <2>1
      <3>3. CASE n = 0  BY <2>1, <3>1, <3>3, SizeEmpty
      <3>4. CASE n # 0
        <4>1. 1 \in 1..Len(w) /\ \A e \in 1..Len(w) : e # 1 => w[e] = 1  BY <2>1, <3>2, <3>4
        <4>2. Size(w) = w[1]  BY <2>1, <4>1, SizeUnit
        <4> QED  BY <2>1, <3>1, <3>2, <4>1, <4>2
      <3> QED  BY <3>3, <3>4
    <2>2. 0 \in 0..m  OBVIOUS
    <2> HIDE DEF Off, On
    <2> QED  BY <2>1, <2>2
  <1>2. ASSUME NEW k \in 0..m - 1, k \in T  PROVE k + 1 \in T
    <2>1. k + 1 \in 1..m /\ k + 1 \in 0..m /\ k \in Nat /\ k + 1 \in 1..k + 1  OBVIOUS
    <2>2. ASSUME NEW w \in Seq(Int), Len(w) = n, Off(w, k + 1), NEW v \in Seq(Int), On(v, w, k + 1)
          PROVE  Size(v) = Size(w)
      <3>1. PICK j \in 1..n : j = q[k + 1]  BY <2>1 DEF Names
      <3>2. PICK w1 : w1 = [d \in 1..n |-> IF d = j THEN 1 ELSE w[d]]  OBVIOUS
      <3>3. PICK u : u = [d \in 1..n |-> IF d = j THEN w[d] ELSE 1]  OBVIOUS
      <3>4. PICK v1 : v1 = [i \in 1..k |-> v[i]]  OBVIOUS
      <3>5. \A d \in 1..n : w[d] \in Int  BY <2>2
      <3>6. w1 \in [1..n -> Int] /\ u \in [1..n -> Int]  BY <3>2, <3>3, <3>5
      <3>7. w1 \in Seq(Int) /\ Len(w1) = n /\ u \in Seq(Int) /\ Len(u) = n  BY <3>6
      <3>8. Len(v) = k + 1 /\ \A i \in 1..k + 1 : v[i] = w[q[i]] /\ v[i] \in Int  BY <2>1, <2>2
      <3>9. v1 \in [1..k -> Int]
        <4>1. \A i \in 1..k : i \in 1..k + 1  OBVIOUS
        <4> QED  BY <3>4, <3>8, <4>1
      <3>10. v1 \in Seq(Int) /\ Len(v1) = k  BY <2>1, <3>9
      <3>11. Size(w) = Size(w1) * Size(u)
        <4>1. \A d \in 1..Len(w) : w[d] = w1[d] * u[d]  BY <2>2, <3>2, <3>3, <3>5
        <4>2. Len(w1) = Len(w) /\ Len(u) = Len(w)  BY <2>2, <3>7
        <4> QED  BY <3>7, <4>1, <4>2, SizeMul
      <3>12. Size(u) = w[j]
        <4>1. j \in 1..Len(u) /\ \A e \in 1..Len(u) : e # j => u[e] = 1  BY <3>3, <3>7
        <4>2. Size(u) = u[j]  BY <3>7, <4>1, SizeUnit
        <4> QED  BY <3>3, <4>2
      <3>13. Size(v) = Size(v1) * v[k + 1]
        <4>1. \A i \in 1..k : v[i] = v1[i]  BY <3>4
        <4> QED  BY <2>1, <3>8, <3>10, <4>1, SizeLast
      <3>14. Size(v1) = Size(w1)
        <4>1. Off(w1, k)
          <5>1. ASSUME NEW d \in 1..n, \A i \in 1..k : q[i] # d  PROVE w1[d] = 1
            <6>1. CASE d = j  BY <3>2, <6>1
            <6>2. CASE d # j
              <7>1. \A i \in 1..k + 1 : q[i] # d
                <8> TAKE i \in 1..k + 1
                <8>1. CASE i = k + 1  BY <3>1, <6>2, <8>1
                <8>2. CASE i # k + 1
                  <9>1. i \in 1..k  BY <8>2
                  <9> QED  BY <5>1, <9>1
                <8> QED  BY <8>1, <8>2
              <7>2. w[d] = 1  BY <2>2, <7>1
              <7> QED  BY <3>2, <6>2, <7>2
            <6> QED  BY <6>1, <6>2
          <5> QED  BY <5>1
        <4>2. On(v1, w1, k)
          <5>1. ASSUME NEW i \in 1..k  PROVE v1[i] = w1[q[i]]
            <6>1. i \in 1..k + 1 /\ i \in 1..m /\ i # k + 1  OBVIOUS
            <6>2. q[i] \in 1..n /\ q[i] # j  BY <2>1, <3>1, <6>1 DEF Names
            <6> QED  BY <3>2, <3>4, <3>8, <6>1, <6>2
          <5> QED  BY <3>10, <5>1
        <4>3. P(k)  BY <1>2
        <4> HIDE DEF Off, On
        <4> QED  BY <3>7, <3>10, <4>1, <4>2, <4>3
      <3>15. v[k + 1] = w[j]  BY <2>1, <3>1, <3>8
      <3> QED  BY <3>11, <3>12, <3>13, <3>14, <3>15
    <2>3. P(k + 1)
      <3> HIDE DEF Off, On
      <3> QED  BY <2>2
    <2> HIDE DEF P
    <2> QED  BY <2>1, <2>3
  <1>3. T = 0..m
    <2> HIDE DEF T
    <2>1. T \in SUBSET (0..m)  BY DEF T
    <2> QED  BY <1>1, <1>2, <2>1, UpTo
  <1>4. P(m)
    <2>1. m \in T
      <3> HIDE DEF T
      <3> QED  BY <1>3
    <2> QED  BY <2>1
  <1>5. Off(s, m) /\ On(r, s, m)  OBVIOUS
  <1> HIDE DEF Off, On
  <1> QED  BY <1>4, <1>5

----------------------------------------------------------------------------
(* Arrays whose window lies inside their buffer.                              *)

\* The first and the last cell of a window that has cells.
Lo(a) == a.offset + Total(Lows(a))

\* The last cell that memory_extent reports.
Hi(a) == a.offset + Total(Highs(a))

\* All cells from the lowest to the highest are in the buffer.
Inside(a) == Size(a.shape) # 0 => 0 <= Lo(a) /\ Hi(a) <= Len(a.buf) - 1

\* An array whose layout makes sense and stays in its buffer.
Good(a) == Laid(a) /\ Listed(a.buf) /\ Inside(a)

\* A sum of zeros.
LEMMA TotalZero ==
  ASSUME NEW r \in Seq(Int), \A i \in 1..Len(r) : r[i] = 0
  PROVE  Total(r) = 0
  <1>1. \A i \in 1..Len(r) : r[i] = r[i] + r[i]  OBVIOUS
  <1>2. Total(r) = Total(r) + Total(r)  BY <1>1, TotalAdd
  <1>3. Total(r) \in Int  BY TotalIsInt
  <1> QED  BY <1>2, <1>3

\* The sum of differences.
LEMMA Telescope ==
  ASSUME NEW r \in Seq(Int), NEW g, \A k \in 0..Len(r) : g[k] \in Int,
         \A i \in 1..Len(r) : r[i] = g[i] - g[i - 1]
  PROVE  Total(r) = g[Len(r)] - g[0]
  <1> DEFINE T == {k \in 0..Len(r) : Sums(r)[k] = g[k] - g[0]}
  <1>1. Len(r) \in Nat /\ 0 \in 0..Len(r) /\ Len(r) \in 0..Len(r)  OBVIOUS
  <1>2. 0 \in T  BY <1>1, SumsChain
  <1>3. ASSUME NEW k \in 0..Len(r) - 1, k \in T  PROVE k + 1 \in T
    <2>1. k + 1 \in 1..Len(r) /\ (k + 1) - 1 = k /\ k \in 0..Len(r) /\ k + 1 \in 0..Len(r)  OBVIOUS
    <2>2. Sums(r)[k + 1] = Sums(r)[k] + r[k + 1] /\ Sums(r)[k] = g[k] - g[0]  BY <1>3, <2>1, SumsChain
    <2>3. g[k] \in Int /\ g[k + 1] \in Int /\ g[0] \in Int /\ r[k + 1] = g[k + 1] - g[k]  BY <1>1, <2>1
    <2> QED  BY <2>1, <2>2, <2>3
  <1>4. T = 0..Len(r)
    <2> HIDE DEF T
    <2>1. T \in SUBSET (0..Len(r))  BY DEF T
    <2> QED  BY <1>1, <1>2, <1>3, <2>1, UpTo
  <1>5. Len(r) \in T
    <2> HIDE DEF T
    <2> QED  BY <1>1, <1>4
  <1> QED  BY <1>5, SumsChain

\* The smaller and the larger of an integer and zero.
LEMMA LowOf ==
  ASSUME NEW x \in Int
  PROVE  /\ Min({x, 0}) = (IF x <= 0 THEN x ELSE 0) /\ Min({x, 0}) \in Int
         /\ Max({x, 0}) = (IF x >= 0 THEN x ELSE 0) /\ Max({x, 0}) \in Int
  BY MinMaxTwo

\* How far each axis reaches, to either side of the first cell.
LEMMA LowsIs ==
  ASSUME NEW a, Laid(a)
  PROVE  /\ Lows(a) \in Seq(Int) /\ Len(Lows(a)) = Len(a.shape)
         /\ Highs(a) \in Seq(Int) /\ Len(Highs(a)) = Len(a.shape)
         /\ \A d \in 1..Len(a.shape) :
               /\ a.strides[d] * (a.shape[d] - 1) \in Int
               /\ Lows(a)[d] = Min({a.strides[d] * (a.shape[d] - 1), 0})
               /\ Highs(a)[d] = Max({a.strides[d] * (a.shape[d] - 1), 0})
         /\ Lo(a) \in Int /\ Hi(a) \in Int
  <1>1. PICK n \in Nat : n = Len(a.shape)  BY DEF Laid
  <1>2. a.shape \in Seq(Nat) /\ a.strides \in Seq(Int) /\ Len(a.strides) = Len(a.shape) /\ a.offset \in Int
    BY DEF Laid
  <1>3. ASSUME NEW d \in 1..n
        PROVE  /\ a.strides[d] * (a.shape[d] - 1) \in Int
               /\ Min({a.strides[d] * (a.shape[d] - 1), 0}) \in Int
               /\ Max({a.strides[d] * (a.shape[d] - 1), 0}) \in Int
    <2>1. a.strides[d] \in Int /\ a.shape[d] \in Int  BY <1>1, <1>2
    <2>2. PICK x, y \in Int : x = a.strides[d] /\ y = a.shape[d]  BY <2>1
    <2>3. x * (y - 1) \in Int  OBVIOUS
    <2> QED  BY <2>2, <2>3, LowOf
  <1>4. PICK lo, hi : lo = Lows(a) /\ hi = Highs(a)  OBVIOUS
  <1>5. /\ lo = [d \in 1..n |-> Min({a.strides[d] * (a.shape[d] - 1), 0})]
        /\ hi = [d \in 1..n |-> Max({a.strides[d] * (a.shape[d] - 1), 0})]
    BY <1>1, <1>4 DEF Lows, Highs
  <1>6. lo \in [1..n -> Int] /\ hi \in [1..n -> Int]  BY <1>3, <1>5
  <1>7. lo \in Seq(Int) /\ Len(lo) = n /\ hi \in Seq(Int) /\ Len(hi) = n  BY <1>6
  <1>8. Total(lo) \in Int /\ Total(hi) \in Int  BY <1>7, TotalIsInt
  <1>9. Lo(a) \in Int /\ Hi(a) \in Int  BY <1>2, <1>4, <1>8 DEF Lo, Hi
  <1> QED  BY <1>1, <1>3, <1>4, <1>5, <1>7, <1>9

\* The parts of a new array.
LEMMA FreshIs ==
  ASSUME NEW buf, NEW shape \in Seq(Nat), NEW strides \in Seq(Int), Len(strides) = Len(shape)
  PROVE  /\ Laid(Fresh(buf, shape, strides))
         /\ Fresh(buf, shape, strides).buf = buf
         /\ Fresh(buf, shape, strides).shape = shape
         /\ Fresh(buf, shape, strides).strides = strides
         /\ Fresh(buf, shape, strides).offset = 0
  BY DEF Laid, Fresh

\* A permutation of the axes.
Turns(q, n) == Names(q, n, n)

\* A permutation names every axis.
LEMMA TurnsAll ==
  ASSUME NEW n \in Nat, NEW q, Turns(q, n), NEW d \in 1..n
  PROVE  \E i \in 1..n : q[i] = d
  <1>1. q \in [1..n -> 1..n] /\ \A i, j \in 1..n : q[i] = q[j] => i = j  BY DEF Turns, Names
  <1>2. IsFiniteSet(1..n) /\ Cardinality(1..n) = n  BY FS_Interval
  <1> SUFFICES ASSUME \A i \in 1..n : q[i] # d  PROVE FALSE  OBVIOUS
  <1>3. PICK f : f = [i \in 1..n |-> q[i]]  OBVIOUS
  <1>4. f \in [1..n -> (1..n) \ {d}]  BY <1>1, <1>3
  <1>5. IsFiniteSet((1..n) \ {d}) /\ Cardinality((1..n) \ {d}) = n - 1  BY <1>2, FS_RemoveElement
  <1>6. Cardinality((1..n) \ {d}) < Cardinality(1..n)  BY <1>2, <1>5
  <1>7. \E x, y \in 1..n : x # y /\ f[x] = f[y]
    <2>1. PICK S, T : S = 1..n /\ T = (1..n) \ {d}  OBVIOUS
    <2>2. IsFiniteSet(S) /\ IsFiniteSet(T) /\ Cardinality(T) < Cardinality(S)  BY <1>2, <1>5, <1>6, <2>1
    <2>3. f \in [S -> T]  BY <1>4, <2>1
    <2>4. \E x, y \in S : x # y /\ f[x] = f[y]  BY <2>2, <2>3, FS_PigeonHole, Zenon
    <2> QED  BY <2>1, <2>4
  <1> QED  BY <1>1, <1>3, <1>7

\* r has the elements of s that q lists; those that it does not are all z.
Lists(q, m, n) == q \in [1..m -> 1..n]

\* r is what the axes in q pick of s.
Picked(r, s, q, m) == Len(r) = m /\ \A i \in 1..m : r[i] = s[q[i]]

\* The elements of s that q does not pick are all z.
Missed(s, q, m, n, z) == \A d \in 1..n : (\A i \in 1..m : q[i] # d) => s[d] = z

\* A sum does not depend on the order of the axes, nor on zeros.
LEMMA TotalPicked ==
  ASSUME NEW m \in Nat, NEW n \in Nat, NEW q, Names(q, m, n), NEW s \in Seq(Int), Len(s) = n,
         Missed(s, q, m, n, 0), NEW r \in Seq(Int), Picked(r, s, q, m)
  PROVE  Total(r) = Total(s)
  <1>1. \A d \in 1..n : (\A i \in 1..m : q[i] # d) => s[d] = 0  BY DEF Missed
  <1>2. Len(r) = m /\ \A i \in 1..m : r[i] = s[q[i]]  BY DEF Picked
  <1> QED  BY <1>1, <1>2, TotalPick, SMTT(60)

\* A size does not depend on the order of the axes, nor on unit axes.
LEMMA SizePicked ==
  ASSUME NEW m \in Nat, NEW n \in Nat, NEW q, Names(q, m, n), NEW s \in Seq(Int), Len(s) = n,
         Missed(s, q, m, n, 1), NEW r \in Seq(Int), Picked(r, s, q, m)
  PROVE  Size(r) = Size(s)
  BY SizePick DEF Missed, Picked

\* Axes named once each are axes.
LEMMA NamesLists ==
  ASSUME NEW m, NEW n, NEW q, Names(q, m, n)
  PROVE  Lists(q, m, n)
  BY DEF Names, Lists

\* A permutation names each axis once and misses none.
LEMMA TurnsNames ==
  ASSUME NEW n \in Nat, NEW q, Turns(q, n)
  PROVE  Names(q, n, n) /\ Lists(q, n, n) /\ \A s, z : Missed(s, q, n, n, z)
  <1>1. \A d \in 1..n : \E i \in 1..n : q[i] = d  BY TurnsAll
  <1>2. Names(q, n, n)  BY DEF Turns
  <1>3. \A s, z : Missed(s, q, n, n, z)  BY <1>1 DEF Missed
  <1> QED  BY <1>2, <1>3, NamesLists

\* Permuted picks.
LEMMA PermutedIs ==
  ASSUME NEW V, NEW s \in Seq(V), NEW m \in Nat, NEW n \in Nat, Len(s) = n, NEW q, Lists(q, m, n)
  PROVE  /\ Permuted(s, q) \in Seq(V) /\ Len(Permuted(s, q)) = m /\ DOMAIN Permuted(s, q) = 1..m
         /\ Picked(Permuted(s, q), s, q, m)
  <1> USE DEF Lists, Picked
  <1>1. PICK p : p = Permuted(s, q)  OBVIOUS
  <1>2. p = [i \in 1..m |-> s[q[i]]]  BY <1>1 DEF Permuted
  <1>3. \A i \in 1..m : s[q[i]] \in V  OBVIOUS
  <1>4. p \in [1..m -> V]  BY <1>2, <1>3
  <1>5. p \in Seq(V) /\ Len(p) = m  BY <1>4
  <1> QED  BY <1>1, <1>2, <1>5

\* Permuting the axes keeps the size.
LEMMA PermutedSize ==
  ASSUME NEW shape \in Seq(Nat), NEW q, Turns(q, Len(shape))
  PROVE  Size(Permuted(shape, q)) = Size(shape)
  <1>1. PICK n \in Nat : n = Len(shape)  OBVIOUS
  <1>2. Names(q, n, n) /\ Lists(q, n, n) /\ Missed(shape, q, n, n, 1)  BY <1>1, TurnsNames
  <1>3. PICK p : p = Permuted(shape, q)  OBVIOUS
  <1>4. p \in Seq(Nat) /\ Picked(p, shape, q, n)  BY <1>1, <1>2, <1>3, PermutedIs
  <1>5. p \in Seq(Int) /\ shape \in Seq(Int)  BY <1>4
  <1>8. Size(p) = Size(shape)  BY <1>1, <1>2, <1>4, <1>5, SizePicked
  <1> QED  BY <1>3, <1>8

\* The strides of a full buffer, when the axes go from slow to fast as in q.
LEMMA DenseIs ==
  ASSUME NEW a, Laid(a), Size(a.shape) # 0, NEW q, Turns(q, Len(a.shape)),
         \A i \in 1..Len(a.shape) :
            a.strides[q[i]] * (a.shape[q[i]] - 1) = Inner(Permuted(a.shape, q), i) * (a.shape[q[i]] - 1)
  PROVE  Total(Lows(a)) = 0 /\ Total(Highs(a)) = Size(a.shape) - 1
  <1>1. PICK n \in Nat : n = Len(a.shape)  BY DEF Laid
  <1>2. a.shape \in Seq(Nat)  BY DEF Laid
  <1>0. Turns(q, n)  BY <1>1
  <1>3. /\ Names(q, n, n) /\ Lists(q, n, n) /\ \A d \in 1..n : \E i \in 1..n : q[i] = d
        /\ \A s, z : Missed(s, q, n, n, z)
    BY <1>0, TurnsNames, TurnsAll
  <1>q. \A i \in 1..n : q[i] \in 1..n  BY <1>3 DEF Lists
  <1>4. PICK p : p = Permuted(a.shape, q)  OBVIOUS
  <1>p. p \in Seq(Nat) /\ Picked(p, a.shape, q, n)  BY <1>1, <1>2, <1>3, <1>4, PermutedIs
  <1>5. p \in Seq(Nat) /\ Len(p) = n /\ \A i \in 1..n : p[i] = a.shape[q[i]]  BY <1>p DEF Picked
  <1>6. Size(p) = Size(a.shape)  BY <1>2, <1>4, PermutedSize
  <1>7. Filled(p)  BY <1>5, <1>6, FilledIs
  <1>8. /\ Inner(p, 0) = Size(p) /\ Inner(p, n) = 1
        /\ \A d \in 1..n : Inner(p, d - 1) = p[d] * Inner(p, d)
    BY <1>5, InnerIs
  <1>9. /\ \A d \in 0..n : Inner(p, d) \in Nat \ {0}
        /\ \A d \in 1..n : p[d] \in Nat \ {0}
    BY <1>5, <1>7 DEF Filled
  <1>10. PICK lo, hi : lo = Lows(a) /\ hi = Highs(a)  OBVIOUS
  <1>11. /\ lo \in Seq(Int) /\ Len(lo) = n /\ hi \in Seq(Int) /\ Len(hi) = n
         /\ \A d \in 1..n : /\ lo[d] = Min({a.strides[d] * (a.shape[d] - 1), 0})
                            /\ hi[d] = Max({a.strides[d] * (a.shape[d] - 1), 0})
    BY <1>1, <1>10, LowsIs
  <1>12. ASSUME NEW i \in 1..n
         PROVE  lo[q[i]] = 0 /\ hi[q[i]] = Inner(p, i - 1) - Inner(p, i)
    <2>1. q[i] \in 1..n /\ i \in 0..n  BY <1>q
    <2>2. a.strides[q[i]] * (a.shape[q[i]] - 1) = Inner(p, i) * (p[i] - 1)  BY <1>1, <1>4, <1>5
    <2>3. PICK x, y \in Nat \ {0} : x = Inner(p, i) /\ y = p[i]  BY <1>9, <2>1
    <2>4. Inner(p, i - 1) = y * x  BY <1>8, <2>3
    <2>5. x * (y - 1) = y * x - x /\ y * x - x \in Int  OBVIOUS
    <2>6. x * (y - 1) >= 0
      <3>1. 0 \in Int /\ y - 1 \in Int /\ 0 <= y - 1 /\ x \in Nat  OBVIOUS
      <3>2. x * 0 <= x * (y - 1)  BY <3>1, TimesKeepsOrder
      <3> QED  BY <3>2
    <2>7. PICK r \in Int : r = x * (y - 1)  BY <2>5
    <2>8. Min({r, 0}) = 0 /\ Max({r, 0}) = r
      <3>1. Min({r, 0}) = (IF r <= 0 THEN r ELSE 0) /\ Max({r, 0}) = (IF r >= 0 THEN r ELSE 0)  BY LowOf
      <3> QED  BY <2>6, <2>7, <3>1
    <2>9. lo[q[i]] = Min({r, 0}) /\ hi[q[i]] = Max({r, 0})  BY <1>11, <2>1, <2>2, <2>3, <2>7
    <2> QED  BY <2>3, <2>4, <2>5, <2>7, <2>8, <2>9
  <1>13. Total(lo) = 0
    <2>1. \A d \in 1..Len(lo) : lo[d] = 0  BY <1>3, <1>11, <1>12
    <2> QED  BY <1>11, <2>1, TotalZero
  <1>14. Total(hi) = Size(p) - 1
    <2>1. PICK r : r = [i \in 1..n |-> hi[q[i]]]  OBVIOUS
    <2>2. r \in [1..n -> Int]
      <3>1. \A d \in 1..n : hi[d] \in Int  BY <1>11
      <3> QED  BY <1>q, <2>1, <3>1
    <2>3. r \in Seq(Int) /\ Len(r) = n  BY <2>2
    <2>4. \A i \in 1..n : r[i] = hi[q[i]]  BY <2>1
    <2>5. Total(r) = Total(hi)
      <3>1. Missed(hi, q, n, n, 0)  BY <1>3
      <3>2. Picked(r, hi, q, n)  BY <2>3, <2>4 DEF Picked
      <3> QED  BY <1>3, <1>11, <2>3, <3>1, <3>2, TotalPicked
    <2>6. PICK g : g = [k \in 0..n |-> -Inner(p, k)]  OBVIOUS
    <2>7. \A k \in 0..Len(r) : g[k] \in Int  BY <1>9, <2>3, <2>6
    <2>8. \A i \in 1..Len(r) : r[i] = g[i] - g[i - 1]
      <3> TAKE i \in 1..Len(r)
      <3>1. i \in 1..n /\ i \in 0..n /\ i - 1 \in 0..n  BY <2>3
      <3>2. r[i] = Inner(p, i - 1) - Inner(p, i)  BY <1>12, <2>4, <3>1
      <3>3. g[i] = -Inner(p, i) /\ g[i - 1] = -Inner(p, i - 1) /\ Inner(p, i) \in Int /\ Inner(p, i - 1) \in Int
        BY <1>9, <2>6, <3>1
      <3> QED  BY <3>2, <3>3
    <2>9. Total(r) = g[Len(r)] - g[0]  BY <2>3, <2>7, <2>8, Telescope
    <2>10. g[Len(r)] = -1 /\ g[0] = -Size(p) /\ Size(p) \in Int
      <3>1. n \in 0..n /\ 0 \in 0..n  OBVIOUS
      <3>2. Size(p) \in Int  BY <1>8, <1>9, <3>1
      <3> QED  BY <1>8, <2>3, <2>6, <3>1, <3>2
    <2> QED  BY <2>5, <2>9, <2>10
  <1> QED  BY <1>6, <1>10, <1>13, <1>14

\* The lengths from which strides are computed: an empty axis counts as one.
LEMMA AtLeastOneIs ==
  ASSUME NEW s \in Seq(Nat)
  PROVE  /\ AtLeastOne(s) \in Seq(Nat) /\ Size(AtLeastOne(s)) \in Nat
         /\ (\A d \in 1..Len(s) : s[d] # 0) => AtLeastOne(s) = s
  <1>1. PICK n \in Nat : n = Len(s)  OBVIOUS
  <1>2. DOMAIN s = 1..n /\ \A d \in 1..n : s[d] \in Nat  BY <1>1
  <1>3. \A d \in 1..n : Max({s[d], 1}) \in Nat /\ (s[d] # 0 => Max({s[d], 1}) = s[d])
    <2> TAKE d \in 1..n
    <2>1. PICK x \in Nat : x = s[d]  BY <1>2
    <2>2. x \in Int /\ 1 \in Int  OBVIOUS
    <2>3. Max({x, 1}) = IF x >= 1 THEN x ELSE 1  BY <2>2, MinMaxTwo
    <2> QED  BY <2>1, <2>3
  <1>4. PICK t : t = AtLeastOne(s)  OBVIOUS
  <1>5. t = [d \in 1..n |-> Max({s[d], 1})]  BY <1>2, <1>4 DEF AtLeastOne
  <1>6. t \in [1..n -> Nat]  BY <1>3, <1>5
  <1>7. t \in Seq(Nat) /\ Len(t) = n  BY <1>6
  <1>8. Size(t) \in Nat  BY <1>7, SizeIs
  <1>9. ASSUME \A d \in 1..n : s[d] # 0  PROVE t = s
    <2>1. Len(t) = Len(s) /\ \A d \in 1..Len(t) : t[d] = s[d]  BY <1>1, <1>3, <1>5, <1>7, <1>9
    <2> QED  BY <1>7, <2>1, SameSeq
  <1> QED  BY <1>1, <1>4, <1>7, <1>8, <1>9

\* C and F strides are the counts that a step passes over.
LEMMA StridesAre ==
  ASSUME NEW shape \in Seq(Nat)
  PROVE  /\ c_strides(shape) \in Seq(Int) /\ Len(c_strides(shape)) = Len(shape)
         /\ f_strides(shape) \in Seq(Int) /\ Len(f_strides(shape)) = Len(shape)
         /\ Zeros(shape) \in Seq(Int) /\ Len(Zeros(shape)) = Len(shape)
         /\ Size(shape) # 0 => \A d \in 1..Len(shape) : /\ c_strides(shape)[d] = Inner(shape, d)
                                                        /\ f_strides(shape)[d] = Leading(shape, d - 1)
  <1>1. PICK n \in Nat : n = Len(shape)  OBVIOUS
  <1>2. DOMAIN shape = 1..n  BY <1>1
  <1>3. ASSUME NEW d \in 1..n
        PROVE  /\ SubSeq(shape, d + 1, Len(shape)) \in Seq(Nat) /\ SubSeq(shape, 1, d - 1) \in Seq(Nat)
               /\ \A e \in 1..Len(SubSeq(shape, d + 1, Len(shape))) :
                     SubSeq(shape, d + 1, Len(shape))[e] = shape[e + d] /\ e + d \in 1..n
               /\ \A e \in 1..Len(SubSeq(shape, 1, d - 1)) :
                     SubSeq(shape, 1, d - 1)[e] = shape[e] /\ e \in 1..n
    BY <1>1
  <1>4. \A d \in 1..n : /\ Size(AtLeastOne(SubSeq(shape, d + 1, Len(shape)))) \in Int
                        /\ Size(AtLeastOne(SubSeq(shape, 1, d - 1))) \in Int
    <2> TAKE d \in 1..n
    <2>1. PICK s, t : s = SubSeq(shape, d + 1, Len(shape)) /\ t = SubSeq(shape, 1, d - 1)  OBVIOUS
    <2>2. s \in Seq(Nat) /\ t \in Seq(Nat)  BY <1>3, <2>1
    <2>3. Size(AtLeastOne(s)) \in Nat /\ Size(AtLeastOne(t)) \in Nat  BY <2>2, AtLeastOneIs
    <2> QED  BY <2>1, <2>3
  <1>5. PICK c, f : c = c_strides(shape) /\ f = f_strides(shape)  OBVIOUS
  <1>6. /\ c = [d \in 1..n |-> Size(AtLeastOne(SubSeq(shape, d + 1, Len(shape))))]
        /\ f = [d \in 1..n |-> Size(AtLeastOne(SubSeq(shape, 1, d - 1)))]
    BY <1>2, <1>5 DEF c_strides, f_strides
  <1>7. c \in [1..n -> Int] /\ f \in [1..n -> Int]  BY <1>4, <1>6
  <1>8. c \in Seq(Int) /\ Len(c) = n /\ f \in Seq(Int) /\ Len(f) = n  BY <1>7
  <1>9. Zeros(shape) \in [1..n -> Int]  BY <1>2 DEF Zeros
  <1>10. Zeros(shape) \in Seq(Int) /\ Len(Zeros(shape)) = n  BY <1>9
  <1>11. ASSUME Size(shape) # 0, NEW d \in 1..n
         PROVE  c[d] = Inner(shape, d) /\ f[d] = Leading(shape, d - 1)
    <2>1. \A e \in 1..n : shape[e] # 0  BY <1>1, <1>11, FilledIs DEF Filled
    <2>2. PICK s, t : s = SubSeq(shape, d + 1, Len(shape)) /\ t = SubSeq(shape, 1, d - 1)  OBVIOUS
    <2>3. s \in Seq(Nat) /\ t \in Seq(Nat)  BY <1>3, <2>2
    <2>4. (\A e \in 1..Len(s) : s[e] # 0) /\ (\A e \in 1..Len(t) : t[e] # 0)  BY <1>3, <2>1, <2>2
    <2>5. AtLeastOne(s) = s /\ AtLeastOne(t) = t  BY <2>3, <2>4, AtLeastOneIs
    <2> QED  BY <1>6, <2>2, <2>5 DEF Inner, Leading
  <1> QED  BY <1>1, <1>5, <1>8, <1>10, <1>11

\* A buffer of as many elements as the array has.
Fits(buf, shape) == Listed(buf) /\ Len(buf) = Size(shape)

\* An array that fills its buffer in some order of the axes stays inside it.
LEMMA DenseGood ==
  ASSUME NEW a, Laid(a), a.offset = 0, Fits(a.buf, a.shape), NEW q, Turns(q, Len(a.shape)),
         Size(a.shape) # 0 => \A i \in 1..Len(a.shape) : a.strides[q[i]] = Inner(Permuted(a.shape, q), i)
  PROVE  Good(a)
  <1>1. ASSUME Size(a.shape) # 0  PROVE 0 <= Lo(a) /\ Hi(a) <= Len(a.buf) - 1
    <2>1. \A i \in 1..Len(a.shape) :
            a.strides[q[i]] * (a.shape[q[i]] - 1) = Inner(Permuted(a.shape, q), i) * (a.shape[q[i]] - 1)
      BY <1>1
    <2>2. Total(Lows(a)) = 0 /\ Total(Highs(a)) = Size(a.shape) - 1  BY <1>1, <2>1, DenseIs
    <2>3. Size(a.shape) \in Nat  BY SizeIs DEF Laid
    <2> QED  BY <2>2, <2>3 DEF Lo, Hi, Fits
  <1> QED  BY <1>1 DEF Good, Inside, Fits

\* Identity and reversal are permutations.
LEMMA IdentityTurns ==
  ASSUME NEW n \in Nat
  PROVE  /\ Turns(Identity(n), n) /\ \A i \in 1..n : Identity(n)[i] = i
         /\ Turns(Reversal(n), n) /\ \A i \in 1..n : Reversal(n)[i] = n + 1 - i
  <1>1. Identity(n) \in [1..n -> 1..n] /\ \A i \in 1..n : Identity(n)[i] = i  BY DEF Identity
  <1>2. Reversal(n) \in [1..n -> 1..n] /\ \A i \in 1..n : Reversal(n)[i] = n + 1 - i  BY DEF Reversal
  <1>3. \A i, j \in 1..n : Identity(n)[i] = Identity(n)[j] => i = j  BY <1>1
  <1>4. \A i, j \in 1..n : Reversal(n)[i] = Reversal(n)[j] => i = j  BY <1>2
  <1> QED  BY <1>1, <1>2, <1>3, <1>4 DEF Turns, Names

\* The identity permutes nothing.
LEMMA PermutedIdentity ==
  ASSUME NEW V, NEW s \in Seq(V)
  PROVE  Permuted(s, Identity(Len(s))) = s
  BY DEF Permuted, Identity

\* A buffer with an element for each number.
LEMMA FillIs ==
  ASSUME NEW shape \in Seq(Nat), NEW buf, buf = [k \in 1..Size(shape) |-> buf[k]]
  PROVE  Fits(buf, shape)
  BY SizeIs, ListedOf DEF Fits

\* NdIter visits as many offsets as there are elements.
Odometer(shape, strides) ==
    LET it[k \in 0..Size(shape)] ==
            IF k = 0 THEN [idx |-> Zeros(shape), offset |-> 0, seen |-> <<>>]
            ELSE LET before == it[k - 1] IN Turn(shape, strides, before)
    IN  it

\* The states of the odometer NdIter.
Readings(n) == [idx : [1..n -> Int], offset : Int, seen : Seq(Int)]

\* Each turn of the odometer reads one element.
LEMMA TurnIs ==
  ASSUME NEW shape \in Seq(Nat), NEW strides \in Seq(Int), NEW n \in Nat, Len(shape) = n,
         Len(strides) = n, NEW it \in Readings(n)
  PROVE  /\ Turn(shape, strides, it) \in Readings(n)
         /\ Len(Turn(shape, strides, it).seen) = Len(it.seen) + 1
  <1>1. DOMAIN shape = 1..n /\ \A d \in 1..n : shape[d] \in Int /\ strides[d] \in Int  OBVIOUS
  <1>2. it.idx \in [1..n -> Int] /\ it.offset \in Int /\ it.seen \in Seq(Int)  BY DEF Readings
  <1>3. PICK axis : axis = IF {d \in DOMAIN shape : it.idx[d] + 1 < shape[d]} = {} THEN 0
                           ELSE Max({d \in DOMAIN shape : it.idx[d] + 1 < shape[d]})
    OBVIOUS
  <1>4. PICK idx : idx = [d \in DOMAIN shape |->
                            IF d < axis THEN it.idx[d] ELSE IF d = axis THEN it.idx[d] + 1 ELSE 0]
    OBVIOUS
  <1>5. PICK moves : moves = [d \in DOMAIN shape |->
                    IF d < axis THEN 0
                    ELSE IF d = axis THEN strides[d] ELSE strides[d] * (1 - shape[d])]
    OBVIOUS
  <1>6. idx \in [1..n -> Int]  BY <1>1, <1>2, <1>4
  <1>7. \A d \in 1..n : strides[d] * (1 - shape[d]) \in Int
    <2> TAKE d \in 1..n
    <2>1. PICK x, y \in Int : x = strides[d] /\ y = shape[d]  BY <1>1
    <2>2. x * (1 - y) \in Int  OBVIOUS
    <2> QED  BY <2>1, <2>2
  <1>8. moves \in [1..n -> Int]  BY <1>1, <1>5, <1>7
  <1>9. Total(moves) \in Int
    <2>1. moves \in Seq(Int)  BY <1>8
    <2> QED  BY <2>1, TotalIsInt
  <1>10. Turn(shape, strides, it) = [idx |-> idx, offset |-> it.offset + Total(moves),
                                     seen |-> Append(it.seen, it.offset)]
    BY <1>3, <1>4, <1>5, Zenon DEF Turn
  <1>11. Append(it.seen, it.offset) \in Seq(Int) /\ Len(Append(it.seen, it.offset)) = Len(it.seen) + 1
    BY <1>2
  <1>12. it.offset + Total(moves) \in Int  BY <1>2, <1>9
  <1> QED  BY <1>6, <1>10, <1>11, <1>12 DEF Readings

\* The odometer reads as many elements as the shape has.
LEMMA OdometerIs ==
  ASSUME NEW shape \in Seq(Nat), NEW strides \in Seq(Int), Len(strides) = Len(shape)
  PROVE  /\ \A k \in 0..Size(shape) : Odometer(shape, strides)[k] \in Readings(Len(shape))
         /\ Len(Odometer(shape, strides)[Size(shape)].seen) = Size(shape)
  <1>1. PICK n, N \in Nat : n = Len(shape) /\ N = Size(shape)  BY SizeIs
  <1>2. PICK V : V = Readings(n)  OBVIOUS
  <1>3. PICK x : x = [idx |-> Zeros(shape), offset |-> 0, seen |-> <<>>]  OBVIOUS
  <1>4. x \in V /\ Len(x.seen) = 0
    <2>1. Zeros(shape) \in [1..n -> Int]  BY <1>1 DEF Zeros
    <2> QED  BY <1>2, <1>3, <2>1 DEF Readings
  <1>5. PICK G : G = [p \in (1..N) \X V |-> Turn(shape, strides, p[2])]  OBVIOUS
  <1>6. \A v \in V : Turn(shape, strides, v) \in V /\ Len(Turn(shape, strides, v).seen) = Len(v.seen) + 1
    BY <1>1, <1>2, TurnIs
  <1>7. G \in [(1..N) \X V -> V]
    <2>1. \A p \in (1..N) \X V : p[2] \in V  OBVIOUS
    <2> QED  BY <1>5, <1>6, <2>1
  <1>8. \E f \in [0..N -> V] : Chain(f, N, x, G)  BY <1>4, <1>7, ChainExists
  <1>9. PICK f \in [0..N -> V] : f[0] = x /\ \A k \in 1..N : f[k] = G[<<k, f[k - 1]>>]  BY <1>8 DEF Chain
  <1>10. f = [k \in 0..N |-> IF k = 0 THEN x ELSE Turn(shape, strides, f[k - 1])]
    <2>1. ASSUME NEW k \in 0..N
          PROVE  f[k] = IF k = 0 THEN x ELSE Turn(shape, strides, f[k - 1])
      <3>1. CASE k = 0  BY <1>9, <3>1
      <3>2. CASE k # 0
        <4>1. k \in 1..N /\ f[k - 1] \in V  BY <3>2
        <4>2. PICK y \in V : y = f[k - 1]  BY <4>1
        <4>3. <<k, y>> \in (1..N) \X V  BY <4>1
        <4>4. G[<<k, y>>] = Turn(shape, strides, y)  BY <1>5, <4>3
        <4> QED  BY <1>9, <3>2, <4>1, <4>2, <4>4
      <3> QED  BY <3>1, <3>2
    <2> QED  BY <2>1
  <1>11. PICK it : it = CHOOSE h : h = [k \in 0..N |-> IF k = 0 THEN x ELSE Turn(shape, strides, h[k - 1])]
    OBVIOUS
  <1>12. it = [k \in 0..N |-> IF k = 0 THEN x ELSE Turn(shape, strides, it[k - 1])]  BY <1>10, <1>11
  <1>13. Odometer(shape, strides) = it  BY <1>1, <1>3, <1>11 DEF Odometer
  <1>14. it[0] = x /\ \A k \in 1..N : it[k] = Turn(shape, strides, it[k - 1])
    <2>1. it[0] = x  BY <1>12
    <2>2. ASSUME NEW k \in 1..N  PROVE it[k] = Turn(shape, strides, it[k - 1])
      <3>1. k \in 0..N /\ k # 0  OBVIOUS
      <3> QED  BY <1>12, <3>1
    <2> QED  BY <2>1, <2>2
  <1> DEFINE T == {k \in 0..N : it[k] \in V /\ Len(it[k].seen) = k}
  <1>15. 0 \in T  BY <1>4, <1>14
  <1>16. ASSUME NEW k \in 0..N - 1, k \in T  PROVE k + 1 \in T
    <2>1. k + 1 \in 1..N /\ k + 1 \in 0..N /\ (k + 1) - 1 = k  OBVIOUS
    <2>2. it[k] \in V /\ Len(it[k].seen) = k  BY <1>16
    <2>3. it[k + 1] = Turn(shape, strides, it[k])  BY <1>14, <2>1
    <2>4. it[k + 1] \in V /\ Len(it[k + 1].seen) = k + 1  BY <1>6, <2>2, <2>3
    <2> QED  BY <2>1, <2>4
  <1>17. T = 0..N
    <2> HIDE DEF T
    <2>1. T \in SUBSET (0..N)  BY DEF T
    <2> QED  BY <1>15, <1>16, <2>1, UpTo
  <1>18. \A k \in 0..N : it[k] \in V /\ Len(it[k].seen) = k  BY <1>17
  <1>19. N \in 0..N  OBVIOUS
  <1> QED  BY <1>1, <1>2, <1>13, <1>18, <1>19

\* NdIter visits each element of the shape once: its list of cells has that length.
LEMMA NdIterIs ==
  ASSUME NEW shape \in Seq(Nat), NEW strides \in Seq(Int), Len(strides) = Len(shape)
  PROVE  /\ NdIter(shape, strides) \in Seq(Int) /\ Len(NdIter(shape, strides)) = Size(shape)
         /\ DOMAIN NdIter(shape, strides) = 1..Size(shape)
  <1>1. PICK N \in Nat : N = Size(shape)  BY SizeIs
  <1>2. PICK v : v = Odometer(shape, strides)[N]  OBVIOUS
  <1>3. v \in Readings(Len(shape)) /\ Len(v.seen) = N  BY <1>1, <1>2, OdometerIs
  <1>4. NdIter(shape, strides) = v.seen  BY <1>1, <1>2 DEF NdIter, Odometer
  <1>5. v.seen \in Seq(Int)  BY <1>3 DEF Readings
  <1>6. DOMAIN v.seen = 1..N  BY <1>3, <1>5
  <1> QED  BY <1>1, <1>3, <1>4, <1>5, <1>6

\* Gathered elements fill a buffer of the shape's size.
LEMMA GatheredIs ==
  ASSUME NEW a, NEW shape \in Seq(Nat), NEW strides \in Seq(Int), Len(strides) = Len(shape)
  PROVE  Fits(Gathered(a, shape, strides), shape)
  <1>1. DOMAIN NdIter(shape, strides) = 1..Size(shape)  BY NdIterIs
  <1>2. PICK o : o = NdIter(shape, strides)  OBVIOUS
  <1>3. PICK s : s = Gathered(a, shape, strides)  OBVIOUS
  <1>4. s = [i \in 1..Size(shape) |-> a.buf[a.offset + o[i] + 1]]  BY <1>1, <1>2, <1>3 DEF Gathered
  <1>5. s = [i \in 1..Size(shape) |-> s[i]]  BY <1>4
  <1>6. Fits(s, shape)  BY <1>5, FillIs
  <1> QED  BY <1>3, <1>6

----------------------------------------------------------------------------
(* Ranks: the elements of a finite set in a strict order.                     *)

\* R orders S strictly and totally.
Precedes(R, S) ==
    /\ \A x \in S : <<x, x>> \notin R
    /\ \A x, y, z \in S : <<x, y>> \in R /\ <<y, z>> \in R => <<x, z>> \in R
    /\ \A x, y \in S : x # y => <<x, y>> \in R \/ <<y, x>> \in R

\* How many come before x, and the elements by that number.
RankIn(R, S, x) == Cardinality({y \in S : <<y, x>> \in R})

\* The elements of S in the order R, by the number of those before them.
InTurn(R, S) == [k \in 1..Cardinality(S) |-> CHOOSE x \in S : RankIn(R, S, x) = k - 1]

\* Each element of S once.
ListsAll(q, S) ==
    /\ q = [k \in 1..Cardinality(S) |-> q[k]]
    /\ \A i \in 1..Cardinality(S) : q[i] \in S
    /\ \A i, j \in 1..Cardinality(S) : q[i] = q[j] => i = j
    /\ \A x \in S : \E i \in 1..Cardinality(S) : q[i] = x

\* A later element has more elements before it.
LEMMA RankGrows ==
  ASSUME NEW S, IsFiniteSet(S), NEW R, Precedes(R, S), NEW x \in S, NEW y \in S, <<x, y>> \in R
  PROVE  RankIn(R, S, x) < RankIn(R, S, y)
  <1>1. PICK X, Y : X = {z \in S : <<z, x>> \in R} /\ Y = {z \in S : <<z, y>> \in R}  OBVIOUS
  <1>2. X \in SUBSET Y /\ x \in Y /\ x \notin X /\ Y \in SUBSET S  BY <1>1 DEF Precedes
  <1>3. IsFiniteSet(Y)  BY <1>2, FS_Subset
  <1>4. /\ IsFiniteSet(X) /\ Cardinality(X) <= Cardinality(Y)
        /\ Cardinality(Y) = Cardinality(X) => Y = X
    BY <1>2, <1>3, FS_Subset
  <1>5. Cardinality(X) \in Nat /\ Cardinality(Y) \in Nat  BY <1>3, <1>4, FS_CardinalityType
  <1>6. Cardinality(X) # Cardinality(Y)  BY <1>2, <1>4
  <1> QED  BY <1>1, <1>4, <1>5, <1>6 DEF RankIn

\* The rank of an element is less than the number of elements.
LEMMA RankIs ==
  ASSUME NEW S, IsFiniteSet(S), NEW R, Precedes(R, S), NEW x \in S
  PROVE  RankIn(R, S, x) \in 0..Cardinality(S) - 1
  <1>1. PICK X : X = {z \in S : <<z, x>> \in R}  OBVIOUS
  <1>2. X \in SUBSET (S \ {x})  BY <1>1 DEF Precedes
  <1>3. IsFiniteSet(S \ {x}) /\ Cardinality(S \ {x}) = Cardinality(S) - 1  BY FS_RemoveElement
  <1>4. IsFiniteSet(X) /\ Cardinality(X) <= Cardinality(S \ {x})  BY <1>2, <1>3, FS_Subset
  <1>5. Cardinality(X) \in Nat /\ Cardinality(S) \in Nat  BY <1>4, FS_CardinalityType
  <1> QED  BY <1>1, <1>3, <1>4, <1>5 DEF RankIn

\* InTurn lists the set, each element at its rank.
LEMMA InTurnIs ==
  ASSUME NEW S, IsFiniteSet(S), NEW R, Precedes(R, S)
  PROVE  /\ ListsAll(InTurn(R, S), S) /\ Cardinality(S) \in Nat
         /\ \A i \in 1..Cardinality(S) : RankIn(R, S, InTurn(R, S)[i]) = i - 1
  <1>1. PICK n \in Nat : n = Cardinality(S)  BY FS_CardinalityType
  <1>2. \A x, y \in S : RankIn(R, S, x) = RankIn(R, S, y) => x = y
    <2> SUFFICES ASSUME NEW x \in S, NEW y \in S, RankIn(R, S, x) = RankIn(R, S, y), x # y
                 PROVE  FALSE
      OBVIOUS
    <2>1. <<x, y>> \in R \/ <<y, x>> \in R  BY DEF Precedes
    <2>2. RankIn(R, S, x) \in Int  BY RankIs
    <2>3. RankIn(R, S, x) < RankIn(R, S, y) \/ RankIn(R, S, y) < RankIn(R, S, x)  BY <2>1, RankGrows
    <2> QED  BY <2>2, <2>3
  <1>3. \A k \in 1..n : \E x \in S : RankIn(R, S, x) = k - 1
    <2> SUFFICES ASSUME NEW k \in 1..n, \A x \in S : RankIn(R, S, x) # k - 1
                 PROVE  FALSE
      OBVIOUS
    <2>1. PICK f, U, V : f = [x \in S |-> RankIn(R, S, x)] /\ U = 0..n - 1 /\ V = U \ {k - 1}  OBVIOUS
    <2>2. \A x \in S : RankIn(R, S, x) \in 0..n - 1  BY <1>1, RankIs
    <2>3. f \in [S -> V]  BY <2>1, <2>2
    <2>4. IsFiniteSet(U) /\ Cardinality(U) = n
      <3>1. 0 \in Int /\ n - 1 \in Int  OBVIOUS
      <3>2. IsFiniteSet(0..n - 1) /\ Cardinality(0..n - 1) = IF 0 > n - 1 THEN 0 ELSE (n - 1) - 0 + 1
        BY <3>1, FS_Interval
      <3> QED  BY <2>1, <3>2
    <2>5. IsFiniteSet(V) /\ Cardinality(V) = n - 1
      <3>1. k - 1 \in U  BY <2>1
      <3>2. PICK y : y = k - 1  OBVIOUS
      <3>3. IsFiniteSet(U \ {y}) /\ Cardinality(U \ {y}) = n - 1  BY <2>4, <3>1, <3>2, FS_RemoveElement
      <3> QED  BY <2>1, <3>2, <3>3
    <2>6. Cardinality(V) < Cardinality(S)  BY <1>1, <2>5
    <2>7. \E x, y \in S : x # y /\ f[x] = f[y]  BY <2>3, <2>5, <2>6, FS_PigeonHole
    <2> QED  BY <1>2, <2>1, <2>7
  <1>4. PICK q : q = InTurn(R, S)  OBVIOUS
  <1>5. q = [k \in 1..n |-> CHOOSE x \in S : RankIn(R, S, x) = k - 1]  BY <1>1, <1>4 DEF InTurn
  <1>6. \A k \in 1..n : q[k] \in S /\ RankIn(R, S, q[k]) = k - 1
    <2> TAKE k \in 1..n
    <2>1. q[k] = CHOOSE x \in S : RankIn(R, S, x) = k - 1  BY <1>5
    <2> QED  BY <1>3, <2>1
  <1>7. q = [k \in 1..n |-> q[k]]  BY <1>5
  <1>8. \A i, j \in 1..n : q[i] = q[j] => i = j
    <2> TAKE i, j \in 1..n
    <2> HAVE q[i] = q[j]
    <2>1. i - 1 = j - 1  BY <1>6
    <2> QED  BY <2>1
  <1>9. \A x \in S : \E i \in 1..n : q[i] = x
    <2> TAKE x \in S
    <2>1. PICK r \in 0..n - 1 : r = RankIn(R, S, x)  BY <1>1, RankIs
    <2>2. r + 1 \in 1..n /\ (r + 1) - 1 = r  OBVIOUS
    <2>3. RankIn(R, S, q[r + 1]) = RankIn(R, S, x) /\ q[r + 1] \in S  BY <1>6, <2>1, <2>2
    <2> QED  BY <1>2, <2>2, <2>3
  <1> QED  BY <1>1, <1>4, <1>6, <1>7, <1>8, <1>9 DEF ListsAll

\* Ascending lists a finite set of integers, each at its rank.
LEMMA AscendingIs ==
  ASSUME NEW S \in SUBSET Int, IsFiniteSet(S)
  PROVE  /\ ListsAll(Ascending(S), S) /\ Cardinality(S) \in Nat
         /\ \A i \in 1..Cardinality(S) : Cardinality({y \in S : y < Ascending(S)[i]}) = i - 1
  <1>1. PICK R : R = {p \in S \X S : p[1] < p[2]}  OBVIOUS
  <1>2. \A x, y \in S : <<x, y>> \in R <=> x < y  BY <1>1
  <1>3. Precedes(R, S)
    <2>1. \A x, y, z \in S : <<x, y>> \in R /\ <<y, z>> \in R => <<x, z>> \in R
      <3> TAKE x, y, z \in S
      <3>1. x \in Int /\ y \in Int /\ z \in Int  OBVIOUS
      <3> QED  BY <1>2, <3>1
    <2>2. \A x \in S : <<x, x>> \notin R  BY <1>2
    <2>3. \A x, y \in S : x # y => <<x, y>> \in R \/ <<y, x>> \in R  BY <1>2
    <2> QED  BY <2>1, <2>2, <2>3 DEF Precedes
  <1>4. \A x \in S : {y \in S : <<y, x>> \in R} = {y \in S : y < x}  BY <1>2
  <1>5. \A x \in S : RankIn(R, S, x) = Cardinality({y \in S : y < x})  BY <1>4 DEF RankIn
  <1>6. Ascending(S) = InTurn(R, S)
    <2>1. \A k : (CHOOSE x \in S : Cardinality({y \in S : y < x}) = k - 1)
                 = (CHOOSE x \in S : RankIn(R, S, x) = k - 1)
      BY <1>5
    <2>2. PICK u, v : u = Ascending(S) /\ v = InTurn(R, S)  OBVIOUS
    <2> DEFINE Before(x) == Cardinality({y \in S : y < x})
    <2>3. /\ u = [k \in 1..Cardinality(S) |-> CHOOSE x \in S : Before(x) = k - 1]
          /\ v = [k \in 1..Cardinality(S) |-> CHOOSE x \in S : RankIn(R, S, x) = k - 1]
      BY <2>2 DEF Ascending, InTurn
    <2>4. \A k \in 1..Cardinality(S) : u[k] = v[k]
      <3> TAKE k \in 1..Cardinality(S)
      <3>1. u[k] = CHOOSE x \in S : Before(x) = k - 1  BY <2>3
      <3>2. v[k] = CHOOSE x \in S : RankIn(R, S, x) = k - 1  BY <2>3
      <3> QED  BY <2>1, <3>1, <3>2
    <2> HIDE DEF Before
    <2>5. PICK n : n = Cardinality(S)  OBVIOUS
    <2>6. u = [k \in 1..n |-> u[k]]  BY <2>3, <2>5
    <2>7. v = [k \in 1..n |-> v[k]]  BY <2>3, <2>5
    <2>8. u = v  BY <2>4, <2>5, <2>6, <2>7
    <2> QED  BY <2>2, <2>8
  <1>7. PICK q : q = InTurn(R, S)  OBVIOUS
  <1>8. /\ ListsAll(q, S) /\ Cardinality(S) \in Nat
        /\ \A i \in 1..Cardinality(S) : RankIn(R, S, q[i]) = i - 1
    BY <1>3, <1>7, InTurnIs
  <1>9. \A i \in 1..Cardinality(S) : q[i] \in S  BY <1>8 DEF ListsAll
  <1> QED  BY <1>5, <1>6, <1>7, <1>8, <1>9

\* SlowestFirst lists the axes, each once.
LEMMA SlowestFirstIs ==
  ASSUME NEW strides, NEW S \in SUBSET Int, IsFiniteSet(S), \A d \in S : strides[d] \in Int
  PROVE  ListsAll(SlowestFirst(strides, S), S) /\ Cardinality(S) \in Nat
  <1> DEFINE before(e, d) == \/ Abs(strides[e]) > Abs(strides[d])
                             \/ Abs(strides[e]) = Abs(strides[d]) /\ e < d
  <1>1. PICK R : R = {p \in S \X S : before(p[1], p[2])}  OBVIOUS
  <1>2. \A x, y \in S : <<x, y>> \in R <=> before(x, y)  BY <1>1
  <1>3. \A d \in S : Abs(strides[d]) \in Int /\ d \in Int  BY DEF Abs
  <1>4. Precedes(R, S)
    <2>1. \A x, y, z \in S : before(x, y) /\ before(y, z) => before(x, z)  BY <1>3
    <2>2. \A x \in S : ~before(x, x)  BY <1>3
    <2>3. \A x, y \in S : x # y => before(x, y) \/ before(y, x)  BY <1>3
    <2> HIDE DEF before
    <2> QED  BY <1>2, <2>1, <2>2, <2>3 DEF Precedes
  <1>5. \A x \in S : {y \in S : <<y, x>> \in R} = {y \in S : before(y, x)}
    <2> HIDE DEF before
    <2> QED  BY <1>2
  <1>6. \A x \in S : RankIn(R, S, x) = Cardinality({y \in S : before(y, x)})  BY <1>5 DEF RankIn
  <1>7. SlowestFirst(strides, S) = InTurn(R, S)
    <2>1. \A k : (CHOOSE x \in S : Cardinality({y \in S : before(y, x)}) = k - 1)
                 = (CHOOSE x \in S : RankIn(R, S, x) = k - 1)
      <3> HIDE DEF before
      <3> QED  BY <1>6
    <2>2. PICK u, v : u = SlowestFirst(strides, S) /\ v = InTurn(R, S)  OBVIOUS
    <2> DEFINE Before(x) == Cardinality({y \in S : before(y, x)})
    <2>3. /\ u = [k \in 1..Cardinality(S) |-> CHOOSE x \in S : Before(x) = k - 1]
          /\ v = [k \in 1..Cardinality(S) |-> CHOOSE x \in S : RankIn(R, S, x) = k - 1]
      BY <2>2 DEF SlowestFirst, InTurn
    <2> HIDE DEF before
    <2>4. \A k \in 1..Cardinality(S) : u[k] = v[k]
      <3> TAKE k \in 1..Cardinality(S)
      <3>1. u[k] = CHOOSE x \in S : Before(x) = k - 1  BY <2>3
      <3>2. v[k] = CHOOSE x \in S : RankIn(R, S, x) = k - 1  BY <2>3
      <3> QED  BY <2>1, <3>1, <3>2
    <2> HIDE DEF Before
    <2>5. PICK n : n = Cardinality(S)  OBVIOUS
    <2>6. u = [k \in 1..n |-> u[k]]  BY <2>3, <2>5
    <2>7. v = [k \in 1..n |-> v[k]]  BY <2>3, <2>5
    <2>8. u = v  BY <2>4, <2>5, <2>6, <2>7
    <2> QED  BY <2>2, <2>8
  <1> QED  BY <1>4, <1>7, InTurnIs

\* The cell of the k-th element is where its position leads.
LEMMA CellIs ==
  ASSUME NEW a, Laid(a), NEW k \in 0..Size(a.shape) - 1
  PROVE  /\ Filled(a.shape) /\ k \in Nat
         /\ Place(Position(a.shape, k), a.shape)
         /\ Cell(a, k) = Reaches(a, Position(a.shape, k))
         /\ Cell(a, k) \in Int
  <1>1. a.shape \in Seq(Nat) /\ Size(a.shape) \in Nat  BY SizeIs DEF Laid
  <1>2. Size(a.shape) # 0 /\ k \in Nat  BY <1>1
  <1>3. Filled(a.shape)  BY <1>1, <1>2, FilledIs
  <1>4. PICK p : p = Position(a.shape, k)  OBVIOUS
  <1>5. PICK n \in Nat : n = Len(a.shape)  BY <1>1
  <1>6. p \in Seq(Int) /\ Len(p) = n /\ DOMAIN p = 1..n /\ \A d \in 1..n : p[d] \in 0..a.shape[d] - 1
    BY <1>2, <1>3, <1>4, <1>5, PositionIs
  <1>7. Place(p, a.shape)  BY <1>5, <1>6 DEF Place
  <1>8. Cell(a, k) = a.offset + Total([d \in DOMAIN p |-> p[d] * a.strides[d]])  BY <1>4 DEF Cell
  <1>9. Cell(a, k) = Reaches(a, p)  BY <1>5, <1>6, <1>8 DEF Reaches, Moves
  <1>10. Reaches(a, p) \in Int  BY <1>5, <1>6, MovesIs
  <1> QED  BY <1>2, <1>3, <1>4, <1>7, <1>9, <1>10

\* Every place has a number.
LEMMA PlaceHasNumber ==
  ASSUME NEW a, Laid(a), Size(a.shape) # 0, NEW p, Place(p, a.shape)
  PROVE  \E k \in 0..Size(a.shape) - 1 : Cell(a, k) = Reaches(a, p)
  <1>1. a.shape \in Seq(Nat) /\ Filled(a.shape)  BY FilledIs DEF Laid
  <1>2. PICK n \in Nat : n = Len(a.shape)  BY <1>1
  <1>3. p \in Seq(Int) /\ Len(p) = n  BY <1>2 DEF Place
  <1>4. PICK r : r = [d \in 1..n |-> p[d] * Inner(a.shape, d)]  OBVIOUS
  <1>5. \A d \in 1..n : p[d] * Inner(a.shape, d) \in Int
    <2> TAKE d \in 1..n
    <2>1. d \in 0..n  BY <1>2
    <2>2. PICK x, y \in Int : x = p[d] /\ y = Inner(a.shape, d)  BY <1>2, <1>3, <1>1, <2>1 DEF Filled
    <2>3. x * y \in Int  OBVIOUS
    <2> QED  BY <2>2, <2>3
  <1>6. r \in [1..n -> Int]  BY <1>4, <1>5
  <1>7. r \in Seq(Int) /\ Len(r) = n  BY <1>6
  <1>8. \A d \in 1..Len(a.shape) : r[d] = p[d] * Inner(a.shape, d)  BY <1>2, <1>4
  <1>9. Total(r) \in 0..Size(a.shape) - 1 /\ Position(a.shape, Total(r)) = p
    BY <1>1, <1>2, <1>7, <1>8, PositionOfNumber
  <1>10. Cell(a, Total(r)) = Reaches(a, p)  BY <1>9, CellIs
  <1> QED  BY <1>9, <1>10

\* The first element is at the offset.
LEMMA FirstCell ==
  ASSUME NEW a, Laid(a), Size(a.shape) # 0
  PROVE  Cell(a, 0) = a.offset
  <1>1. Size(a.shape) \in Nat /\ a.shape \in Seq(Nat)  BY SizeIs DEF Laid
  <1>2. 0 \in 0..Size(a.shape) - 1 /\ 0 \in Nat  BY <1>1
  <1>3. Filled(a.shape) /\ Cell(a, 0) = Reaches(a, Position(a.shape, 0))  BY <1>2, CellIs
  <1>4. PICK p : p = Position(a.shape, 0)  OBVIOUS
  <1>5. PICK n \in Nat : n = Len(a.shape)  BY <1>1
  <1>6. p \in Seq(Int) /\ Len(p) = n /\ \A d \in 1..n : p[d] = (0 \div Inner(a.shape, d)) % a.shape[d]
    BY <1>2, <1>3, <1>4, <1>5, PositionIs
  <1>7. ASSUME NEW d \in 1..n  PROVE p[d] = 0
    <2>1. PICK s, i \in Nat \ {0} : s = a.shape[d] /\ i = Inner(a.shape, d)
      <3>1. d \in 0..n  OBVIOUS
      <3> QED  BY <1>3, <1>5, <3>1 DEF Filled
    <2>2. 0 \div i = 0 /\ 0 % s = 0  OBVIOUS
    <2> QED  BY <1>6, <2>1, <2>2
  <1>8. PICK m : m = Moves(a, p)  OBVIOUS
  <1>9. m \in Seq(Int) /\ Len(m) = n /\ \A d \in 1..n : m[d] = p[d] * a.strides[d]
    BY <1>5, <1>6, <1>8, MovesIs
  <1>10. \A d \in 1..n : m[d] = 0
    <2> TAKE d \in 1..n
    <2>1. PICK y \in Int : y = a.strides[d]  BY <1>5 DEF Laid
    <2>2. 0 * y = 0  OBVIOUS
    <2> QED  BY <1>7, <1>9, <2>1, <2>2
  <1>11. Total(m) = 0
    <2>1. CASE n = 0  BY <1>9, <2>1, TotalEmpty
    <2>2. CASE n # 0
      <3>1. 1 \in 1..Len(m) /\ \A e \in 1..Len(m) : e # 1 => m[e] = 0  BY <1>9, <1>10, <2>2
      <3>2. Total(m) = m[1]  BY <1>9, <3>1, TotalUnit
      <3> QED  BY <1>9, <1>10, <3>1, <3>2
    <2> QED  BY <2>1, <2>2
  <1>12. a.offset \in Int  BY DEF Laid
  <1> QED  BY <1>3, <1>4, <1>8, <1>11, <1>12 DEF Reaches

\* Of an array with C strides the cells count up.
LEMMA CompactCounts ==
  ASSUME NEW a, Laid(a), Compact(a), NEW k \in 0..Size(a.shape) - 1
  PROVE  Cell(a, k) = a.offset + k
  <1>1. PICK n \in Nat : n = Len(a.shape)  BY DEF Laid
  <1>2. PICK p : p = Position(a.shape, k)  OBVIOUS
  <1>3. Filled(a.shape) /\ k \in Nat /\ Cell(a, k) = Reaches(a, p) /\ Place(p, a.shape)  BY <1>2, CellIs
  <1>4. p \in Seq(Int) /\ Len(p) = n /\ \A d \in 1..n : p[d] \in 0..a.shape[d] - 1  BY <1>1, <1>3 DEF Place
  <1>5. PICK m : m = Moves(a, p)  OBVIOUS
  <1>6. m \in Seq(Int) /\ Len(m) = n /\ \A d \in 1..n : m[d] = p[d] * a.strides[d]
    BY <1>1, <1>4, <1>5, MovesIs
  <1>7. ASSUME NEW d \in 1..n  PROVE m[d] = p[d] * Inner(a.shape, d)
    <2>1. CASE a.shape[d] > 1  BY <1>1, <1>6, <2>1 DEF Compact
    <2>2. CASE ~(a.shape[d] > 1)
      <3>1. d \in 0..n  OBVIOUS
      <3>2. a.shape[d] = 1  BY <1>1, <1>3, <2>2 DEF Filled
      <3>3. p[d] = 0  BY <1>4, <3>2
      <3>4. PICK x, y \in Int : x = a.strides[d] /\ y = Inner(a.shape, d)
        BY <1>1, <1>3, <3>1 DEF Filled, Laid
      <3>5. 0 * x = 0 /\ 0 * y = 0  OBVIOUS
      <3> QED  BY <1>6, <3>3, <3>4, <3>5
    <2> QED  BY <2>1, <2>2
  <1>8. Total(m) = k
    <2>1. m \in Seq(Int) /\ Len(m) = Len(a.shape)  BY <1>1, <1>6
    <2>2. \A d \in 1..Len(a.shape) : m[d] = Position(a.shape, k)[d] * Inner(a.shape, d)  BY <1>1, <1>2, <1>7
    <2> QED  BY <1>3, <2>1, <2>2, NumberOfPosition
  <1> QED  BY <1>3, <1>5, <1>8 DEF Reaches

\* Cells count up exactly when the strides of all longer axes are the C strides.
LEMMA ConsecutiveIs ==
  ASSUME NEW a, Laid(a), Size(a.shape) # 0
  PROVE  Consecutive(a) <=> Compact(a)
  <1>1. PICK n \in Nat : n = Len(a.shape)  BY DEF Laid
  <1>2. PICK N \in Nat \ {0} : N = Size(a.shape)  BY SizeIs DEF Laid
  <1>3. \A k \in 0..N - 1 : Cell(a, k) \in Int  BY <1>2, CellIs
  <1>4. a.offset \in Int  BY DEF Laid
  <1>5. ASSUME Compact(a)  PROVE Consecutive(a)
    <2>1. ASSUME NEW k \in 1..N - 1  PROVE Cell(a, k) = Cell(a, k - 1) + 1
      <3>1. k \in 0..N - 1 /\ k - 1 \in 0..N - 1  OBVIOUS
      <3>2. Cell(a, k) = a.offset + k  BY <1>2, <1>5, <3>1, CompactCounts
      <3>3. Cell(a, k - 1) = a.offset + (k - 1)  BY <1>2, <1>5, <3>1, CompactCounts
      <3> QED  BY <1>4, <3>2, <3>3
    <2> QED  BY <1>2, <2>1 DEF Consecutive
  <1>6. ASSUME Consecutive(a)  PROVE Compact(a)
    <2> DEFINE T == {k \in 0..N - 1 : Cell(a, k) = a.offset + k}
    <2>1. 0 \in T  BY <1>2, <1>4, FirstCell
    <2>2. ASSUME NEW k \in 0..(N - 1) - 1, k \in T  PROVE k + 1 \in T
      <3>1. k + 1 \in 1..N - 1 /\ (k + 1) - 1 = k  OBVIOUS
      <3>2. Cell(a, k + 1) = Cell(a, (k + 1) - 1) + 1  BY <1>2, <1>6, <3>1 DEF Consecutive
      <3> QED  BY <1>4, <2>2, <3>1, <3>2
    <2>3. T = 0..N - 1
      <3> HIDE DEF T
      <3>1. T \in SUBSET (0..N - 1) /\ N - 1 \in Nat  BY DEF T
      <3> QED  BY <2>1, <2>2, <3>1, UpTo
    <2>4. ASSUME NEW d \in 1..n, a.shape[d] > 1  PROVE a.strides[d] = Inner(a.shape, d)
      <3>1. Filled(a.shape)  BY FilledIs DEF Laid
      <3>2. PICK k : k = Inner(a.shape, d)  OBVIOUS
      <3>3. /\ k \in 0..N - 1
            /\ \A e \in 1..n : Position(a.shape, k)[e] = IF e = d THEN 1 ELSE 0
        BY <1>1, <1>2, <2>4, <3>1, <3>2, PositionOfStep
      <3>4. Cell(a, k) = a.offset + k
        <4>1. k \in T
          <5> HIDE DEF T
          <5> QED  BY <2>3, <3>3
        <4> QED  BY <4>1
      <3>5. PICK p : p = Position(a.shape, k)  OBVIOUS
      <3>6. Cell(a, k) = Reaches(a, p) /\ p \in Seq(Int) /\ Len(p) = n
        BY <1>1, <1>2, <3>3, <3>5, CellIs DEF Place
      <3>7. PICK m : m = Moves(a, p)  OBVIOUS
      <3>8. m \in Seq(Int) /\ Len(m) = n /\ \A e \in 1..n : m[e] = p[e] * a.strides[e]
        BY <1>1, <3>6, <3>7, MovesIs
      <3>9. \A e \in 1..n : a.strides[e] \in Int  BY <1>1 DEF Laid
      <3>10. ASSUME NEW e \in 1..n, e # d  PROVE m[e] = 0
        <4>1. PICK y \in Int : y = a.strides[e]  BY <3>9
        <4>2. 0 * y = 0  OBVIOUS
        <4> QED  BY <3>3, <3>5, <3>8, <3>10, <4>1, <4>2
      <3>11. m[d] = a.strides[d]
        <4>1. PICK y \in Int : y = a.strides[d]  BY <3>9
        <4>2. 1 * y = y  OBVIOUS
        <4> QED  BY <3>3, <3>5, <3>8, <4>1, <4>2
      <3>12. Total(m) = m[d]  BY <1>1, <3>8, <3>10, TotalUnit
      <3>13. k \in Int /\ a.strides[d] \in Int  BY <3>3, <3>9
      <3> QED  BY <1>4, <3>2, <3>4, <3>6, <3>7, <3>11, <3>12, <3>13 DEF Reaches
    <2> QED  BY <1>1, <2>4 DEF Compact
  <1> QED  BY <1>5, <1>6

\* An array without elements is contiguous.
LEMMA EmptyIsConsecutive ==
  ASSUME NEW a, Size(a.shape) = 0
  PROVE  Consecutive(a)
  BY DEF Consecutive

\* An array is C contiguous exactly when its elements are in consecutive cells.
LEMMA CContiguousIs ==
  ASSUME NEW a, Laid(a)
  PROVE  is_c_contiguous(a) <=> Consecutive(a)
  <1>1. CASE Size(a.shape) = 0  BY <1>1, EmptyIsConsecutive DEF is_c_contiguous
  <1>2. CASE Size(a.shape) # 0
    <2>1. DOMAIN a.shape = 1..Len(a.shape)  BY DEF Laid
    <2>2. is_c_contiguous(a) <=> Compact(a)  BY <1>2, <2>1 DEF is_c_contiguous, Compact, Inner
    <2> QED  BY <1>2, <2>2, ConsecutiveIs
  <1> QED  BY <1>1, <1>2

\* An array is F contiguous exactly when the elements of its transpose are in
\* consecutive cells.
LEMMA FContiguousIs ==
  ASSUME NEW a, Laid(a)
  PROVE  is_f_contiguous(a) <=> Consecutive(transpose(a))
  <1>1. PICK t : t = transpose(a)  OBVIOUS
  <1>2. Laid(t) /\ t.shape = Reversed(a.shape) /\ t.strides = Reversed(a.strides) /\ Size(t.shape) = Size(a.shape)
    BY <1>1, TransposeIs
  <1>3. CASE Size(a.shape) = 0  BY <1>1, <1>2, <1>3, EmptyIsConsecutive DEF is_f_contiguous
  <1>4. CASE Size(a.shape) # 0
    <2>1. PICK n \in Nat : n = Len(a.shape)  BY DEF Laid
    <2>2. DOMAIN a.shape = 1..n  BY <2>1 DEF Laid
    <2>3. /\ Len(t.shape) = n
          /\ \A i \in 1..n : t.shape[i] = a.shape[n + 1 - i]
          /\ \A i \in 1..n : t.strides[i] = a.strides[n + 1 - i]
      <3>1. a.shape \in Seq(Nat) /\ a.strides \in Seq(Int) /\ Len(a.strides) = n /\ Len(a.shape) = n
        BY <2>1 DEF Laid
      <3>2. Len(t.shape) = n /\ \A i \in 1..n : t.shape[i] = a.shape[n + 1 - i]  BY <1>2, <3>1, ReversedIs
      <3>3. \A i \in 1..n : t.strides[i] = a.strides[n + 1 - i]  BY <1>2, <3>1, ReversedIs
      <3> QED  BY <3>2, <3>3
    <2>4. ASSUME NEW i \in 1..n  PROVE Inner(t.shape, i) = Leading(a.shape, n - i)
      <3>1. n - i \in 0..n /\ n - (n - i) = i  OBVIOUS
      <3> QED  BY <1>2, <2>1, <3>1, InnerReversed DEF Laid
    <2>5. \A i \in 1..n : n + 1 - i \in 1..n /\ (n + 1 - i) - 1 = n - i /\ n + 1 - (n + 1 - i) = i  OBVIOUS
    <2>6. is_f_contiguous(a) <=> \A d \in 1..n : a.shape[d] > 1 => a.strides[d] = Leading(a.shape, d - 1)
      BY <1>4, <2>2 DEF is_f_contiguous, Leading
    <2>7. Compact(t) <=> \A i \in 1..n : t.shape[i] > 1 => t.strides[i] = Inner(t.shape, i)
      BY <2>3 DEF Compact
    <2>8. ASSUME is_f_contiguous(a), NEW i \in 1..n, t.shape[i] > 1
          PROVE  t.strides[i] = Inner(t.shape, i)
      <3>1. n + 1 - i \in 1..n /\ (n + 1 - i) - 1 = n - i  OBVIOUS
      <3>2. t.shape[i] = a.shape[n + 1 - i] /\ t.strides[i] = a.strides[n + 1 - i]  BY <2>3
      <3>3. a.strides[n + 1 - i] = Leading(a.shape, (n + 1 - i) - 1)  BY <2>6, <2>8, <3>1, <3>2
      <3> QED  BY <2>4, <3>1, <3>2, <3>3
    <2>9. ASSUME Compact(t), NEW d \in 1..n, a.shape[d] > 1
          PROVE  a.strides[d] = Leading(a.shape, d - 1)
      <3>1. PICK i \in 1..n : i = n + 1 - d /\ n + 1 - i = d /\ n - i = d - 1
        <4>1. n + 1 - d \in 1..n /\ n + 1 - (n + 1 - d) = d /\ n - (n + 1 - d) = d - 1  OBVIOUS
        <4> QED  BY <4>1
      <3>2. t.shape[i] = a.shape[d] /\ t.strides[i] = a.strides[d] /\ Inner(t.shape, i) = Leading(a.shape, d - 1)
        BY <2>3, <2>4, <3>1
      <3> QED  BY <2>7, <2>9, <3>2
    <2>10. is_f_contiguous(a) <=> Compact(t)  BY <2>6, <2>7, <2>8, <2>9
    <2> QED  BY <1>1, <1>2, <1>4, <2>10, ConsecutiveIs
  <1> QED  BY <1>3, <1>4

\* memory_extent is the span of the cells: both ends are cells, and all lie between.
LEMMA ExtentIs ==
  ASSUME NEW a, Laid(a), Size(a.shape) # 0
  PROVE  /\ memory_extent(a) = <<a.offset + Total(Lows(a)), a.offset + Total(Highs(a))>>
         /\ a.offset + Total(Lows(a)) \in Cells(a) /\ a.offset + Total(Highs(a)) \in Cells(a)
         /\ \A k \in 0..Size(a.shape) - 1 :
               /\ Cell(a, k) \in Int
               /\ a.offset + Total(Lows(a)) <= Cell(a, k) /\ Cell(a, k) <= a.offset + Total(Highs(a))
  <1>1. a.shape \in Seq(Nat) /\ a.strides \in Seq(Int) /\ Len(a.strides) = Len(a.shape) /\ a.offset \in Int
    BY DEF Laid
  <1>2. PICK n \in Nat : n = Len(a.shape)  BY <1>1
  <1>3. Filled(a.shape) /\ DOMAIN a.shape = 1..n  BY <1>1, <1>2, FilledIs
  <1>4. \A d \in 1..n : a.shape[d] \in Nat \ {0} /\ a.strides[d] \in Int  BY <1>1, <1>2, <1>3 DEF Filled
  <1>5. PICK lo, hi : lo = Lows(a) /\ hi = Highs(a)  OBVIOUS
  <1>6. /\ lo = [d \in 1..n |-> Min({a.strides[d] * (a.shape[d] - 1), 0})]
        /\ hi = [d \in 1..n |-> Max({a.strides[d] * (a.shape[d] - 1), 0})]
    BY <1>2, <1>5 DEF Lows, Highs
  <1>7. ASSUME NEW d \in 1..n, NEW p \in 0..a.shape[d] - 1
        PROVE  /\ lo[d] \in Int /\ hi[d] \in Int
               /\ lo[d] <= p * a.strides[d] /\ p * a.strides[d] <= hi[d]
               /\ lo[d] = (IF a.strides[d] < 0 THEN a.shape[d] - 1 ELSE 0) * a.strides[d]
               /\ hi[d] = (IF a.strides[d] < 0 THEN 0 ELSE a.shape[d] - 1) * a.strides[d]
    <2>1. PICK s \in Nat \ {0} : s = a.shape[d]  BY <1>4
    <2>2. PICK t \in Int : t = a.strides[d]  BY <1>4
    <2>3. lo[d] = Min({t * (s - 1), 0}) /\ hi[d] = Max({t * (s - 1), 0}) /\ p \in 0..s - 1
      BY <1>6, <2>1, <2>2
    <2> QED  BY <2>1, <2>2, <2>3, AxisReach
  <1>8. ASSUME NEW d \in 1..n  PROVE 0 \in 0..a.shape[d] - 1  BY <1>4
  <1>9. lo \in [1..n -> Int] /\ hi \in [1..n -> Int]  BY <1>6, <1>7, <1>8
  <1>10. lo \in Seq(Int) /\ Len(lo) = n /\ hi \in Seq(Int) /\ Len(hi) = n  BY <1>9
  <1>11. memory_extent(a) = <<a.offset + Total(lo), a.offset + Total(hi)>>
    <2>1. PICK reach : reach = [d \in DOMAIN a.shape |-> a.strides[d] * (a.shape[d] - 1)]  OBVIOUS
    <2>2. DOMAIN reach = 1..n /\ \A d \in 1..n : reach[d] = a.strides[d] * (a.shape[d] - 1)  BY <1>3, <2>1
    <2>3. [d \in DOMAIN reach |-> Min({reach[d], 0})] = lo /\ [d \in DOMAIN reach |-> Max({reach[d], 0})] = hi
      BY <1>6, <2>2
    <2>4. memory_extent(a) = <<a.offset + Total([d \in DOMAIN reach |-> Min({reach[d], 0})]),
                               a.offset + Total([d \in DOMAIN reach |-> Max({reach[d], 0})])>>
      BY <2>1 DEF memory_extent
    <2> QED  BY <2>3, <2>4
  <1>12. ASSUME NEW s \in Seq(Int), NEW p \in Seq(Int), Len(s) = n, Place(p, a.shape),
                \A d \in 1..n : s[d] = p[d] * a.strides[d]
         PROVE  a.offset + Total(s) \in Cells(a)
    <2>1. Len(p) = n  BY <1>2, <1>12 DEF Place
    <2>2. Reaches(a, p) = a.offset + Total(s)  BY <1>2, <1>12, <2>1, ReachesSum
    <2>3. PICK k \in 0..Size(a.shape) - 1 : Cell(a, k) = Reaches(a, p)  BY <1>12, PlaceHasNumber
    <2> QED  BY <2>2, <2>3 DEF Cells
  <1>13. a.offset + Total(lo) \in Cells(a)
    <2>1. PICK p : p = [d \in 1..n |-> IF a.strides[d] < 0 THEN a.shape[d] - 1 ELSE 0]  OBVIOUS
    <2>2. \A d \in 1..n : p[d] \in 0..a.shape[d] - 1 /\ p[d] \in Int  BY <1>4, <2>1
    <2>3. p \in [1..n -> Int]  BY <2>1, <2>2
    <2>4. p \in Seq(Int) /\ Len(p) = n  BY <2>3
    <2>5. Place(p, a.shape)  BY <1>2, <2>2, <2>4 DEF Place
    <2>6. \A d \in 1..n : lo[d] = p[d] * a.strides[d]  BY <1>7, <1>8, <2>1
    <2> QED  BY <1>10, <1>12, <2>4, <2>5, <2>6
  <1>14. a.offset + Total(hi) \in Cells(a)
    <2>1. PICK p : p = [d \in 1..n |-> IF a.strides[d] < 0 THEN 0 ELSE a.shape[d] - 1]  OBVIOUS
    <2>2. \A d \in 1..n : p[d] \in 0..a.shape[d] - 1 /\ p[d] \in Int  BY <1>4, <2>1
    <2>3. p \in [1..n -> Int]  BY <2>1, <2>2
    <2>4. p \in Seq(Int) /\ Len(p) = n  BY <2>3
    <2>5. Place(p, a.shape)  BY <1>2, <2>2, <2>4 DEF Place
    <2>6. \A d \in 1..n : hi[d] = p[d] * a.strides[d]  BY <1>7, <1>8, <2>1
    <2> QED  BY <1>10, <1>12, <2>4, <2>5, <2>6
  <1>15. ASSUME NEW k \in 0..Size(a.shape) - 1
         PROVE  /\ Cell(a, k) \in Int
                /\ a.offset + Total(lo) <= Cell(a, k) /\ Cell(a, k) <= a.offset + Total(hi)
    <2>1. PICK p : p = Position(a.shape, k)  OBVIOUS
    <2>2. Cell(a, k) = Reaches(a, p) /\ Cell(a, k) \in Int /\ Place(p, a.shape)  BY <2>1, CellIs
    <2>3. p \in Seq(Int) /\ Len(p) = n /\ \A d \in 1..n : p[d] \in 0..a.shape[d] - 1  BY <1>2, <2>2 DEF Place
    <2>4. PICK m : m = Moves(a, p)  OBVIOUS
    <2>5. m \in Seq(Int) /\ Len(m) = n /\ \A d \in 1..n : m[d] = p[d] * a.strides[d]
      BY <1>2, <2>3, <2>4, MovesIs
    <2>6. \A d \in 1..n : lo[d] <= m[d] /\ m[d] <= hi[d]  BY <1>7, <2>3, <2>5
    <2>7. Total(lo) <= Total(m)  BY <1>10, <2>5, <2>6, TotalGrows
    <2>8. Total(m) <= Total(hi)  BY <1>10, <2>5, <2>6, TotalGrows
    <2>9. Total(lo) \in Int /\ Total(m) \in Int /\ Total(hi) \in Int  BY <1>10, <2>5, TotalIsInt
    <2>10. Cell(a, k) = a.offset + Total(m)  BY <2>2, <2>4 DEF Reaches
    <2> QED  BY <1>1, <2>2, <2>7, <2>8, <2>9, <2>10
  <1> QED  BY <1>5, <1>11, <1>13, <1>14, <1>15

\* The invariants hold of an array that makes sense.
LEMMA LaidFlags ==
  ASSUME Laid(arr)
  PROVE  FlagsSayTheOrder
  BY CContiguousIs, FContiguousIs DEF FlagsSayTheOrder

\* ExtentIsTight of every array whose layout makes sense.
LEMMA LaidExtent ==
  ASSUME Laid(arr)
  PROVE  ExtentIsTight
  <1>1. CASE Size(arr.shape) = 0
    <2>1. Cells(arr) = {}  BY <1>1 DEF Cells
    <2>2. memory_extent(arr) = <<>>  BY <1>1 DEF memory_extent
    <2> QED  BY <2>1, <2>2 DEF ExtentIsTight
  <1>2. CASE Size(arr.shape) # 0
    <2>1. PICK l, h : l = arr.offset + Total(Lows(arr)) /\ h = arr.offset + Total(Highs(arr))  OBVIOUS
    <2>2. memory_extent(arr) = <<l, h>> /\ l \in Cells(arr) /\ h \in Cells(arr)  BY <1>2, <2>1, ExtentIs
    <2>3. \A k \in 0..Size(arr.shape) - 1 : Cell(arr, k) \in Int /\ l <= Cell(arr, k) /\ Cell(arr, k) <= h
      BY <1>2, <2>1, ExtentIs
    <2>4. \A c \in Cells(arr) : c \in Int /\ l <= c /\ c <= h  BY <2>3 DEF Cells
    <2>5. Cells(arr) \subseteq l..h  BY <2>2, <2>4
    <2>6. PICK e : e = memory_extent(arr)  OBVIOUS
    <2>7. e[1] = l /\ e[2] = h  BY <2>2, <2>6
    <2>8. Cells(arr) # {} /\ {e[1], e[2]} \subseteq Cells(arr) /\ Cells(arr) \subseteq e[1]..e[2]
      BY <2>2, <2>5, <2>7
    <2> QED  BY <2>6, <2>8 DEF ExtentIsTight
  <1> QED  BY <1>1, <1>2

----------------------------------------------------------------------------
(* Copies.                                                                    *)

\* to_contiguous gives a new array of the same shape.
LEMMA ToContiguousIs ==
  ASSUME NEW a, Laid(a)
  PROVE  /\ Good(to_contiguous(a)) /\ to_contiguous(a).shape = a.shape
         /\ to_contiguous(a).offset = 0
  <1>1. a.shape \in Seq(Nat) /\ a.strides \in Seq(Int) /\ Len(a.strides) = Len(a.shape)  BY DEF Laid
  <1>2. PICK n \in Nat : n = Len(a.shape)  BY <1>1
  <1>3. PICK buf, strides : buf = Gathered(a, a.shape, a.strides) /\ strides = c_strides(a.shape)  OBVIOUS
  <1>4. Fits(buf, a.shape)  BY <1>1, <1>3, GatheredIs
  <1>5. strides \in Seq(Int) /\ Len(strides) = Len(a.shape)  BY <1>1, <1>3, StridesAre
  <1>6. PICK b : b = Fresh(buf, a.shape, strides)  OBVIOUS
  <1>7. Laid(b) /\ b.buf = buf /\ b.shape = a.shape /\ b.strides = strides /\ b.offset = 0
    BY <1>1, <1>5, <1>6, FreshIs
  <1>8. PICK q : q = Identity(Len(a.shape))  OBVIOUS
  <1>9. Turns(q, Len(a.shape)) /\ \A i \in 1..n : q[i] = i  BY <1>2, <1>8, IdentityTurns
  <1>10. Permuted(a.shape, q) = a.shape  BY <1>1, <1>8, PermutedIdentity
  <1>11. ASSUME Size(b.shape) # 0, NEW i \in 1..Len(b.shape)
         PROVE  b.strides[q[i]] = Inner(Permuted(b.shape, q), i)
    <2>1. i \in 1..n /\ q[i] = i  BY <1>2, <1>7, <1>9
    <2>2. strides[i] = Inner(a.shape, i)  BY <1>1, <1>2, <1>3, <1>7, <1>11, <2>1, StridesAre
    <2> QED  BY <1>7, <1>10, <2>1, <2>2
  <1>12. Fits(b.buf, b.shape) /\ Turns(q, Len(b.shape))  BY <1>4, <1>7, <1>9
  <1>13. Good(b)  BY <1>7, <1>11, <1>12, DenseGood
  <1> QED  BY <1>3, <1>6, <1>7, <1>13 DEF to_contiguous

\* The parts of a good array.
LEMMA GoodIs ==
  ASSUME NEW a, Good(a)
  PROVE  /\ Laid(a) /\ Listed(a.buf) /\ a.shape \in Seq(Nat) /\ a.strides \in Seq(Int)
         /\ Len(a.strides) = Len(a.shape) /\ a.offset \in Int /\ Size(a.shape) \in Nat
  BY SizeIs DEF Good, Laid

\* Dense strides are the counts that a step passes over, axes permuted.
LEMMA DenseStridesIs ==
  ASSUME NEW shape \in Seq(Nat), NEW q, Turns(q, Len(shape))
  PROVE  /\ DenseStrides(shape, q) \in Seq(Int) /\ Len(DenseStrides(shape, q)) = Len(shape)
         /\ Size(shape) # 0 =>
              \A i \in 1..Len(shape) : DenseStrides(shape, q)[q[i]] = Inner(Permuted(shape, q), i)
  <1>1. PICK n \in Nat : n = Len(shape)  OBVIOUS
  <1>2. q \in [1..n -> 1..n] /\ \A i, j \in 1..n : q[i] = q[j] => i = j  BY <1>1 DEF Turns, Names
  <1>3. PICK p : p = Permuted(shape, q)  OBVIOUS
  <1>4. p \in Seq(Nat) /\ Len(p) = n /\ Size(p) = Size(shape)
    <2>1. Lists(q, n, n)  BY <1>1, TurnsNames
    <2> QED  BY <1>1, <1>3, <2>1, PermutedIs, PermutedSize
  <1>5. PICK w : w = c_strides(p)  OBVIOUS
  <1>6. w \in Seq(Int) /\ Len(w) = n  BY <1>4, <1>5, StridesAre
  <1>7. Size(p) # 0 => \A i \in 1..n : w[i] = Inner(p, i)  BY <1>4, <1>5, StridesAre
  <1>8. \A d \in 1..n : \E i \in 1..n : q[i] = d  BY <1>1, TurnsAll
  <1> DEFINE Holder(d) == CHOOSE i \in DOMAIN q : q[i] = d
  <1>9. \A d \in 1..n : Holder(d) \in 1..n /\ q[Holder(d)] = d  BY <1>2, <1>8
  <1> HIDE DEF Holder
  <1>10. \A d \in 1..n : w[Holder(d)] \in Int  BY <1>6, <1>9
  <1>11. PICK f : f = [d \in 1..n |-> w[Holder(d)]]  OBVIOUS
  <1>12. f \in [1..n -> Int]  BY <1>10, <1>11
  <1>13. f \in Seq(Int) /\ Len(f) = n  BY <1>12
  <1>14. DenseStrides(shape, q) = f
    <2>1. DOMAIN shape = 1..n  BY <1>1
    <2> QED  BY <1>3, <1>5, <1>11, <2>1 DEF DenseStrides, Holder
  <1>15. ASSUME Size(shape) # 0, NEW i \in 1..n
         PROVE  f[q[i]] = Inner(p, i)
    <2>1. q[i] \in 1..n  BY <1>2
    <2>2. Holder(q[i]) = i  BY <1>2, <1>9, <2>1
    <2>3. w[i] = Inner(p, i)  BY <1>4, <1>7, <1>15
    <2> QED  BY <1>11, <2>1, <2>2, <2>3
  <1> QED  BY <1>1, <1>3, <1>13, <1>14, <1>15

\* relayout_by_perm gives a new array of the same shape.
LEMMA RelayoutIs ==
  ASSUME NEW a, Laid(a), NEW q, Turns(q, Len(a.shape))
  PROVE  Good(relayout_by_perm(a, q)) /\ relayout_by_perm(a, q).shape = a.shape
  <1>1. a.shape \in Seq(Nat) /\ a.strides \in Seq(Int) /\ Len(a.strides) = Len(a.shape)  BY DEF Laid
  <1>2. PICK n \in Nat : n = Len(a.shape)  BY <1>1
  <1>3. Lists(q, n, n)  BY <1>2, TurnsNames
  <1>4. PICK s, t : s = Permuted(a.shape, q) /\ t = Permuted(a.strides, q)  OBVIOUS
  <1>5. s \in Seq(Nat) /\ Len(s) = n  BY <1>1, <1>2, <1>3, <1>4, PermutedIs
  <1>6. t \in Seq(Int) /\ Len(t) = n  BY <1>1, <1>2, <1>3, <1>4, PermutedIs
  <1>7. PICK buf : buf = Gathered(a, s, t)  OBVIOUS
  <1>8. Fits(buf, s)  BY <1>5, <1>6, <1>7, GatheredIs
  <1>9. Size(s) = Size(a.shape)  BY <1>1, <1>4, PermutedSize
  <1>10. Fits(buf, a.shape)  BY <1>8, <1>9 DEF Fits
  <1>11. PICK w : w = (IF Size(a.shape) = 0 THEN Zeros(a.shape) ELSE DenseStrides(a.shape, q))  OBVIOUS
  <1>12. w \in Seq(Int) /\ Len(w) = Len(a.shape)  BY <1>1, <1>11, StridesAre, DenseStridesIs
  <1>13. Size(a.shape) # 0 => \A i \in 1..Len(a.shape) : w[q[i]] = Inner(s, i)
    BY <1>1, <1>4, <1>11, DenseStridesIs
  <1>14. PICK b : b = Fresh(buf, a.shape, w)  OBVIOUS
  <1>15. Laid(b) /\ b.buf = buf /\ b.shape = a.shape /\ b.strides = w /\ b.offset = 0
    BY <1>1, <1>12, <1>14, FreshIs
  <1>16. Fits(b.buf, b.shape) /\ Turns(q, Len(b.shape))  BY <1>10, <1>15
  <1>17. Size(b.shape) # 0 =>
           \A i \in 1..Len(b.shape) : b.strides[q[i]] = Inner(Permuted(b.shape, q), i)
    BY <1>4, <1>13, <1>15
  <1>18. Good(b)  BY <1>15, <1>16, <1>17, DenseGood
  <1>19. relayout_by_perm(a, q) = b  BY <1>4, <1>7, <1>11, <1>14 DEF relayout_by_perm, gather_by_perm
  <1> QED  BY <1>15, <1>18, <1>19

\* A list of all of 1..n once is an order of the axes.
LEMMA ListsAllTurns ==
  ASSUME NEW n \in Nat, NEW q, ListsAll(q, 1..n)
  PROVE  Turns(q, n)
  <1>1. Cardinality(1..n) = n  BY FS_Interval
  <1>2. q = [k \in 1..n |-> q[k]] /\ (\A i \in 1..n : q[i] \in 1..n)
        /\ \A i, j \in 1..n : q[i] = q[j] => i = j
    BY <1>1 DEF ListsAll
  <1>3. q \in [1..n -> 1..n]  BY <1>2
  <1> QED  BY <1>2, <1>3 DEF Turns, Names

\* An interval of axes is a finite set.
LEMMA IntervalFinite ==
  ASSUME NEW n \in Nat
  PROVE  IsFiniteSet(1..n) /\ (1..n) \in SUBSET Int /\ Cardinality(1..n) = n
  BY FS_Interval

\* AxesByStride is a permutation of the axes.
LEMMA ByStrideTurns ==
  ASSUME NEW strides \in Seq(Int)
  PROVE  Turns(AxesByStride(strides), Len(strides))
  <1>1. PICK n \in Nat : n = Len(strides)  OBVIOUS
  <1>2. PICK S : S = 1..n  OBVIOUS
  <1>3. IsFiniteSet(S) /\ S \in SUBSET Int  BY <1>2, IntervalFinite
  <1>4. \A d \in S : strides[d] \in Int  BY <1>1, <1>2
  <1>5. ListsAll(SlowestFirst(strides, S), S)  BY <1>3, <1>4, SlowestFirstIs
  <1>6. DOMAIN strides = S  BY <1>1, <1>2
  <1>7. PICK q : q = AxesByStride(strides)  OBVIOUS
  <1>8. ListsAll(q, 1..n)  BY <1>2, <1>5, <1>6, <1>7 DEF AxesByStride
  <1>9. Turns(q, n)  BY <1>8, ListsAllTurns
  <1> QED  BY <1>1, <1>7, <1>9

\* axis_perm_for_order is a permutation of the axes.
LEMMA AxisPermIs ==
  ASSUME NEW a, Laid(a), NEW order \in {"C", "F", "A", "K"}
  PROVE  Turns(axis_perm_for_order(a, order), Len(a.shape))
  <1>1. PICK n \in Nat : n = Len(a.shape) /\ n = Len(a.strides)  BY DEF Laid
  <1>2. Turns(Identity(n), n) /\ Turns(Reversal(n), n)  BY IdentityTurns
  <1>3. Turns(AxesByStride(a.strides), n)  BY <1>1, ByStrideTurns DEF Laid
  <1> QED  BY <1>1, <1>2, <1>3 DEF axis_perm_for_order

\* to_contiguous_order gives a new array of the same shape.
LEMMA CopyIs ==
  ASSUME NEW a, Laid(a), NEW order \in {"C", "F", "A", "K"}
  PROVE  Good(to_contiguous_order(a, order)) /\ to_contiguous_order(a, order).shape = a.shape
  BY AxisPermIs, RelayoutIs DEF to_contiguous_order

\* ravel_order gives a vector of all elements.
LEMMA RavelIs ==
  ASSUME NEW a, Laid(a), NEW order \in {"C", "F", "A", "K"}
  PROVE  Good(ravel_order(a, order)) /\ ravel_order(a, order).shape = <<Size(a.shape)>>
  <1>1. a.shape \in Seq(Nat) /\ a.strides \in Seq(Int) /\ Len(a.strides) = Len(a.shape)  BY DEF Laid
  <1>2. PICK n, N \in Nat : n = Len(a.shape) /\ N = Size(a.shape)  BY <1>1, SizeIs
  <1>3. PICK q : q = axis_perm_for_order(a, order)  OBVIOUS
  <1>4. Turns(q, n)  BY <1>2, <1>3, AxisPermIs
  <1>5. Lists(q, n, n)  BY <1>4, TurnsNames
  <1>6. PICK s, t : s = Permuted(a.shape, q) /\ t = Permuted(a.strides, q)  OBVIOUS
  <1>7. s \in Seq(Nat) /\ Len(s) = n  BY <1>1, <1>2, <1>5, <1>6, PermutedIs
  <1>8. t \in Seq(Int) /\ Len(t) = n  BY <1>1, <1>2, <1>5, <1>6, PermutedIs
  <1>9. PICK buf : buf = Gathered(a, s, t)  OBVIOUS
  <1>10. Fits(buf, s)  BY <1>7, <1>8, <1>9, GatheredIs
  <1>11. Size(s) = N  BY <1>1, <1>2, <1>4, <1>6, PermutedSize
  <1>12. PICK shape, w : shape = <<N>> /\ w = (IF N = 0 THEN <<0>> ELSE <<1>>)  OBVIOUS
  <1>13. shape \in Seq(Nat) /\ Len(shape) = 1 /\ shape[1] = N /\ w \in Seq(Int) /\ Len(w) = 1
         /\ (N # 0 => w[1] = 1)
    BY <1>12
  <1>14. Size(shape) = N  BY <1>12, SizeOne
  <1>15. Fits(buf, shape)  BY <1>10, <1>11, <1>14 DEF Fits
  <1>16. PICK b : b = Fresh(buf, shape, w)  OBVIOUS
  <1>17. Laid(b) /\ b.buf = buf /\ b.shape = shape /\ b.strides = w /\ b.offset = 0  BY <1>13, <1>16, FreshIs
  <1>18. PICK i1 : i1 = Identity(1)  OBVIOUS
  <1>19. Turns(i1, Len(b.shape)) /\ i1[1] = 1 /\ Permuted(shape, i1) = shape
    <2>1. Len(b.shape) = 1 /\ 1 \in Nat /\ 1 \in 1..1  BY <1>13, <1>17
    <2>2. Turns(i1, 1) /\ i1[1] = 1  BY <1>18, <2>1, IdentityTurns
    <2>3. Permuted(shape, i1) = shape  BY <1>13, <1>18, PermutedIdentity
    <2> QED  BY <2>1, <2>2, <2>3
  <1>20. Inner(shape, 1) = 1  BY <1>13, InnerIs
  <1>21. Size(b.shape) # 0 =>
           \A i \in 1..Len(b.shape) : b.strides[i1[i]] = Inner(Permuted(b.shape, i1), i)
    <2>1. ASSUME Size(b.shape) # 0, NEW i \in 1..Len(b.shape)
          PROVE  b.strides[i1[i]] = Inner(Permuted(b.shape, i1), i)
      <3>0. Len(b.shape) = 1  BY <1>13, <1>17
      <3>1. i = 1  BY <3>0
      <3>2. w[1] = 1  BY <1>13, <1>14, <1>17, <2>1
      <3> QED  BY <1>17, <1>19, <1>20, <3>1, <3>2
    <2> QED  BY <2>1
  <1>22. Fits(b.buf, b.shape)  BY <1>15, <1>17
  <1>23. Good(b)  BY <1>17, <1>19, <1>21, <1>22, DenseGood
  <1>24. ravel_order(a, order) = b  BY <1>2, <1>3, <1>6, <1>9, <1>12, <1>16 DEF ravel_order, gather_by_perm
  <1> QED  BY <1>2, <1>12, <1>17, <1>23, <1>24

----------------------------------------------------------------------------
(* Views of some of the axes, in some order.                                  *)

\* transpose_axes picks shape and strides together.
LEMMA TransposeAxesIs ==
  ASSUME NEW a, Laid(a), NEW m \in Nat, NEW n \in Nat, Len(a.shape) = n, NEW q, Lists(q, m, n)
  PROVE  /\ Laid(transpose_axes(a, q)) /\ transpose_axes(a, q).buf = a.buf
         /\ transpose_axes(a, q).offset = a.offset
         /\ transpose_axes(a, q).shape \in Seq(Nat) /\ Len(transpose_axes(a, q).shape) = m
         /\ Picked(transpose_axes(a, q).shape, a.shape, q, m)
         /\ transpose_axes(a, q).strides \in Seq(Int) /\ Len(transpose_axes(a, q).strides) = m
         /\ Picked(transpose_axes(a, q).strides, a.strides, q, m)
  <1>1. a.shape \in Seq(Nat) /\ a.strides \in Seq(Int) /\ Len(a.strides) = n /\ a.offset \in Int  BY DEF Laid
  <1>2. PICK s, t, o : s = Permuted(a.shape, q) /\ t = Permuted(a.strides, q) /\ o = a.offset  OBVIOUS
  <1>3. s \in Seq(Nat) /\ Len(s) = m /\ Picked(s, a.shape, q, m)  BY <1>1, <1>2, PermutedIs
  <1>4. t \in Seq(Int) /\ Len(t) = m /\ Picked(t, a.strides, q, m)  BY <1>1, <1>2, PermutedIs
  <1>10. o \in Int /\ Len(t) = Len(s)  BY <1>1, <1>2, <1>3, <1>4
  <1>5. PICK b : b = View(a, s, t, o)  OBVIOUS
  <1>11. s \in Seq(Nat) /\ t \in Seq(Int) /\ Len(t) = Len(s) /\ o \in Int  BY <1>3, <1>4, <1>10
  <1>6. Laid(b) /\ b.buf = a.buf /\ b.shape = s /\ b.strides = t /\ b.offset = o
    <2>1. s \in Seq(Nat)  BY <1>11
    <2>2. t \in Seq(Int)  BY <1>11
    <2>3. Len(t) = Len(s)  BY <1>11
    <2>4. o \in Int  BY <1>11
    <2>5. /\ Laid(View(a, s, t, o)) /\ View(a, s, t, o).buf = a.buf /\ View(a, s, t, o).shape = s
          /\ View(a, s, t, o).strides = t /\ View(a, s, t, o).offset = o
      BY <2>1, <2>2, <2>3, <2>4 DEF View, Laid
    <2> QED  BY <1>5, <2>5
  <1>7. transpose_axes(a, q) = b  BY <1>2, <1>5 DEF transpose_axes
  <1> QED  BY <1>2, <1>3, <1>4, <1>6, <1>7

\* Without some axes of length one.
Leaves(q, m, n, gone) ==
    /\ Names(q, m, n) /\ m = Cardinality((1..n) \ gone) /\ q \in Seq(1..n) /\ Len(q) = m
    /\ \A d \in 1..n : d \notin gone => \E i \in 1..m : q[i] = d
    /\ \A i \in 1..m : q[i] \notin gone

\* A function on 1..m is a sequence.
LEMMA Enlisted ==
  ASSUME NEW V, NEW m \in Nat, NEW q \in [1..m -> V]
  PROVE  q \in Seq(V) /\ Len(q) = m /\ DOMAIN q = 1..m
  OBVIOUS

\* The axes that are left are named once each.
LEMMA WithoutNames ==
  ASSUME NEW n \in Nat, NEW gone, NEW q, q = Ascending((1..n) \ gone)
  PROVE  \E m \in Nat : Leaves(q, m, n, gone)
  <1>1. PICK S : S = (1..n) \ gone  OBVIOUS
  <1>2. IsFiniteSet(S) /\ S \in SUBSET Int
    <2>1. IsFiniteSet(1..n) /\ S \in SUBSET (1..n) /\ S \in SUBSET Int  BY <1>1, IntervalFinite
    <2> QED  BY <2>1, FS_Subset
  <1>3. PICK m : q = Ascending(S) /\ m = Cardinality(S)  BY <1>1
  <1>4. ListsAll(q, S) /\ m \in Nat  BY <1>2, <1>3, AscendingIs
  <1>5. q = [k \in 1..m |-> q[k]] /\ (\A i \in 1..m : q[i] \in S)
        /\ (\A i, j \in 1..m : q[i] = q[j] => i = j) /\ (\A x \in S : \E i \in 1..m : q[i] = x)
    BY <1>3, <1>4 DEF ListsAll
  <1>6. q \in [1..m -> 1..n]  BY <1>1, <1>5
  <1>7. Names(q, m, n)  BY <1>5, <1>6 DEF Names
  <1>8. m \in Nat  BY <1>4
  <1>9. q \in Seq(1..n) /\ Len(q) = m
    <2>1. PICK V : V = 1..n  OBVIOUS
    <2>2. q \in [1..m -> V]  BY <1>6, <2>1
    <2>3. q \in Seq(V) /\ Len(q) = m  BY <1>8, <2>2, Enlisted
    <2> QED  BY <2>1, <2>3
  <1>10. Leaves(q, m, n, gone)  BY <1>1, <1>3, <1>5, <1>7, <1>9 DEF Leaves
  <1> QED  BY <1>8, <1>10

----------------------------------------------------------------------------
(* New axes.                                                                  *)

\* q lists the places among 1..N that `at` leaves to n axes.
Gaps(at, n, N, q) ==
    /\ at \in SUBSET (Nat \ {0}) /\ IsFiniteSet(at) /\ n \in Nat /\ N \in Nat
    /\ N = n + Cardinality(at) /\ (\A d \in at : d <= N) /\ q = Ascending((1..N) \ at)

\* r is old at the places q, and fill elsewhere.
Filling(r, old, fill, q, n, N) ==
    Names(q, n, N) /\ Picked(old, r, q, n) /\ Missed(r, q, n, N, fill)

\* Inserting fills the gaps and keeps the rest in order.
LEMMA InsertedIs ==
  ASSUME NEW V, NEW old \in Seq(V), NEW fill \in V, NEW at, NEW n, NEW N, NEW q,
         Gaps(at, n, N, q), n = Len(old)
  PROVE  /\ Inserted(old, at, fill) \in Seq(V) /\ Len(Inserted(old, at, fill)) = N
         /\ Filling(Inserted(old, at, fill), old, fill, q, n, N)
  <1>0. /\ at \in SUBSET (Nat \ {0}) /\ IsFiniteSet(at) /\ n \in Nat /\ N \in Nat
        /\ N = n + Cardinality(at) /\ (\A d \in at : d <= N) /\ q = Ascending((1..N) \ at)
    BY DEF Gaps
  <1> USE <1>0
  <1>1. PICK S : S = (1..N) \ at  OBVIOUS
  <1>2. PICK c \in Nat : c = Cardinality(at)  BY FS_CardinalityType
  <1>3. at \subseteq 1..N /\ IsFiniteSet(1..N) /\ Cardinality(1..N) = N
    <2>1. \A d \in at : d \in 1..N  OBVIOUS
    <2> QED  BY <2>1, IntervalFinite
  <1>4. IsFiniteSet(S) /\ Cardinality(S) = n /\ S \in SUBSET Int
    <2>1. (1..N) \cap at = at  BY <1>3
    <2>2. IsFiniteSet((1..N) \ at) /\ Cardinality((1..N) \ at) = Cardinality(1..N) - Cardinality((1..N) \cap at)
      BY <1>3, FS_Difference
    <2>3. Cardinality(S) = N - c  BY <1>1, <1>2, <1>3, <2>1, <2>2
    <2>4. N = n + c  BY <1>2
    <2>5. S \in SUBSET Int  BY <1>1
    <2> QED  BY <1>1, <2>2, <2>3, <2>4, <2>5
  <1>5. Leaves(q, n, N, at)
    <2>1. PICK m \in Nat : Leaves(q, m, N, at)  BY WithoutNames
    <2>2. m = n  BY <1>1, <1>4, <2>1 DEF Leaves
    <2> QED  BY <2>1, <2>2
  <1>6. Names(q, n, N) /\ (\A d \in 1..N : d \notin at => \E i \in 1..n : q[i] = d)
        /\ \A i \in 1..n : q[i] \in 1..N /\ q[i] \notin at
    BY <1>5 DEF Leaves, Names
  <1>7. \A i \in 1..n : Cardinality({y \in S : y < q[i]}) = i - 1
    <2>1. q = Ascending(S)  BY <1>1
    <2> QED  BY <1>4, <2>1, AscendingIs
  <1>8. \A i \in 1..n : Cardinality({e \in at : e < q[i]}) = q[i] - i
    <2> TAKE i \in 1..n
    <2>1. PICK d \in 1..N : d = q[i]  BY <1>6
    <2>2. PICK A, B : A = {e \in at : e < d} /\ B = {y \in S : y < d}  OBVIOUS
    <2>3. IsFiniteSet(1..d - 1) /\ Cardinality(1..d - 1) = d - 1
      <3>1. d - 1 \in Nat  BY <2>1
      <3> QED  BY <3>1, IntervalFinite
    <2>4. B = (1..d - 1) \ A  BY <1>1, <1>3, <2>1, <2>2
    <2>5. (1..d - 1) \cap A = A
      <3>1. \A e \in A : e \in 1..d - 1
        <4> TAKE e \in A
        <4>1. e \in Nat \ {0} /\ e < d  BY <2>2
        <4> QED  BY <2>1, <4>1
      <3> QED  BY <3>1
    <2>6. Cardinality(B) = Cardinality(1..d - 1) - Cardinality(A)  BY <2>3, <2>4, <2>5, FS_Difference
    <2>7. Cardinality(A) \in Nat
      <3>1. A \in SUBSET at  BY <2>2
      <3>2. IsFiniteSet(A)  BY <3>1, FS_Subset
      <3> QED  BY <3>2, FS_CardinalityType
    <2>8. Cardinality(B) = i - 1  BY <1>7, <2>1, <2>2
    <2>9. d - 1 - Cardinality(A) = i - 1  BY <2>3, <2>6, <2>8
    <2>10. Cardinality(A) = d - i  BY <2>1, <2>7, <2>9
    <2> QED  BY <2>1, <2>2, <2>10
  <1> DEFINE From(d) == d - Cardinality({e \in at : e < d})
  <1>9. \A i \in 1..n : From(q[i]) = i
    <2> TAKE i \in 1..n
    <2>1. PICK d \in 1..N : d = q[i]  BY <1>6
    <2>4. Cardinality({e \in at : e < d}) = d - i  BY <1>8, <2>1
    <2>2. From(d) = d - (d - i)  BY <2>4
    <2>3. d - (d - i) = i  BY <2>1
    <2> QED  BY <2>1, <2>2, <2>3
  <1> HIDE DEF From
  <1>10. PICK f : f = [d \in 1..N |-> IF d \in at THEN fill ELSE old[From(d)]]  OBVIOUS
  <1>11. \A d \in 1..N : f[d] \in V
    <2> TAKE d \in 1..N
    <2>1. CASE d \in at  BY <1>10, <2>1
    <2>2. CASE d \notin at
      <3>1. PICK i \in 1..n : q[i] = d  BY <1>6, <2>2
      <3>2. f[d] = old[i]  BY <1>9, <1>10, <2>2, <3>1
      <3>3. old[i] \in V  BY <3>1
      <3> QED  BY <3>2, <3>3
    <2> QED  BY <2>1, <2>2
  <1>12. f \in [1..N -> V]  BY <1>10, <1>11
  <1>13. f \in Seq(V) /\ Len(f) = N  BY <1>12, Enlisted
  <1>14. Inserted(old, at, fill) = f  BY <1>10 DEF Inserted, From
  <1>15. Picked(old, f, q, n)
    <2> SUFFICES ASSUME NEW i \in 1..n  PROVE old[i] = f[q[i]]  BY DEF Picked
    <2>1. q[i] \in 1..N /\ q[i] \notin at /\ From(q[i]) = i  BY <1>6, <1>9
    <2> QED  BY <1>10, <2>1
  <1>16. Missed(f, q, n, N, fill)  BY <1>6, <1>10 DEF Missed
  <1> QED  BY <1>6, <1>13, <1>14, <1>15, <1>16 DEF Filling

\* What insert_newaxis and expand_dims are given.
Fresher(at) == at \in SUBSET (Nat \ {0}) /\ IsFiniteSet(at)

\* An operation raises or returns an array whose layout makes sense.
Sound(r) == r = Raised \/ Laid(r)

\* The parts of an array whose layout makes sense.
LEMMA LaidIs ==
  ASSUME NEW a, Laid(a)
  PROVE  /\ a.shape \in Seq(Nat) /\ a.strides \in Seq(Int) /\ Len(a.strides) = Len(a.shape)
         /\ a.offset \in Int /\ Len(a.shape) \in Nat /\ Size(a.shape) \in Nat
         /\ DOMAIN a.shape = 1..Len(a.shape) /\ DOMAIN a.strides = 1..Len(a.shape)
  BY SizeIs DEF Laid

\* What View and Fresh make of a shape and its strides.
Spans(shape, strides) == shape \in Seq(Nat) /\ strides \in Seq(Int) /\ Len(strides) = Len(shape)

\* A view with a stride for each of its axes.
LEMMA WindowLaid ==
  ASSUME NEW a, NEW shape, NEW strides, Spans(shape, strides), NEW offset \in Int
  PROVE  Laid(View(a, shape, strides, offset)) /\ View(a, shape, strides, offset).shape = shape
  BY DEF Laid, View, Spans

\* A new array with a stride for each of its axes.
LEMMA FreshLaid ==
  ASSUME NEW buf, NEW shape, NEW strides, Spans(shape, strides)
  PROVE  Laid(Fresh(buf, shape, strides)) /\ Fresh(buf, shape, strides).shape = shape
  BY DEF Laid, Fresh, Spans

\* C, F and zero strides have one stride for each axis.
LEMMA StridesSpan ==
  ASSUME NEW shape \in Seq(Nat)
  PROVE  Spans(shape, c_strides(shape)) /\ Spans(shape, f_strides(shape)) /\ Spans(shape, Zeros(shape))
  BY StridesAre DEF Spans

\* from_buffer, in either order.
LEMMA FromBufferLaid ==
  ASSUME NEW buf, NEW shape \in Seq(Nat), NEW order
  PROVE  Laid(from_buffer(buf, shape, order)) /\ from_buffer(buf, shape, order).shape = shape
  <1>1. PICK strides : strides = (IF Size(shape) = 0 THEN Zeros(shape)
                                  ELSE IF order = "C" THEN c_strides(shape) ELSE f_strides(shape))
    OBVIOUS
  <1>2. Spans(shape, strides)  BY <1>1, StridesSpan
  <1>3. from_buffer(buf, shape, order) = Fresh(buf, shape, strides)  BY <1>1 DEF from_buffer
  <1> QED  BY <1>2, <1>3, FreshLaid

\* A copy has the shape of what it copies.
LEMMA ContigLaid ==
  ASSUME NEW a, Laid(a)
  PROVE  Laid(to_contiguous(a)) /\ to_contiguous(a).shape = a.shape
  BY ToContiguousIs, GoodIs

\* Copies and ravels, in every order.
LEMMA CopyLaid ==
  ASSUME NEW a, Laid(a), NEW order \in {"C", "F", "A", "K"}
  PROVE  /\ Laid(to_contiguous_order(a, order)) /\ to_contiguous_order(a, order).shape = a.shape
         /\ Laid(ravel_order(a, order)) /\ ravel_order(a, order).shape = <<Size(a.shape)>>
  BY CopyIs, RavelIs, GoodIs

\* zero_strides.
LEMMA ZeroStridesLaid ==
  ASSUME NEW a, Laid(a)
  PROVE  Laid(zero_strides(a)) /\ zero_strides(a).shape = a.shape
  <1>1. a.shape \in Seq(Nat) /\ a.offset \in Int  BY LaidIs
  <1>2. a = [buf |-> a.buf, shape |-> a.shape, strides |-> a.strides, offset |-> a.offset, fresh |-> a.fresh]
    BY DEF Laid
  <1>3. PICK z : z = Zeros(a.shape)  OBVIOUS
  <1>4. z \in Seq(Int) /\ Len(z) = Len(a.shape)  BY <1>1, <1>3, StridesAre
  <1>5. zero_strides(a) = [buf |-> a.buf, shape |-> a.shape, strides |-> z, offset |-> a.offset, fresh |-> a.fresh]
    BY <1>2, <1>3 DEF zero_strides
  <1> QED  BY <1>1, <1>4, <1>5 DEF Laid

(* Views.                                                                     *)

\* transpose_axes, for any list of axes.
LEMMA TransposeLaid ==
  ASSUME NEW a, Laid(a), NEW m \in Nat, NEW q, Lists(q, m, Len(a.shape))
  PROVE  Laid(transpose_axes(a, q)) /\ Len(transpose_axes(a, q).shape) = m
  <1>1. PICK n \in Nat : n = Len(a.shape)  BY LaidIs
  <1>2. Lists(q, m, n)  BY <1>1
  <1>3. Len(a.shape) = n  BY <1>1
  <1> QED  BY <1>2, <1>3, TransposeAxesIs

\* swapaxes.
LEMMA SwapAxesLaid ==
  ASSUME NEW a, Laid(a), NEW d \in DOMAIN a.shape, NEW e \in DOMAIN a.shape
  PROVE  Laid(swapaxes(a, d, e)) /\ Len(swapaxes(a, d, e).shape) = Len(a.shape)
  <1>1. PICK n \in Nat : n = Len(a.shape) /\ DOMAIN a.shape = 1..n  BY LaidIs
  <1>2. PICK q : q = [Identity(Len(a.shape)) EXCEPT ![d] = e, ![e] = d]  OBVIOUS
  <1>3. q \in [1..n -> 1..n]  BY <1>1, <1>2 DEF Identity
  <1>4. Lists(q, n, Len(a.shape))  BY <1>1, <1>3 DEF Lists
  <1>5. swapaxes(a, d, e) = transpose_axes(a, q)  BY <1>2 DEF swapaxes
  <1> QED  BY <1>1, <1>4, <1>5, TransposeLaid

\* Some axes left out.
LEMMA WithoutIs ==
  ASSUME NEW V, NEW s \in Seq(V), NEW gone
  PROVE  /\ Without(s, gone) \in Seq(V) /\ Len(Without(s, gone)) = Cardinality((1..Len(s)) \ gone)
         /\ Len(Without(s, gone)) \in Nat
  <1>1. PICK n \in Nat : n = Len(s) /\ DOMAIN s = 1..n  OBVIOUS
  <1>2. PICK q : q = Ascending((1..n) \ gone)  OBVIOUS
  <1>3. PICK m \in Nat : Leaves(q, m, n, gone)  BY <1>2, WithoutNames
  <1>4. Lists(q, m, n) /\ m = Cardinality((1..n) \ gone)  BY <1>3, NamesLists DEF Leaves
  <1>5. Without(s, gone) = Permuted(s, q)  BY <1>1, <1>2 DEF Without
  <1>6. Permuted(s, q) \in Seq(V) /\ Len(Permuted(s, q)) = m  BY <1>1, <1>4, PermutedIs
  <1> QED  BY <1>1, <1>4, <1>5, <1>6

\* squeeze, also when it raises.
LEMMA SqueezeLaid ==
  ASSUME NEW a, Laid(a), NEW axes
  PROVE  Sound(squeeze(a, axes))
  <1>1. a.shape \in Seq(Nat) /\ a.strides \in Seq(Int) /\ Len(a.strides) = Len(a.shape) /\ a.offset \in Int
    BY LaidIs
  <1>2. PICK gone : gone = (IF axes = None THEN {d \in DOMAIN a.shape : a.shape[d] = 1} ELSE axes)  OBVIOUS
  <1>3. PICK s, t : s = Without(a.shape, gone) /\ t = Without(a.strides, gone)  OBVIOUS
  <1>4. s \in Seq(Nat) /\ t \in Seq(Int) /\ Len(s) = Len(t)  BY <1>1, <1>3, WithoutIs
  <1>5. Laid(View(a, s, t, a.offset))  BY <1>1, <1>4, WindowLaid DEF Spans
  <1> QED  BY <1>2, <1>3, <1>5 DEF squeeze, Sound

\* New axes of length one.
LEMMA NewAxisLaid ==
  ASSUME NEW a, Laid(a), NEW at, Fresher(at)
  PROVE  /\ Sound(insert_newaxis(a, at))
         /\ (\A d \in at : d <= Len(a.shape) + Cardinality(at)) =>
               /\ Laid(insert_newaxis(a, at)) /\ Inserted(a.shape, at, 1) \in Seq(Nat)
               /\ insert_newaxis(a, at).shape = Inserted(a.shape, at, 1)
               /\ Len(Inserted(a.shape, at, 1)) = Len(a.shape) + Cardinality(at)
  <1>1. PICK n, c \in Nat : n = Len(a.shape) /\ c = Cardinality(at)  BY LaidIs, FS_CardinalityType DEF Fresher
  <1>2. PICK N \in Nat : N = n + Cardinality(at)  BY <1>1
  <1>3. a.shape \in Seq(Nat) /\ a.strides \in Seq(Int) /\ Len(a.strides) = n /\ a.offset \in Int
    BY <1>1, LaidIs
  <1>4. CASE \E d \in at : d > N
    <2>1. insert_newaxis(a, at) = Raised /\ ~\A d \in at : d <= N
      BY <1>1, <1>2, <1>4 DEF insert_newaxis, Fresher
    <2> QED  BY <1>1, <1>2, <2>1 DEF Sound
  <1>5. CASE ~\E d \in at : d > N
    <2>1. \A d \in at : d <= N  BY <1>5 DEF Fresher
    <2>2. PICK q : q = Ascending((1..N) \ at)  OBVIOUS
    <2>3. Gaps(at, n, N, q)  BY <1>2, <2>1, <2>2 DEF Gaps, Fresher

    <2>12. a.shape \in Seq(Nat)  BY <1>3
    <2>13. a.strides \in Seq(Int)  BY <1>3
    <2>14. n = Len(a.strides)  BY <1>3
    <2>15. n = Len(a.shape)  BY <1>1
    <2>5. PICK s, t : s = Inserted(a.shape, at, 1) /\ t = Inserted(a.strides, at, 0)  OBVIOUS
    <2>6. s \in Seq(Nat) /\ Len(s) = N
      <3>1. PICK V, one : V = Nat /\ one = 1  OBVIOUS
      <3>2. one \in V  BY <3>1
      <3>3. a.shape \in Seq(V)  BY <2>12, <3>1
      <3>4. Inserted(a.shape, at, one) \in Seq(V) /\ Len(Inserted(a.shape, at, one)) = N
        BY <2>3, <2>15, <3>2, <3>3, InsertedIs
      <3> QED  BY <2>5, <3>1, <3>4
    <2>7. t \in Seq(Int) /\ Len(t) = N
      <3>1. PICK V, z : V = Int /\ z = 0  OBVIOUS
      <3>2. z \in V  BY <3>1
      <3>3. a.strides \in Seq(V)  BY <2>13, <3>1
      <3>4. Inserted(a.strides, at, z) \in Seq(V) /\ Len(Inserted(a.strides, at, z)) = N
        BY <2>3, <2>14, <3>2, <3>3, InsertedIs
      <3> QED  BY <2>5, <3>1, <3>4
    <2>8. Laid(View(a, s, t, a.offset)) /\ View(a, s, t, a.offset).shape = s
      BY <1>3, <2>6, <2>7, WindowLaid DEF Spans
    <2>9. insert_newaxis(a, at) = View(a, s, t, a.offset)  BY <1>1, <1>2, <1>5, <2>5 DEF insert_newaxis
    <2> QED  BY <1>1, <1>2, <2>5, <2>6, <2>8, <2>9 DEF Sound
  <1> QED  BY <1>4, <1>5

\* flip.
LEMMA FlipLaid ==
  ASSUME NEW a, Laid(a), NEW axes
  PROVE  Laid(flip(a, axes)) /\ flip(a, axes).shape = a.shape
  <1>1. PICK n \in Nat : n = Len(a.shape)  BY LaidIs
  <1>2. /\ a.shape \in Seq(Nat) /\ a.strides \in Seq(Int) /\ Len(a.strides) = n /\ a.offset \in Int
        /\ DOMAIN a.shape = 1..n /\ \A d \in 1..n : a.shape[d] \in Nat /\ a.strides[d] \in Int
    BY <1>1, LaidIs
  <1>3. PICK turned : turned = {d \in axes : a.shape[d] > 0}  OBVIOUS
  <1>4. PICK t : t = [d \in 1..n |-> IF d \in turned THEN -a.strides[d] ELSE a.strides[d]]  OBVIOUS
  <1>5. t \in [1..n -> Int]  BY <1>2, <1>4
  <1>6. t \in Seq(Int) /\ Len(t) = n  BY <1>5
  <1>7. PICK r : r = [d \in 1..n |-> IF d \in turned THEN (a.shape[d] - 1) * a.strides[d] ELSE 0]  OBVIOUS
  <1>8. r \in [1..n -> Int]
    <2>1. \A d \in 1..n : (a.shape[d] - 1) * a.strides[d] \in Int
      <3> TAKE d \in 1..n
      <3>1. PICK x, y \in Int : x = a.shape[d] - 1 /\ y = a.strides[d]  BY <1>2
      <3>2. x * y \in Int  OBVIOUS
      <3> QED  BY <3>1, <3>2
    <2> QED  BY <1>7, <2>1
  <1>9. r \in Seq(Int)  BY <1>8
  <1>10. PICK o \in Int : o = a.offset + Total(r)  BY <1>2, <1>9, TotalIsInt
  <1>11. flip(a, axes) = View(a, a.shape, t, o)  BY <1>2, <1>3, <1>4, <1>7, <1>10 DEF flip
  <1> QED  BY <1>1, <1>2, <1>6, <1>10, <1>11, WindowLaid DEF Spans

----------------------------------------------------------------------------
(* Sequences, and the extremes of sets of numbers.                            *)

\* A bounded set of naturals has a least and a greatest element.
LEMMA Extremes ==
  ASSUME NEW N \in Nat, NEW S \in SUBSET (0..N), S # {}
  PROVE  /\ Min(S) \in S /\ \A x \in S : Min(S) <= x
         /\ Max(S) \in S /\ \A x \in S : x <= Max(S)
  <1>1. S \in SUBSET Nat  OBVIOUS
  <1>2. PICK m \in S : \A x \in S : m <= x  BY <1>1, Least
  <1>3. PICK T : T = {y \in 0..N : N - y \in S}  OBVIOUS
  <1>4. T \in SUBSET Nat /\ T # {}
    <2>1. PICK x \in S : TRUE  OBVIOUS
    <2>2. x \in 0..N  OBVIOUS
    <2>3. N - x \in 0..N /\ N - (N - x) = x  BY <2>2
    <2>4. N - x \in T  BY <1>3, <2>1, <2>3
    <2>5. T # {}  BY <2>4
    <2>6. T \in SUBSET Nat  BY <1>3
    <2> QED  BY <2>5, <2>6
  <1>5. PICK t \in T : \A y \in T : t <= y  BY <1>4, Least
  <1>6. N - t \in S /\ t \in 0..N  BY <1>3
  <1>7. \A x \in S : x <= N - t
    <2> TAKE x \in S
    <2>1. x \in 0..N /\ N - x \in 0..N /\ N - (N - x) = x  OBVIOUS
    <2>2. N - x \in T  BY <1>3, <2>1
    <2>3. t <= N - x  BY <1>5, <2>2
    <2> QED  BY <1>6, <2>1, <2>3
  <1>8. Min(S) \in S /\ \A x \in S : Min(S) <= x  BY <1>2 DEF Min
  <1>9. Max(S) \in S /\ \A x \in S : Max(S) >= x
    <2>1. \A x \in S : N - t >= x  BY <1>1, <1>6, <1>7
    <2> QED  BY <1>6, <2>1 DEF Max
  <1>10. \A x \in S : x <= Max(S)  BY <1>1, <1>9
  <1> QED  BY <1>8, <1>9, <1>10

\* Two sequences joined.
LEMMA Joins ==
  ASSUME NEW V, NEW s \in Seq(V), NEW t \in Seq(V)
  PROVE  s \o t \in Seq(V) /\ Len(s \o t) = Len(s) + Len(t)
  OBVIOUS

\* A segment of a sequence.
LEMMA SegmentIs ==
  ASSUME NEW V, NEW s \in Seq(V), NEW i \in Int, NEW j \in Int, 1 <= i, j <= Len(s)
  PROVE  /\ SubSeq(s, i, j) \in Seq(V)
         /\ Len(SubSeq(s, i, j)) = IF i <= j THEN j - i + 1 ELSE 0
  <1>1. CASE i <= j
    <2>1. PICK n \in Nat : n = j - i + 1  BY <1>1
    <2>2. PICK u : u = [k \in 1..n |-> s[i + k - 1]]  OBVIOUS
    <2>3. u \in [1..n -> V]
      <3> SUFFICES ASSUME NEW k \in 1..n  PROVE s[i + k - 1] \in V  BY <2>2
      <3>1. i + k - 1 \in 1..Len(s)  BY <2>1
      <3> QED  BY <3>1
    <2>4. u \in Seq(V) /\ Len(u) = n  BY <2>3
    <2>5. SubSeq(s, i, j) = u  BY <2>1, <2>2
    <2> QED  BY <1>1, <2>1, <2>4, <2>5
  <1>2. CASE ~(i <= j)
    <2>1. PICK u : u = SubSeq(s, i, j)  OBVIOUS
    <2>2. u = << >>  BY <1>2, <2>1
    <2>3. u \in Seq(V) /\ Len(u) = 0  BY <2>2
    <2> QED  BY <1>2, <2>1, <2>3
  <1> QED  BY <1>1, <1>2

\* One element inserted.
LEMMA InsertAtIs ==
  ASSUME NEW V, NEW s \in Seq(V), NEW x \in V, NEW i \in 1..Len(s) + 1
  PROVE  InsertAt(s, i, x) \in Seq(V) /\ Len(InsertAt(s, i, x)) = Len(s) + 1
  <1>1. PICK n \in Nat : n = Len(s)  OBVIOUS
  <1>2. PICK u, v, w : u = SubSeq(s, 1, i - 1) /\ v = <<x>> /\ w = SubSeq(s, i, Len(s))  OBVIOUS
  <1>3. i \in Int /\ i - 1 \in Int /\ 1 <= i /\ i - 1 <= n /\ n <= Len(s) /\ n \in Int  BY <1>1
  <1>4. u \in Seq(V) /\ Len(u) = i - 1
    <2>1. SubSeq(s, 1, i - 1) \in Seq(V)
          /\ Len(SubSeq(s, 1, i - 1)) = IF 1 <= i - 1 THEN (i - 1) - 1 + 1 ELSE 0
      BY <1>1, <1>3, SegmentIs
    <2> QED  BY <1>2, <1>3, <2>1
  <1>5. w \in Seq(V) /\ Len(w) = n - i + 1
    <2>1. SubSeq(s, i, n) \in Seq(V) /\ Len(SubSeq(s, i, n)) = IF i <= n THEN n - i + 1 ELSE 0
      BY <1>3, SegmentIs
    <2> QED  BY <1>1, <1>2, <1>3, <2>1
  <1>6. v \in Seq(V) /\ Len(v) = 1  BY <1>2
  <1>7. u \o v \in Seq(V) /\ Len(u \o v) = i
    <2>1. u \in Seq(V)  BY <1>4
    <2>2. v \in Seq(V)  BY <1>6
    <2>3. u \o v \in Seq(V) /\ Len(u \o v) = Len(u) + Len(v)  BY <2>1, <2>2, Joins
    <2> QED  BY <1>3, <1>4, <1>6, <2>3
  <1>8. PICK z : z = u \o v  OBVIOUS
  <1>9. z \o w \in Seq(V) /\ Len(z \o w) = n + 1
    <2>1. z \in Seq(V)  BY <1>7, <1>8
    <2>2. w \in Seq(V)  BY <1>5
    <2>3. z \o w \in Seq(V) /\ Len(z \o w) = Len(z) + Len(w)  BY <2>1, <2>2, Joins
    <2> QED  BY <1>3, <1>5, <1>7, <1>8, <2>3
  <1>10. InsertAt(s, i, x) = z \o w  BY <1>2, <1>8 DEF InsertAt
  <1> QED  BY <1>1, <1>9, <1>10

----------------------------------------------------------------------------
(* reshape.                                                                   *)

\* A part of a shape has a size.
LEMMA PartSize ==
  ASSUME NEW s \in Seq(Nat), NEW i \in Int, NEW j \in Int, 1 <= i, j <= Len(s)
  PROVE  Size(SubSeq(s, i, j)) \in Int
  <1>1. PICK u : u = SubSeq(s, i, j)  OBVIOUS
  <1>2. u \in Seq(Nat)
    <2>1. PICK V : V = Nat  OBVIOUS
    <2>2. s \in Seq(V)  BY <2>1
    <2>3. SubSeq(s, i, j) \in Seq(V)  BY <2>2, SegmentIs
    <2> QED  BY <1>1, <2>1, <2>3
  <1>3. Size(u) \in Nat  BY <1>2, SizeIs
  <1> QED  BY <1>1, <1>3

\* The groups of axes that a reshape makes: m old ones and N new ones.
Grouping(upto, cuts, m, N) ==
    /\ m \in Nat /\ N \in Nat /\ cuts \in SUBSET (1..m)
    /\ upto \in [{0} \cup cuts -> 0..N] /\ upto[0] = 0

\* Restrided gives one stride to each new axis, or gives up.
LEMMA RestridedIs ==
  ASSUME NEW m, NEW N, NEW dims, NEW strd \in Seq(Int), Len(strd) = m,
         NEW new \in Seq(Nat), Len(new) = N, NEW order, NEW cuts, NEW upto, Grouping(upto, cuts, m, N)
  PROVE  \/ Restrided(dims, strd, new, order, upto) = Raised
         \/ /\ Restrided(dims, strd, new, order, upto) \in Seq(Int)
            /\ Len(Restrided(dims, strd, new, order, upto)) = N
  <1> DEFINE D == DOMAIN upto
             prev(i) == Max({c \in D : c < i})
             done == upto[Max(D)]
             at(n) == CHOOSE c \in D \ {0} : n \in upto[prev(c)] + 1..upto[c]
             stride(n) ==
                LET i == at(n)
                IN  IF order = "F" THEN strd[prev(i) + 1] * Size(SubSeq(new, upto[prev(i)] + 1, n - 1))
                    ELSE strd[i] * Size(SubSeq(new, n + 1, upto[i]))
             last == IF done = 0 THEN 1
                     ELSE stride(done) * (IF order = "F" THEN new[done] ELSE 1)
             list == [n \in 1..N |-> IF n <= done THEN stride(n) ELSE last]
  <1>1. /\ m \in Nat /\ N \in Nat /\ cuts \in SUBSET (1..m) /\ upto \in [{0} \cup cuts -> 0..N] /\ upto[0] = 0
    BY DEF Grouping
  <1>2. D = {0} \cup cuts /\ D \in SUBSET (0..m) /\ D # {} /\ D \ {0} = cuts
        /\ \A c \in D : upto[c] \in 0..N
    BY <1>1
  <1> HIDE DEF D
  <1>3. Max(D) \in D /\ \A c \in D : c <= Max(D)  BY <1>1, <1>2, Extremes
  <1>4. done \in 0..N  BY <1>2, <1>3
  <1>5. ASSUME NEW i \in cuts
        PROVE  prev(i) \in D /\ prev(i) < i /\ prev(i) \in 0..m - 1
    <2>1. PICK S : S = {c \in D : c < i}  OBVIOUS
    <2>2. i \in 1..m  BY <1>1
    <2>3. 0 \in S /\ S \in SUBSET (0..m)
      <3>1. 0 \in D /\ 0 < i  BY <1>1, <1>2, <2>2
      <3> QED  BY <1>2, <2>1, <3>1
    <2>4. S # {}  BY <2>3
    <2>5. Max(S) \in S  BY <1>1, <2>3, <2>4, Extremes
    <2>6. prev(i) = Max(S)  BY <2>1
    <2>7. Max(S) \in D /\ Max(S) < i  BY <2>1, <2>5
    <2>8. Max(S) \in 0..m  BY <1>2, <2>7
    <2>9. Max(S) \in 0..m - 1  BY <1>1, <2>2, <2>7, <2>8
    <2> QED  BY <2>6, <2>7, <2>9
  <1> HIDE DEF prev
  <1>6. ASSUME NEW n \in 1..done
        PROVE  at(n) \in cuts /\ n \in upto[prev(at(n))] + 1..upto[at(n)]
    <2>1. PICK T : T = {c \in D : n <= upto[c]}  OBVIOUS
    <2>2. T \in SUBSET (0..m)  BY <1>2, <2>1
    <2>3. T # {}
      <3>1. n <= upto[Max(D)]  BY <1>4
      <3> QED  BY <1>3, <2>1, <3>1
    <2>4. Min(T) \in T /\ \A x \in T : Min(T) <= x  BY <1>1, <2>2, <2>3, Extremes
    <2>5. PICK c \in T : \A x \in T : c <= x  BY <2>4
    <2>6. c \in D /\ n <= upto[c] /\ c # 0
      <3>1. c \in D /\ n <= upto[c]  BY <2>1
      <3>2. n >= 1 /\ upto[0] = 0  BY <1>1
      <3> QED  BY <3>1, <3>2
    <2>7. c \in cuts  BY <1>2, <2>6
    <2>8. prev(c) \in D /\ prev(c) < c /\ prev(c) \in 0..m - 1  BY <1>5, <2>7
    <2>9. prev(c) \notin T  BY <1>1, <2>5, <2>8, <2>7
    <2>10. ~(n <= upto[prev(c)])  BY <2>1, <2>8, <2>9
    <2>11. n \in Int /\ upto[prev(c)] \in Int /\ upto[c] \in Int  BY <1>2, <1>4, <2>6, <2>8
    <2>12. n \in upto[prev(c)] + 1..upto[c]  BY <2>6, <2>10, <2>11
    <2>13. \E x \in D \ {0} : n \in upto[prev(x)] + 1..upto[x]  BY <1>2, <2>7, <2>12
    <2> QED  BY <1>2, <2>13
  <1> HIDE DEF at
  <1>7. ASSUME NEW n \in 1..done
        PROVE  stride(n) \in Int
    <2>1. PICK i \in cuts : i = at(n)  BY <1>6
    <2>2. i \in 1..m /\ n \in upto[prev(i)] + 1..upto[i] /\ prev(i) \in D /\ prev(i) \in 0..m - 1 /\ i \in D
      BY <1>1, <1>2, <1>5, <1>6, <2>1
    <2>3. upto[prev(i)] \in 0..N /\ upto[i] \in 0..N /\ n \in 1..N  BY <1>1, <1>2, <1>4, <2>2
    <2>4. upto[prev(i)] + 1 \in Int /\ n - 1 \in Int /\ 1 <= upto[prev(i)] + 1 /\ n - 1 <= Len(new)
          /\ n + 1 \in Int /\ 1 <= n + 1 /\ upto[i] <= Len(new) /\ upto[i] \in Int
      BY <1>1, <2>3
    <2>5. Size(SubSeq(new, upto[prev(i)] + 1, n - 1)) \in Int  BY <2>4, PartSize
    <2>6. Size(SubSeq(new, n + 1, upto[i])) \in Int  BY <2>4, PartSize
    <2>7. strd[prev(i) + 1] \in Int /\ strd[i] \in Int
      <3>1. prev(i) + 1 \in 1..m  BY <1>1, <2>2
      <3> QED  BY <2>2, <3>1
    <2>8. \A x, y \in Int : x * y \in Int  OBVIOUS
    <2> QED  BY <2>1, <2>5, <2>6, <2>7, <2>8
  <1> HIDE DEF stride
  <1>8. last \in Int
    <2>1. CASE done = 0  BY <2>1
    <2>2. CASE done # 0
      <3>1. done \in 1..done /\ done \in 1..N  BY <1>1, <1>4, <2>2
      <3>2. PICK x, y \in Int : x = stride(done) /\ y = (IF order = "F" THEN new[done] ELSE 1)  BY <1>7, <3>1
      <3>3. x * y \in Int  OBVIOUS
      <3> QED  BY <2>2, <3>2, <3>3
    <2> QED  BY <2>1, <2>2
  <1> HIDE DEF last
  <1>9. list \in [1..N -> Int]
    <2> SUFFICES ASSUME NEW n \in 1..N  PROVE (IF n <= done THEN stride(n) ELSE last) \in Int  OBVIOUS
    <2>1. n <= done => n \in 1..done  BY <1>4
    <2> QED  BY <1>7, <1>8, <2>1
  <1>10. list \in Seq(Int) /\ Len(list) = N  BY <1>1, <1>9, Enlisted
  <1>11. DOMAIN new = 1..N  OBVIOUS
  <1>12. Restrided(dims, strd, new, order, upto) \in {Raised, list}
    BY <1>11 DEF Restrided, D, prev, at, stride, last
  <1> QED  BY <1>10, <1>12

\* attempt_nocopy_reshape gives one stride to each new axis, or gives up.
LEMMA NoCopyIs ==
  ASSUME NEW shape \in Seq(Nat), NEW strides \in Seq(Int), Len(strides) = Len(shape),
         NEW new \in Seq(Nat), NEW order, NEW r, r = attempt_nocopy_reshape(shape, strides, new, order)
  PROVE  r = Raised \/ (r \in Seq(Int) /\ Len(r) = Len(new))
  <1>1. PICK n, N \in Nat : n = Len(shape) /\ N = Len(new)  OBVIOUS
  <1>2. PICK S : S = {d \in DOMAIN shape : shape[d] # 1}  OBVIOUS
  <1>3. PICK gone : gone = {d \in DOMAIN shape : shape[d] = 1}  OBVIOUS
  <1>4. S = (1..n) \ gone  BY <1>1, <1>2, <1>3
  <1>5. PICK long : long = Ascending(S)  OBVIOUS
  <1>6. PICK m \in Nat : Leaves(long, m, n, gone)  BY <1>1, <1>4, <1>5, WithoutNames
  <1>7. Lists(long, m, n)  BY <1>6, NamesLists DEF Leaves
  <1>8. PICK dims, strd : dims = Permuted(shape, long) /\ strd = Permuted(strides, long)  OBVIOUS
  <1>9. n = Len(strides) /\ n = Len(shape)  BY <1>1
  <1>10. strd \in Seq(Int) /\ Len(strd) = m  BY <1>7, <1>8, <1>9, PermutedIs
  <1>11. dims \in Seq(Nat) /\ Len(dims) = m  BY <1>7, <1>8, <1>9, PermutedIs
  <1> DEFINE met(i) == {j \in 0..Len(new) : Size(SubSeq(new, 1, j)) = Size(SubSeq(dims, 1, i))}
             cuts == {i \in 1..Len(dims) : met(i) # {}}
             upto == [i \in {0} \cup cuts |-> IF i = 0 THEN 0 ELSE Min(met(i))]
  <1>12. \A i : met(i) \in SUBSET (0..N)  BY <1>1
  <1>13. cuts \in SUBSET (1..m) /\ \A i \in cuts : met(i) # {}  BY <1>11
  <1> HIDE DEF met
  <1>14. \A i \in cuts : Min(met(i)) \in 0..N
    <2> TAKE i \in cuts
    <2>1. PICK T : T = met(i)  OBVIOUS
    <2>2. T \in SUBSET (0..N) /\ T # {}  BY <1>12, <1>13, <2>1
    <2>3. Min(T) \in T  BY <1>1, <2>2, Extremes
    <2> QED  BY <2>1, <2>2, <2>3
  <1> HIDE DEF cuts
  <1>15. upto \in [{0} \cup cuts -> 0..N] /\ upto[0] = 0
    <2>1. \A i \in {0} \cup cuts : (IF i = 0 THEN 0 ELSE Min(met(i))) \in 0..N  BY <1>1, <1>14
    <2> QED  BY <2>1
  <1> HIDE DEF upto
  <1>16. Grouping(upto, cuts, m, N)  BY <1>1, <1>13, <1>15, <1>6 DEF Grouping
  <1>17. PICK u : u = Restrided(dims, strd, new, order, upto)  OBVIOUS
  <1>18. u = Raised \/ (u \in Seq(Int) /\ Len(u) = N)
    <2>1. Len(new) = N  BY <1>1
    <2>2. strd \in Seq(Int)  BY <1>10
    <2>3. Len(strd) = m  BY <1>10
    <2> QED  BY <1>16, <1>17, <2>1, <2>2, <2>3, RestridedIs
  <1>19. r = u  BY <1>2, <1>5, <1>8, <1>17 DEF attempt_nocopy_reshape, upto, cuts, met
  <1> QED  BY <1>1, <1>18, <1>19

\* A reshape that may be made is made.
LEMMA ReshapeAsLaid ==
  ASSUME NEW a, Laid(a), NEW new \in Seq(Nat), NEW order \in {"C", "F"}
  PROVE  /\ Sound(ReshapeAs(a, new, order))
         /\ Size(new) = Size(a.shape) =>
               Laid(ReshapeAs(a, new, order)) /\ ReshapeAs(a, new, order).shape = new
  <1>1. a.shape \in Seq(Nat) /\ a.strides \in Seq(Int) /\ Len(a.strides) = Len(a.shape) /\ a.offset \in Int
    BY LaidIs
  <1>2. Spans(new, c_strides(new)) /\ Spans(new, f_strides(new))  BY StridesSpan
  <1>3. PICK t : t = attempt_nocopy_reshape(a.shape, a.strides, new, order)  OBVIOUS
  <1>4. t = Raised \/ Spans(new, t)
    <2>1. t = Raised \/ (t \in Seq(Int) /\ Len(t) = Len(new))
      <3>1. a.shape \in Seq(Nat)  BY <1>1
      <3>2. a.strides \in Seq(Int)  BY <1>1
      <3>3. Len(a.strides) = Len(a.shape)  BY <1>1
      <3> QED  BY <1>3, <3>1, <3>2, <3>3, NoCopyIs
    <2> QED  BY <2>1 DEF Spans
  <1>5. new = a.shape => Spans(new, a.strides)  BY <1>1 DEF Spans
  <1> DEFINE Fine(r) == Laid(r) /\ r.shape = new
             contig == to_contiguous_order(a, order).buf
  <1>6. \A s : Spans(new, s) => Fine(View(a, new, s, a.offset)) /\ Fine(Fresh(contig, new, s))
    <2> TAKE s
    <2> HAVE Spans(new, s)
    <2>1. Fine(View(a, new, s, a.offset))  BY <1>1, WindowLaid
    <2>2. Fine(Fresh(contig, new, s))  BY FreshLaid
    <2> QED  BY <2>1, <2>2
  <1> HIDE DEF Fine, contig
  <1>7. ASSUME Size(new) = Size(a.shape)  PROVE Fine(ReshapeAs(a, new, order))
    <2>1. CASE new = a.shape
      <3>1. ReshapeAs(a, new, order) = View(a, new, a.strides, a.offset)  BY <1>7, <2>1 DEF ReshapeAs
      <3> QED  BY <1>5, <1>6, <2>1, <3>1
    <2>2. CASE new # a.shape
      <3> DEFINE own == IF order = "F" THEN f_strides(new) ELSE c_strides(new)
      <3>1. ReshapeAs(a, new, order) \in {View(a, new, c_strides(new), a.offset), View(a, new, f_strides(new), a.offset)}
            \/ ReshapeAs(a, new, order) = IF t # Raised THEN View(a, new, t, a.offset) ELSE Fresh(contig, new, own)
        BY <1>3, <1>7, <2>2 DEF ReshapeAs, contig
      <3>2. Spans(new, own)  BY <1>2
      <3>3. Fine(View(a, new, c_strides(new), a.offset)) /\ Fine(View(a, new, f_strides(new), a.offset))
        BY <1>2, <1>6
      <3>4. Fine(Fresh(contig, new, own)) /\ (t # Raised => Fine(View(a, new, t, a.offset)))
        BY <1>4, <1>6, <3>2
      <3> HIDE DEF own
      <3> QED  BY <3>1, <3>3, <3>4
    <2> QED  BY <2>1, <2>2
  <1>8. Size(new) # Size(a.shape) => ReshapeAs(a, new, order) = Raised  BY DEF ReshapeAs
  <1> QED  BY <1>7, <1>8 DEF Fine, Sound

\* reshape, with and without a copy.
LEMMA ReshapeLaid ==
  ASSUME NEW a, Laid(a), NEW new \in Seq(Nat), NEW order
  PROVE  /\ Sound(reshape(a, new, order))
         /\ (order \in {"C", "F", "A"} /\ Size(new) = Size(a.shape)) =>
               Laid(reshape(a, new, order)) /\ reshape(a, new, order).shape = new
  <1>1. CASE order \notin {"C", "F", "A"}  BY <1>1 DEF reshape, Sound
  <1>2. CASE order \in {"C", "F", "A"}
    <2>1. PICK o \in {"C", "F"} : o = (IF order # "A" THEN order
                           ELSE IF is_f_contiguous(a) /\ ~is_c_contiguous(a) THEN "F" ELSE "C")
      BY <1>2
    <2>2. reshape(a, new, order) = ReshapeAs(a, new, o)  BY <1>2, <2>1 DEF reshape
    <2> QED  BY <2>2, ReshapeAsLaid
  <1> QED  BY <1>1, <1>2

\* The elements of an array in a row.
LEMMA FlatLaid ==
  ASSUME NEW a, Laid(a)
  PROVE  Laid(Flat(a)) /\ Flat(a).shape = <<Size(a.shape)>>
  <1>1. PICK n \in Nat : n = Size(a.shape)  BY LaidIs
  <1>2. PICK new : new = <<n>>  OBVIOUS
  <1>3. new \in Seq(Nat) /\ Size(new) = n  BY <1>2, SizeOne
  <1>4. PICK b : b = to_contiguous(a)  OBVIOUS
  <1>5. Laid(b) /\ b.shape = a.shape  BY <1>4, ContigLaid
  <1>6. Laid(reshape(b, new, "C")) /\ reshape(b, new, "C").shape = new  BY <1>1, <1>3, <1>5, ReshapeLaid
  <1> QED  BY <1>1, <1>2, <1>4, <1>6 DEF Flat

\* expand_dims, for one axis or several.
LEMMA ExpandDimsLaid ==
  ASSUME NEW a, Laid(a), NEW at, Fresher(at)
  PROVE  Sound(expand_dims(a, at))
  <1>1. CASE \E d \in at : d > Len(a.shape) + Cardinality(at)  BY <1>1 DEF expand_dims, Sound
  <1>2. CASE ~\E d \in at : d > Len(a.shape) + Cardinality(at)
    <2>1. Len(a.shape) \in Nat /\ Cardinality(at) \in Nat /\ at \in SUBSET Nat
      BY LaidIs, FS_CardinalityType DEF Fresher
    <2>2. \A d \in at : d <= Len(a.shape) + Cardinality(at)  BY <1>2, <2>1
    <2>3. Inserted(a.shape, at, 1) \in Seq(Nat)  BY <2>2, NewAxisLaid
    <2>4. expand_dims(a, at) = reshape(a, Inserted(a.shape, at, 1), "C")  BY <1>2 DEF expand_dims
    <2> QED  BY <2>3, <2>4, ReshapeLaid
  <1> QED  BY <1>1, <1>2

----------------------------------------------------------------------------
(* Broadcasting.                                                              *)

\* Finitely many naturals have a bound.
LEMMA BoundedAll ==
  ASSUME NEW k \in Nat, NEW f, \A i \in 1..k : f[i] \in Nat
  PROVE  \E N \in Nat : \A i \in 1..k : f[i] <= N
  <1> DEFINE P(j) == \E N \in Nat : \A i \in 1..j : f[i] <= N
             T == {j \in 0..k : P(j)}
  <1>1. 0 \in T
    <2>1. \A i \in 1..0 : f[i] <= 0  OBVIOUS
    <2> QED  BY <2>1
  <1>2. ASSUME NEW j \in 0..k - 1, j \in T  PROVE j + 1 \in T
    <2>1. PICK N \in Nat : \A i \in 1..j : f[i] <= N  BY <1>2
    <2>2. PICK x \in Nat : x = f[j + 1]  OBVIOUS
    <2>3. PICK M \in Nat : M = N + x  OBVIOUS
    <2>4. \A i \in 1..j + 1 : f[i] <= M
      <3> TAKE i \in 1..j + 1
      <3>1. i \in 1..k /\ f[i] \in Nat  OBVIOUS
      <3>2. CASE i = j + 1  BY <2>2, <2>3, <3>2
      <3>3. CASE i # j + 1
        <4>1. i \in 1..j  BY <3>3
        <4> QED  BY <2>1, <2>3, <3>1, <4>1
      <3> QED  BY <3>2, <3>3
    <2>5. P(j + 1)  BY <2>4
    <2> QED  BY <2>5
  <1> HIDE DEF P
  <1>3. T \in SUBSET (0..k)  OBVIOUS
  <1>4. T = 0..k
    <2> HIDE DEF T
    <2> QED  BY <1>1, <1>2, <1>3, UpTo
  <1>5. P(k)  BY <1>4
  <1> QED  BY <1>5 DEF P

\* A list of shapes.
Shapely(shapes) == Len(shapes) \in Nat /\ DOMAIN shapes = 1..Len(shapes) /\ \A i \in 1..Len(shapes) : shapes[i] \in Seq(Nat)

\* Shapes that broadcast give a shape at least as long as each of them.
LEMMA BroadcastIs ==
  ASSUME NEW shapes, Shapely(shapes), NEW r, r = broadcast_shapes(shapes), r # Raised
  PROVE  r \in Seq(Nat) /\ \A i \in 1..Len(shapes) : Len(shapes[i]) <= Len(r)
  <1>1. PICK k \in Nat : k = Len(shapes) /\ DOMAIN shapes = 1..k  BY DEF Shapely
  <1>2. \A i \in 1..k : shapes[i] \in Seq(Nat) /\ Len(shapes[i]) \in Nat  BY <1>1 DEF Shapely
  <1>3. PICK f : f = [i \in 1..k |-> Len(shapes[i])]  OBVIOUS
  <1>4. PICK N \in Nat : \A i \in 1..k : f[i] <= N
    <2>1. \A i \in 1..k : f[i] \in Nat  BY <1>2, <1>3
    <2> QED  BY <2>1, BoundedAll
  <1>5. PICK S : S = {Len(shapes[i]) : i \in DOMAIN shapes} \cup {0}  OBVIOUS
  <1>6. S \in SUBSET (0..N) /\ S # {}
    <2>1. \A i \in 1..k : Len(shapes[i]) \in 0..N  BY <1>2, <1>3, <1>4
    <2>2. \A x \in S : x \in 0..N  BY <1>1, <1>5, <2>1
    <2>3. 0 \in S  BY <1>5
    <2> QED  BY <2>2, <2>3
  <1>7. PICK n : n = Max(S)  OBVIOUS
  <1>8. n \in 0..N /\ \A x \in S : x <= n  BY <1>6, <1>7, Extremes
  <1>9. \A i \in 1..k : Len(shapes[i]) <= n  BY <1>1, <1>5, <1>8
  <1> DEFINE long(d) == {Aligned(shapes[i], n, d) : i \in DOMAIN shapes} \ {1}
             list == [d \in 1..n |-> IF long(d) = {} THEN 1 ELSE CHOOSE x \in long(d) : TRUE]
  <1>10. ASSUME NEW d \in 1..n, NEW i \in 1..k
         PROVE  Aligned(shapes[i], n, d) \in Nat
    <2>1. PICK l \in Nat : l = Len(shapes[i]) /\ l <= n  BY <1>2, <1>9
    <2>2. CASE d <= n - l  BY <2>1, <2>2 DEF Aligned
    <2>3. CASE ~(d <= n - l)
      <3>1. d - (n - l) \in 1..l  BY <1>8, <2>1, <2>3
      <3>2. shapes[i][d - (n - l)] \in Nat  BY <1>2, <2>1, <3>1
      <3> QED  BY <2>1, <2>3, <3>2 DEF Aligned
    <2> QED  BY <2>2, <2>3
  <1>11. \A d \in 1..n : long(d) \in SUBSET Nat  BY <1>1, <1>10
  <1> HIDE DEF long
  <1>12. \A d \in 1..n : (IF long(d) = {} THEN 1 ELSE CHOOSE x \in long(d) : TRUE) \in Nat  BY <1>11
  <1>13. list \in [1..n -> Nat]  BY <1>12
  <1>14. n \in Nat  BY <1>8
  <1>15. list \in Seq(Nat) /\ Len(list) = n  BY <1>13, <1>14, Enlisted
  <1>16. broadcast_shapes(shapes) \in {Raised, list}  BY <1>5, <1>7 DEF broadcast_shapes, long
  <1> HIDE DEF list
  <1>17. r = list  BY <1>16
  <1> QED  BY <1>1, <1>9, <1>15, <1>17

\* Two shapes.
LEMMA BothShapely ==
  ASSUME NEW s \in Seq(Nat), NEW t \in Seq(Nat)
  PROVE  Shapely(<<s, t>>) /\ Len(<<s, t>>) = 2 /\ <<s, t>>[1] = s /\ <<s, t>>[2] = t
  <1>1. PICK z : z = <<s, t>>  OBVIOUS
  <1>2. Len(z) = 2 /\ DOMAIN z = 1..2 /\ z[1] = s /\ z[2] = t  BY <1>1
  <1>3. \A i \in 1..2 : i = 1 \/ i = 2  OBVIOUS
  <1>4. Shapely(z)  BY <1>2, <1>3 DEF Shapely
  <1> QED  BY <1>1, <1>2, <1>4

\* ... two of them.
LEMMA BroadcastTwo ==
  ASSUME NEW s \in Seq(Nat), NEW t \in Seq(Nat), NEW r, r = broadcast_shapes(<<s, t>>), r # Raised
  PROVE  r \in Seq(Nat) /\ Len(s) <= Len(r) /\ Len(t) <= Len(r)
  <1>1. PICK z : z = <<s, t>>  OBVIOUS
  <1>2. Shapely(z) /\ Len(z) = 2 /\ z[1] = s /\ z[2] = t  BY <1>1, BothShapely
  <1>3. r = broadcast_shapes(z)  BY <1>1
  <1>4. r \in Seq(Nat) /\ \A i \in 1..2 : Len(z[i]) <= Len(r)  BY <1>2, <1>3, BroadcastIs
  <1>5. 1 \in 1..2 /\ 2 \in 1..2  OBVIOUS
  <1> QED  BY <1>2, <1>4, <1>5

\* Stretched strides have one stride for each axis of the target.
LEMMA StretchSpans ==
  ASSUME NEW shape \in Seq(Nat), NEW strides \in Seq(Int), Len(strides) = Len(shape),
         NEW target \in Seq(Nat), Len(shape) <= Len(target)
  PROVE  Spans(target, broadcast_strides_to(shape, strides, target))
  <1>1. PICK n, N \in Nat : n = Len(shape) /\ N = Len(target)  OBVIOUS
  <1>2. PICK pad \in Nat : pad = N - n  BY <1>1
  <1>3. PICK t : t = broadcast_strides_to(shape, strides, target)  OBVIOUS
  <1> DEFINE P(d) == d <= pad \/ (shape[d - pad] = 1 /\ target[d] # 1)
  <1>9. DOMAIN target = 1..N /\ pad = Len(target) - Len(shape)  BY <1>1, <1>2
  <1>4. t = [d \in 1..N |-> IF P(d) THEN 0 ELSE strides[d - pad]]
    <2>1. t = [d \in DOMAIN target |-> IF d <= Len(target) - Len(shape) \/ (shape[d - (Len(target) - Len(shape))] = 1 /\ target[d] # 1)
                THEN 0 ELSE strides[d - (Len(target) - Len(shape))]]
      BY <1>3, Zenon DEF broadcast_strides_to
    <2> QED  BY <1>9, <2>1, Zenon DEF P
  <1>10. \A d \in 1..N : d <= pad => P(d)  BY DEF P
  <1> HIDE DEF P
  <1>5. \A d \in 1..N : ~(d <= pad) => strides[d - pad] \in Int
    <2> TAKE d \in 1..N
    <2> HAVE ~(d <= pad)
    <2>1. d - pad \in 1..n  BY <1>2
    <2> QED  BY <1>1, <2>1
  <1>6. t \in [1..N -> Int]
    <2>1. \A d \in 1..N : (IF P(d) THEN 0 ELSE strides[d - pad]) \in Int
      <3> TAKE d \in 1..N
      <3>1. CASE P(d)  BY <3>1
      <3>2. CASE ~P(d)  BY <3>2, <1>5, <1>10
      <3> QED  BY <3>1, <3>2
    <2> QED  BY <1>4, <2>1
  <1>7. t \in Seq(Int) /\ Len(t) = N  BY <1>6, Enlisted
  <1> QED  BY <1>1, <1>3, <1>7 DEF Spans

\* broadcast_to, also when it raises.
LEMMA BroadcastLaid ==
  ASSUME NEW a, Laid(a), NEW target \in Seq(Nat)
  PROVE  \/ broadcast_to(a, target) = Raised
         \/ Laid(broadcast_to(a, target)) /\ broadcast_to(a, target).shape = target
  <1>1. a.shape \in Seq(Nat)  BY LaidIs
  <1>2. PICK r : r = broadcast_shapes(<<a.shape, target>>)  OBVIOUS
  <1>3. CASE r = Raised \/ r # target  BY <1>2, <1>3 DEF broadcast_to
  <1>4. CASE r # Raised /\ r = target
    <2>1. r # Raised  BY <1>4
    <2>2. Len(a.shape) <= Len(r)  BY <1>1, <1>2, <2>1, BroadcastTwo
    <2>3. a.strides \in Seq(Int)  BY LaidIs
    <2>4. Len(a.strides) = Len(a.shape)  BY LaidIs
    <2>5. Len(a.shape) <= Len(target)  BY <1>4, <2>2
    <2>6. PICK t : t = broadcast_strides_to(a.shape, a.strides, target)  OBVIOUS
    <2>7. Spans(target, t)  BY <1>1, <2>3, <2>4, <2>5, <2>6, StretchSpans
    <2>8. a.offset \in Int  BY LaidIs
    <2>9. Laid(View(a, target, t, a.offset)) /\ View(a, target, t, a.offset).shape = target
      BY <2>7, <2>8, WindowLaid
    <2>10. broadcast_to(a, target) = View(a, target, t, a.offset)  BY <1>2, <1>4, <2>6 DEF broadcast_to
    <2> QED  BY <2>9, <2>10
  <1> QED  BY <1>3, <1>4

----------------------------------------------------------------------------
(* Sequences of sequences.                                                    *)

\* The lengths of sequences.
Lens(seqs) == [i \in DOMAIN seqs |-> Len(seqs[i])]

\* Joined sequences have the length of all of them together.
LEMMA FlattenIs ==
  ASSUME NEW V, NEW seqs \in Seq(Seq(V))
  PROVE  /\ Concat(seqs) \in Seq(V) /\ Lens(seqs) \in Seq(Nat)
         /\ Len(Concat(seqs)) = Total(Lens(seqs)) /\ Len(Concat(seqs)) \in Nat
  <1>1. PICK n \in Nat : n = Len(seqs) /\ DOMAIN seqs = 1..n  OBVIOUS
  <1>2. \A i \in 1..n : seqs[i] \in Seq(V) /\ Len(seqs[i]) \in Nat  BY <1>1
  <1>3. PICK t : t = Lens(seqs)  OBVIOUS
  <1>4. t \in [1..n -> Nat] /\ \A i \in 1..n : t[i] = Len(seqs[i])  BY <1>1, <1>2, <1>3 DEF Lens
  <1>5. t \in Seq(Nat) /\ Len(t) = n /\ t \in Seq(Int)  BY <1>4
  <1>6. CASE n = 0
    <2>1. seqs = << >> /\ t = << >>  BY <1>1, <1>5, <1>6
    <2>2. Concat(seqs) = << >>  BY <1>1, <1>6, <2>1 DEF Concat, FlattenSeq
    <2>5. t \in Seq(Int) /\ Len(t) = 0  BY <1>5, <1>6
    <2>3. Total(t) = 0  BY <2>5, TotalEmpty
    <2>4. Concat(seqs) \in Seq(V) /\ Len(Concat(seqs)) = 0  BY <2>2
    <2> QED  BY <1>3, <1>5, <2>3, <2>4
  <1>7. CASE n # 0
    <2>1. PICK W : W = Seq(V)  OBVIOUS
    <2>20. PICK e : e = << >>  OBVIOUS
    <2>21. e \in Seq(V)  BY <2>20
    <2>2. e \in W /\ e = << >>  BY <2>1, <2>20, <2>21
    <2>3. PICK G : G = [p \in (1..n) \X W |-> p[2] \o seqs[p[1]]]  OBVIOUS
    <2>4. G \in [(1..n) \X W -> W]
      <3>1. ASSUME NEW i \in 1..n, NEW s \in W  PROVE s \o seqs[i] \in W  BY <1>2, <2>1
      <3> QED  BY <2>3, <3>1
    <2>5. \E f \in [0..n -> W] : Chain(f, n, e, G)  BY <2>2, <2>4, ChainExists
    <2>6. PICK f \in [0..n -> W] : f[0] = e /\ \A k \in 1..n : f[k] = G[<<k, f[k - 1]>>]  BY <2>5 DEF Chain
    <2>7. ASSUME NEW k \in 1..n  PROVE f[k - 1] \in W /\ f[k] = f[k - 1] \o seqs[k]
      <3>1. f[k - 1] \in W  OBVIOUS
      <3>2. <<k, f[k - 1]>> \in (1..n) \X W  BY <3>1
      <3> QED  BY <2>3, <2>6, <3>1, <3>2
    <2>8. PICK h : h = [k \in 1..n |-> f[k]]  OBVIOUS
    <2>9. f[1] = seqs[1]
      <3>1. 1 \in 1..n /\ 1 - 1 = 0  BY <1>7
      <3>2. f[1] = f[0] \o seqs[1]  BY <2>7, <3>1
      <3>3. seqs[1] \in Seq(V)  BY <1>2, <3>1
      <3> QED  BY <2>2, <2>6, <3>2, <3>3
    <2>10. h = [k \in 1..n |-> IF k = 1 THEN seqs[k] ELSE h[k - 1] \o seqs[k]]
      <3>1. ASSUME NEW k \in 1..n  PROVE h[k] = IF k = 1 THEN seqs[k] ELSE h[k - 1] \o seqs[k]
        <4>1. CASE k = 1  BY <2>8, <2>9, <4>1
        <4>2. CASE k # 1
          <5>1. k - 1 \in 1..n  BY <4>2
          <5> QED  BY <2>7, <2>8, <4>2, <5>1
        <4> QED  BY <4>1, <4>2
      <3>2. h = [k \in 1..n |-> h[k]]  BY <2>8
      <3> QED  BY <3>1, <3>2
    <2>11. PICK d : d = CHOOSE u : u = [k \in 1..n |-> IF k = 1 THEN seqs[k] ELSE u[k - 1] \o seqs[k]]
      OBVIOUS
    <2>12. d = [k \in 1..n |-> IF k = 1 THEN seqs[k] ELSE d[k - 1] \o seqs[k]]  BY <2>10, <2>11
    <2>13. Concat(seqs) = d[n]  BY <1>1, <1>7, <2>11, Zenon DEF Concat, FlattenSeq
    <2> DEFINE P(k) == k = 0 \/ (d[k] \in Seq(V) /\ Len(d[k]) = Sums(t)[k])
               T == {k \in 0..n : P(k)}
    <2>14. Sums(t)[0] = 0 /\ \A k \in 1..n : Sums(t)[k] = Sums(t)[k - 1] + t[k]  BY <1>5, SumsChain
    <2>15. ASSUME NEW k \in 0..n - 1, k \in T  PROVE k + 1 \in T
      <3>1. k + 1 \in 1..n /\ k + 1 - 1 = k  OBVIOUS
      <3>2. seqs[k + 1] \in Seq(V) /\ Len(seqs[k + 1]) \in Nat /\ t[k + 1] = Len(seqs[k + 1])
        BY <1>2, <1>4, <3>1
      <3>3. Sums(t)[k + 1] = Sums(t)[k] + t[k + 1]  BY <2>14, <3>1
      <3>4. CASE k = 0
        <4>1. d[k + 1] = seqs[k + 1]  BY <2>12, <3>1, <3>4
        <4> QED  BY <2>14, <3>1, <3>2, <3>3, <3>4, <4>1
      <3>5. CASE k # 0
        <4>0. k + 1 # 1  BY <3>5
        <4>9. PICK j \in 1..n : j = k + 1 /\ j - 1 = k /\ j # 1  BY <3>1, <4>0
        <4>10. d[j] = d[j - 1] \o seqs[j]  BY <2>12, <4>9, Zenon
        <4>1. d[k + 1] = d[k] \o seqs[k + 1]  BY <4>9, <4>10
        <4>2. PICK x \in Seq(V), y \in Seq(V) : x = d[k] /\ y = seqs[k + 1]  BY <2>15, <3>2, <3>5
        <4>3. x \o y \in Seq(V) /\ Len(x \o y) = Len(x) + Len(y)  BY Joins
        <4>4. Len(x) = Sums(t)[k]  BY <2>15, <3>5, <4>2
        <4>5. d[k + 1] \in Seq(V) /\ Len(d[k + 1]) = Len(x) + Len(y)  BY <4>1, <4>2, <4>3
        <4>6. Len(y) = t[k + 1]  BY <3>2, <4>2
        <4>7. Len(d[k + 1]) = Sums(t)[k + 1]  BY <3>3, <4>4, <4>5, <4>6
        <4>8. P(k + 1) /\ k + 1 \in 0..n  BY <3>1, <4>5, <4>7
        <4> QED  BY <4>8
      <3> QED  BY <3>4, <3>5
    <2>16. 0 \in T /\ T \in SUBSET (0..n)  OBVIOUS
    <2>17. T = 0..n
      <3> HIDE DEF T
      <3> QED  BY <2>15, <2>16, UpTo
    <2>18. d[n] \in Seq(V) /\ Len(d[n]) = Sums(t)[n]
      <3>3. n \in 0..n  OBVIOUS
      <3>1. n \in T  BY <2>17, <3>3, Zenon
      <3>2. P(n)  BY <3>1
      <3> QED  BY <1>7, <3>2
    <2>19. Total(t) = Sums(t)[n]  BY <1>5, SumsChain
    <2>22. Len(d[n]) \in Nat  BY <2>18
    <2> QED  BY <1>3, <1>5, <2>13, <2>18, <2>19, <2>22
  <1> QED  BY <1>6, <1>7

----------------------------------------------------------------------------
(* Axes that are moved.                                                       *)

\* rot90, for any number of turns.
LEMMA Rot90Laid ==
  ASSUME NEW a, Laid(a), NEW k \in Int, NEW d \in DOMAIN a.shape, NEW e \in DOMAIN a.shape
  PROVE  Laid(rot90(a, k, d, e))
  <1>1. k % 4 \in 0..3  OBVIOUS
  <1>2. Laid(to_contiguous(a))  BY ContigLaid
  <1>3. PICK b : b = flip(a, {e})  OBVIOUS
  <1>4. Laid(b) /\ b.shape = a.shape  BY <1>3, FlipLaid
  <1>5. d \in DOMAIN b.shape /\ e \in DOMAIN b.shape  BY <1>4
  <1>6. Laid(swapaxes(b, d, e))  BY <1>4, <1>5, SwapAxesLaid
  <1>7. Laid(to_contiguous(swapaxes(b, d, e)))  BY <1>6, ContigLaid
  <1>8. Laid(flip(a, {d}))  BY FlipLaid
  <1>9. Laid(flip(flip(a, {d}), {e}))  BY <1>8, FlipLaid
  <1>10. Laid(to_contiguous(flip(flip(a, {d}), {e})))  BY <1>9, ContigLaid
  <1>11. Laid(swapaxes(a, d, e))  BY SwapAxesLaid
  <1>12. Laid(flip(swapaxes(a, d, e), {e}))  BY <1>11, FlipLaid
  <1>13. Laid(to_contiguous(flip(swapaxes(a, d, e), {e})))  BY <1>12, ContigLaid
  <1>14. k % 4 = 0 \/ k % 4 = 1 \/ k % 4 = 2 \/ k % 4 = 3  BY <1>1
  <1>15. CASE k % 4 = 0  BY <1>15, <1>2 DEF rot90
  <1>16. CASE k % 4 = 1  BY <1>16, <1>3, <1>7 DEF rot90
  <1>17. CASE k % 4 = 2  BY <1>17, <1>10 DEF rot90
  <1>18. CASE k % 4 = 3  BY <1>18, <1>13 DEF rot90
  <1> QED  BY <1>14, <1>15, <1>16, <1>17, <1>18

\* normalize_axis raises or gives an axis.
LEMMA NormAxisIs ==
  ASSUME NEW n \in Nat, NEW axis \in Int
  PROVE  normalize_axis(axis, n) = Raised \/ normalize_axis(axis, n) \in 1..n
  <1>1. CASE axis \in -n..n - 1
    <2>1. n > 0  BY <1>1
    <2>2. axis % n \in 0..n - 1  BY <2>1
    <2>3. normalize_axis(axis, n) = (axis % n) + 1  BY <1>1 DEF normalize_axis
    <2> QED  BY <2>2, <2>3
  <1>2. CASE axis \notin -n..n - 1  BY <1>2 DEF normalize_axis
  <1> QED  BY <1>1, <1>2

\* All axes but one.
LEMMA OneLeft ==
  ASSUME NEW n \in Nat, NEW d \in 1..n, NEW q, q = Ascending((1..n) \ {d})
  PROVE  q \in Seq(1..n) /\ Len(q) = n - 1
  <1>1. PICK m \in Nat : Leaves(q, m, n, {d})  BY WithoutNames
  <1>2. m = Cardinality((1..n) \ {d}) /\ q \in Seq(1..n) /\ Len(q) = m  BY <1>1 DEF Leaves
  <1>3. IsFiniteSet(1..n) /\ Cardinality(1..n) = n  BY IntervalFinite
  <1>4. Cardinality((1..n) \ {d}) = Cardinality(1..n) - 1  BY <1>3, FS_RemoveElement
  <1> QED  BY <1>2, <1>3, <1>4

\* A sequence of axes lists axes.
LEMMA ListsSeq ==
  ASSUME NEW n \in Nat, NEW q \in Seq(1..n)
  PROVE  Lists(q, Len(q), n) /\ Len(q) \in Nat
  BY DEF Lists

\* rollaxis, also when it raises.
LEMMA RollAxisLaid ==
  ASSUME NEW a, Laid(a), NEW axis \in Int, NEW start \in Int
  PROVE  Sound(rollaxis(a, axis, start))
  <1>1. PICK n \in Nat : n = Len(a.shape)  BY LaidIs
  <1>2. PICK d, from, to, rest :
          /\ d = normalize_axis(axis, n)
          /\ from = (IF start < 0 THEN start + n ELSE start)
          /\ to = (IF d - 1 < from THEN from ELSE from + 1)
          /\ rest = Ascending((1..n) \ {d})
    OBVIOUS
  <1>3. rollaxis(a, axis, start) =
          IF d = Raised \/ from \notin 0..n THEN Raised
          ELSE IF to = d THEN to_contiguous(a)
          ELSE to_contiguous(transpose_axes(a, InsertAt(rest, to, d)))
    BY <1>1, <1>2 DEF rollaxis
  <1>4. CASE d = Raised \/ from \notin 0..n  BY <1>3, <1>4 DEF Sound
  <1>5. CASE ~(d = Raised \/ from \notin 0..n) /\ to = d  BY <1>3, <1>5, ContigLaid DEF Sound
  <1>6. CASE ~(d = Raised \/ from \notin 0..n) /\ to # d
    <2>1. d \in 1..n  BY <1>2, <1>6, NormAxisIs
    <2>2. from \in 0..n  BY <1>6
    <2>3. to \in 1..n  BY <1>2, <2>1, <2>2
    <2>4. rest \in Seq(1..n) /\ Len(rest) = n - 1  BY <1>2, <2>1, OneLeft
    <2>5. to \in 1..Len(rest) + 1  BY <2>3, <2>4
    <2>6. PICK q : q = InsertAt(rest, to, d)  OBVIOUS
    <2>7. q \in Seq(1..n)
      <3>1. PICK V : V = 1..n  OBVIOUS
      <3>2. rest \in Seq(V)  BY <2>4, <3>1
      <3>3. d \in V  BY <2>1, <3>1
      <3>4. InsertAt(rest, to, d) \in Seq(V)  BY <2>5, <3>2, <3>3, InsertAtIs
      <3> QED  BY <2>6, <3>1, <3>4
    <2>8. PICK m \in Nat : Lists(q, m, Len(a.shape))  BY <1>1, <2>7, ListsSeq
    <2>9. Laid(transpose_axes(a, q))  BY <2>8, TransposeLaid
    <2>10. Laid(to_contiguous(transpose_axes(a, q)))  BY <2>9, ContigLaid
    <2> QED  BY <1>3, <1>6, <2>6, <2>10 DEF Sound
  <1> QED  BY <1>4, <1>5, <1>6

\* A list without repetitions has as many elements as places.
LEMMA ImageSize ==
  ASSUME NEW m \in Nat, NEW V, NEW f \in [1..m -> V], IsInjective(f)
  PROVE  /\ IsFiniteSet(ToSet(f)) /\ Cardinality(ToSet(f)) = m /\ ToSet(f) \in SUBSET V
         /\ \A y \in ToSet(f) : \E i \in 1..m : f[i] = y
  <1>1. PICK T : T = ToSet(f)  OBVIOUS
  <1>2. T = {f[i] : i \in 1..m}  BY <1>1 DEF ToSet
  <1>3. f \in [1..m -> T] /\ T \in SUBSET V  BY <1>2
  <1>4. f \in Surjection(1..m, T)  BY <1>2, <1>3 DEF Surjection
  <1>5. f \in Injection(1..m, T)  BY <1>3 DEF Injection, IsInjective
  <1>6. IsFiniteSet(1..m) /\ Cardinality(1..m) = m  BY IntervalFinite
  <1>7. IsFiniteSet(T) /\ (Cardinality(T) = Cardinality(1..m) <=> f \in Injection(1..m, T))
    BY <1>4, <1>6, FS_Surjection
  <1> QED  BY <1>1, <1>2, <1>3, <1>5, <1>6, <1>7

\* The i-th smallest of m numbers of 1..n is at most n - m + i.
LEMMA RankBound ==
  ASSUME NEW n \in Nat, NEW m \in Nat, NEW S \in SUBSET (1..n), Cardinality(S) = m,
         NEW q, q = Ascending(S), NEW i \in 1..m
  PROVE  q[i] \in S /\ q[i] <= n - m + i
  <1>1. IsFiniteSet(1..n) /\ (1..n) \in SUBSET Int  BY IntervalFinite
  <1>2. IsFiniteSet(S) /\ S \in SUBSET Int  BY <1>1, FS_Subset
  <1>3. ListsAll(q, S) /\ \A j \in 1..Cardinality(S) : Cardinality({y \in S : y < q[j]}) = j - 1
    BY <1>2, AscendingIs
  <1>4. q[i] \in S /\ Cardinality({y \in S : y < q[i]}) = i - 1  BY <1>3 DEF ListsAll
  <1>5. PICK x \in 1..n : x = q[i]  BY <1>4
  <1>6. PICK L, H : L = {y \in S : y < x} /\ H = S \ L  OBVIOUS
  <1>7. L \in SUBSET S /\ S \cap L = L  BY <1>6
  <1>8. Cardinality(H) = m - (i - 1)
    <2>1. Cardinality(S \ L) = Cardinality(S) - Cardinality(S \cap L)  BY <1>2, FS_Difference
    <2>2. Cardinality(L) = i - 1  BY <1>4, <1>5, <1>6
    <2> QED  BY <1>6, <1>7, <2>1, <2>2
  <1>9. H \in SUBSET (x..n)
    <2> SUFFICES ASSUME NEW y \in H  PROVE y \in x..n  OBVIOUS
    <2>1. y \in S /\ ~(y < x)  BY <1>6
    <2>2. y \in 1..n  BY <2>1
    <2> QED  BY <2>1, <2>2
  <1>10. IsFiniteSet(x..n) /\ Cardinality(x..n) = n - x + 1
    <2>1. IsFiniteSet(x..n) /\ Cardinality(x..n) = IF x > n THEN 0 ELSE n - x + 1  BY FS_Interval
    <2> QED  BY <2>1
  <1>11. Cardinality(H) <= Cardinality(x..n)  BY <1>9, <1>10, FS_Subset
  <1>12. m - (i - 1) <= n - x + 1  BY <1>8, <1>10, <1>11
  <1> QED  BY <1>4, <1>5, <1>12

\* moveaxis, for any number of axes.
LEMMA MoveAxisLaid ==
  ASSUME NEW a, Laid(a), NEW m \in Nat, NEW source \in [1..m -> DOMAIN a.shape],
         NEW destination \in [1..m -> DOMAIN a.shape], IsInjective(source), IsInjective(destination)
  PROVE  Laid(moveaxis(a, source, destination))
  <1>1. PICK n \in Nat : n = Len(a.shape) /\ DOMAIN a.shape = 1..n  BY LaidIs
  <1>2. /\ source \in [1..m -> 1..n] /\ destination \in [1..m -> 1..n]
        /\ Len(source) = m /\ DOMAIN source = 1..m /\ DOMAIN destination = 1..m
    BY <1>1
  <1>3. PICK S, D : S = ToSet(source) /\ D = ToSet(destination)  OBVIOUS
  <1>4. IsFiniteSet(S) /\ Cardinality(S) = m /\ S \in SUBSET (1..n)  BY <1>2, <1>3, ImageSize
  <1>5. /\ IsFiniteSet(D) /\ Cardinality(D) = m /\ D \in SUBSET (1..n)
        /\ \A y \in D : \E i \in 1..m : destination[i] = y
    <2>1. PICK V : V = 1..n  OBVIOUS
    <2>2. destination \in [1..m -> V]  BY <1>2, <2>1
    <2>3. /\ IsFiniteSet(ToSet(destination)) /\ Cardinality(ToSet(destination)) = m
          /\ ToSet(destination) \in SUBSET V
          /\ \A y \in ToSet(destination) : \E i \in 1..m : destination[i] = y
      BY <2>2, ImageSize
    <2> QED  BY <1>3, <2>1, <2>3
  <1> DEFINE rest == Ascending((DOMAIN a.shape) \ ToSet(source))
             targets == Ascending(ToSet(destination))
  <1>6. rest = Ascending((1..n) \ S) /\ targets = Ascending(D)  BY <1>1, <1>3
  <1> HIDE DEF rest, targets
  <1>7. rest \in Seq(1..n) /\ Len(rest) = n - m
    <2>1. PICK r \in Nat : Leaves(rest, r, n, S)  BY <1>6, WithoutNames
    <2>2. r = Cardinality((1..n) \ S) /\ rest \in Seq(1..n) /\ Len(rest) = r  BY <2>1 DEF Leaves
    <2>3. IsFiniteSet(1..n) /\ Cardinality(1..n) = n  BY IntervalFinite
    <2>4. Cardinality((1..n) \ S) = Cardinality(1..n) - Cardinality((1..n) \cap S)  BY <2>3, FS_Difference
    <2>5. (1..n) \cap S = S  BY <1>4
    <2> QED  BY <1>4, <2>2, <2>3, <2>4, <2>5
  <1>8. \A i \in 1..m : targets[i] \in D /\ targets[i] <= n - m + i  BY <1>5, <1>6, RankBound
  <1>9. \A i \in 1..m : targets[i] \in 1..(n - m + i - 1) + 1
    <2> TAKE i \in 1..m
    <2>1. targets[i] \in 1..n /\ targets[i] <= n - m + i  BY <1>5, <1>8
    <2> QED  BY <2>1
  <1> DEFINE moved(at) == source[CHOOSE i \in DOMAIN source : destination[i] = at]
  <1>10. \A i \in 1..m : moved(targets[i]) \in 1..n
    <2> TAKE i \in 1..m
    <2>1. \E j \in 1..m : destination[j] = targets[i]  BY <1>5, <1>8
    <2>2. (CHOOSE j \in DOMAIN source : destination[j] = targets[i]) \in 1..m  BY <1>2, <2>1
    <2> QED  BY <1>2, <2>2
  <1> HIDE DEF moved
  <1>11. PICK W : W = Seq(1..n)  OBVIOUS
  <1> DEFINE Next1(i, s) == InsertAt(s, targets[i], moved(targets[i]))
  <1>12. PICK G : G = [p \in (1..m) \X W |-> IF Next1(p[1], p[2]) \in W THEN Next1(p[1], p[2]) ELSE rest]
    OBVIOUS
  <1>13. rest \in W  BY <1>7, <1>11
  <1>14. G \in [(1..m) \X W -> W]
    <2> HIDE DEF Next1
    <2> QED  BY <1>12, <1>13
  <1>15. \E f \in [0..m -> W] : Chain(f, m, rest, G)  BY <1>13, <1>14, ChainExists
  <1>16. PICK f \in [0..m -> W] : f[0] = rest /\ \A k \in 1..m : f[k] = G[<<k, f[k - 1]>>]  BY <1>15 DEF Chain
  <1>17. ASSUME NEW k \in 1..m, NEW s \in W, Len(s) = n - m + (k - 1)
         PROVE  Next1(k, s) \in W /\ Len(Next1(k, s)) = n - m + k
    <2>1. s \in Seq(1..n)  BY <1>11
    <2>2. targets[k] \in 1..Len(s) + 1  BY <1>9, <1>17
    <2>3. moved(targets[k]) \in 1..n  BY <1>10
    <2>4. PICK V, x, t : V = 1..n /\ x = moved(targets[k]) /\ t = targets[k]  OBVIOUS
    <2>5. s \in Seq(V)  BY <2>1, <2>4
    <2>6. x \in V  BY <2>3, <2>4
    <2>7. t \in 1..Len(s) + 1  BY <2>2, <2>4
    <2>8. InsertAt(s, t, x) \in Seq(V) /\ Len(InsertAt(s, t, x)) = Len(s) + 1  BY <2>5, <2>6, <2>7, InsertAtIs
    <2> QED  BY <1>11, <1>17, <2>4, <2>8
  <1> DEFINE T == {k \in 0..m : Len(f[k]) = n - m + k}
  <1>18. 0 \in T  BY <1>7, <1>16
  <1>19. ASSUME NEW k \in 0..m - 1, k \in T
         PROVE  k + 1 \in T
    <2>1. k + 1 \in 1..m /\ (k + 1) - 1 = k /\ f[k] \in W /\ Len(f[k]) = n - m + k  BY <1>19
    <2>2. PICK j \in 1..m : j = k + 1 /\ j - 1 = k  BY <2>1
    <2>3. Len(f[j - 1]) = n - m + (j - 1) /\ f[j - 1] \in W  BY <2>1, <2>2
    <2>4. Next1(j, f[j - 1]) \in W /\ Len(Next1(j, f[j - 1])) = n - m + j  BY <1>17, <2>3
    <2> HIDE DEF Next1
    <2>5. f[j] = Next1(j, f[j - 1])
      <3>1. <<j, f[j - 1]>> \in (1..m) \X W  BY <2>3
      <3>2. f[j] = G[<<j, f[j - 1]>>]  BY <1>16
      <3> QED  BY <1>12, <2>4, <3>1, <3>2
    <2>6. Len(f[j]) = n - m + j /\ j \in 0..m  BY <2>4, <2>5
    <2> QED  BY <2>2, <2>6
  <1>20. T = 0..m
    <2>1. T \in SUBSET (0..m)  OBVIOUS
    <2> HIDE DEF T
    <2> QED  BY <1>18, <1>19, <2>1, UpTo
  <1>21. \A k \in 1..m : f[k - 1] \in W /\ f[k] = Next1(k, f[k - 1])
    <2> TAKE k \in 1..m
    <2>0. k - 1 \in 0..m  OBVIOUS
    <2>1. k - 1 \in T
      <3> HIDE DEF T
      <3> QED  BY <1>20, <2>0
    <2>2. f[k - 1] \in W /\ Len(f[k - 1]) = n - m + (k - 1)  BY <2>0, <2>1
    <2>3. Next1(k, f[k - 1]) \in W  BY <1>17, <2>2
    <2>4. <<k, f[k - 1]>> \in (1..m) \X W /\ f[k] = G[<<k, f[k - 1]>>]  BY <1>16, <2>2
    <2> HIDE DEF Next1
    <2> QED  BY <1>12, <2>2, <2>3, <2>4
  <1> HIDE DEF T
  <1> DEFINE Fits1(h) == h = [i \in 0..Len(source) |-> IF i = 0 THEN rest ELSE Next1(i, h[i - 1])]
  <1>22. Fits1(f)
    <2> HIDE DEF Next1
    <2>1. ASSUME NEW i \in 0..m  PROVE f[i] = IF i = 0 THEN rest ELSE Next1(i, f[i - 1])
      <3>1. CASE i = 0  BY <1>16, <3>1
      <3>2. CASE i # 0
        <4>1. i \in 1..m  BY <3>2
        <4> QED  BY <1>21, <3>2, <4>1
      <3> QED  BY <3>1, <3>2
    <2>2. Len(source) = m  BY <1>2
    <2> QED  BY <2>1, <2>2
  <1>23. PICK d : d = CHOOSE h : Fits1(h)  OBVIOUS
  <1>24. Fits1(d)
    <2> HIDE DEF Fits1
    <2> QED  BY <1>22, <1>23
  <1>25. \A i \in 0..m : d[i] = IF i = 0 THEN rest ELSE Next1(i, d[i - 1])
    <2> HIDE DEF Next1
    <2>1. Len(source) = m  BY <1>2
    <2> QED  BY <1>24, <2>1
  <1> DEFINE U == {k \in 0..m : d[k] = f[k]}
  <1>26. U = 0..m
    <2>1. 0 \in U  BY <1>16, <1>25
    <2>2. ASSUME NEW k \in 0..m - 1, k \in U  PROVE k + 1 \in U
      <3>1. PICK j \in 1..m : j = k + 1 /\ j - 1 = k  OBVIOUS
      <3>2. j \in 0..m /\ j # 0 /\ d[j - 1] = f[j - 1]  BY <2>2, <3>1
      <3> HIDE DEF Next1
      <3>3. d[j] = Next1(j, d[j - 1])  BY <1>25, <3>2
      <3>4. f[j] = Next1(j, f[j - 1])  BY <1>21
      <3>5. d[j] = f[j]  BY <3>2, <3>3, <3>4
      <3> QED  BY <3>1, <3>2, <3>5
    <2>3. U \in SUBSET (0..m)  OBVIOUS
    <2> HIDE DEF U
    <2> QED  BY <2>1, <2>2, <2>3, UpTo
  <1>27. d[m] = f[m] /\ f[m] \in W
    <2>1. m \in 0..m  OBVIOUS
    <2>2. m \in U  BY <1>26, <2>1, Zenon
    <2> QED  BY <2>1, <2>2
  <1>28. moveaxis(a, source, destination) = transpose_axes(a, d[m])
    <2>1. moveaxis(a, source, destination) = transpose_axes(a, (CHOOSE h : Fits1(h))[Len(source)])
      BY Zenon DEF moveaxis, moved, rest, targets
    <2>2. Len(source) = m  BY <1>2
    <2> HIDE DEF Fits1
    <2> QED  BY <1>23, <2>1, <2>2, Zenon
  <1>29. PICK q : q = d[m]  OBVIOUS
  <1>30. q \in Seq(1..n)  BY <1>11, <1>27, <1>29
  <1>31. PICK c \in Nat : Lists(q, c, Len(a.shape))  BY <1>1, <1>30, ListsSeq
  <1>32. Laid(transpose_axes(a, q))  BY <1>31, TransposeLaid
  <1> QED  BY <1>28, <1>29, <1>32

----------------------------------------------------------------------------
(* Keys.                                                                      *)

\* A sum of naturals is a natural.
LEMMA NatTotal ==
  ASSUME NEW t \in Seq(Nat)
  PROVE  Total(t) \in Nat
  <1>1. PICK n \in Nat : n = Len(t)  OBVIOUS
  <1>2. PICK z : z = [i \in 1..n |-> 0]  OBVIOUS
  <1>3. z \in Seq(Int) /\ Len(z) = n /\ \A i \in 1..n : z[i] = 0  BY <1>2
  <1>4. Total(z) = 0  BY <1>3, TotalZero
  <1>5. t \in Seq(Int) /\ Len(z) = Len(t) /\ \A i \in 1..Len(t) : z[i] <= t[i]  BY <1>1, <1>3
  <1>6. z \in Seq(Int) /\ t \in Seq(Int)  BY <1>3, <1>5
  <1>7. Total(z) <= Total(t)  BY <1>5, <1>6, TotalGrows
  <1>8. Total(t) \in Int  BY <1>6, TotalIsInt
  <1> QED  BY <1>4, <1>7, <1>8

\* The first summands give no more than all.
LEMMA HeadTotals ==
  ASSUME NEW t \in Seq(Nat), NEW k \in 0..Len(t)
  PROVE  Total(SubSeq(t, 1, k)) \in Nat /\ Total(SubSeq(t, 1, k)) <= Total(t)
  <1>1. PICK V : V = Nat  OBVIOUS
  <1>2. t \in Seq(V)  BY <1>1
  <1>3. PICK u, v : u = SubSeq(t, 1, k) /\ v = SubSeq(t, k + 1, Len(t))  OBVIOUS
  <1>4. u \in Seq(V) /\ v \in Seq(V) /\ t = u \o v  BY <1>2, <1>3, Cuts
  <1>5. u \in Seq(Nat) /\ v \in Seq(Nat)  BY <1>1, <1>4
  <1>6. u \in Seq(Int) /\ v \in Seq(Int)  BY <1>5
  <1>7. Total(u \o v) = Total(u) + Total(v)  BY <1>6, TotalConcat
  <1>8. Total(u) \in Nat /\ Total(v) \in Nat  BY <1>5, NatTotal
  <1>9. Total(t) = Total(u) + Total(v)  BY <1>4, <1>7
  <1>10. Total(u) <= Total(t)  BY <1>8, <1>9
  <1> QED  BY <1>3, <1>8, <1>10

\* One more summand.
LEMMA PrefixStep ==
  ASSUME NEW t \in Seq(Nat), NEW k \in 1..Len(t)
  PROVE  /\ Total(SubSeq(t, 1, k)) = Total(SubSeq(t, 1, k - 1)) + t[k]
         /\ Total(SubSeq(t, 1, k - 1)) \in Nat /\ Total(SubSeq(t, 1, k - 1)) + t[k] <= Total(t)
  <1>1. PICK V : V = Int  OBVIOUS
  <1>2. t \in Seq(V)  BY <1>1
  <1>3. PICK j \in Nat : j = k - 1  OBVIOUS
  <1>4. PICK r, s : r = SubSeq(t, 1, k) /\ s = SubSeq(t, 1, j)  OBVIOUS
  <1>5. k \in 0..Len(t) /\ j \in 0..Len(t)  BY <1>3
  <1>6. r \in Seq(V) /\ Len(r) = k /\ s \in Seq(V) /\ Len(s) = j  BY <1>2, <1>4, <1>5, Cuts
  <1>7. r \in Seq(Int) /\ s \in Seq(Int) /\ Len(r) = j + 1 /\ Len(s) = j  BY <1>1, <1>3, <1>6
  <1>8. \A i \in 1..j : r[i] = s[i]  BY <1>3, <1>4
  <1>9. r[j + 1] = t[k]  BY <1>3, <1>4
  <1>10. Total(r) = Total(s) + r[j + 1]  BY <1>7, <1>8, TotalLast
  <1>11. Total(r) <= Total(t)  BY <1>4, <1>5, HeadTotals
  <1>12. Total(s) \in Nat  BY <1>4, <1>5, HeadTotals
  <1> QED  BY <1>3, <1>4, <1>9, <1>10, <1>11, <1>12

\* The items that a key may have.
Legal(x) ==
    \/ x.kind \in {"newaxis", "ellipsis"}
    \/ x.kind = "index" /\ x.i \in Int
    \/ /\ x.kind = "slice" /\ x.start \in Int \cup {None} /\ x.stop \in Int \cup {None}
       /\ x.step \in Int \cup {None}
    \/ x.kind \in {"array", "mask"} /\ x.shape \in Seq(Nat)

\* Key items whose uses of axes are known, the full slice among them.
Words(V) == (\A x \in V : Legal(x)) /\ FullSlice \in V

\* The number of axes each item of a key consumes.
Uses(key) == [k \in DOMAIN key |-> axes_consumed(key[k])]

\* A key consumes the sum of what its items consume.
LEMMA UsesAre ==
  ASSUME NEW V, Words(V), NEW key \in Seq(V)
  PROVE  /\ Uses(key) \in Seq(Nat) /\ Len(Uses(key)) = Len(key)
         /\ Consumed(key) = Total(Uses(key)) /\ Consumed(key) \in Nat
  <1>1. PICK m \in Nat : m = Len(key) /\ DOMAIN key = 1..m  OBVIOUS
  <1>2. ASSUME NEW x \in V  PROVE axes_consumed(x) \in Nat
    <2>1. Legal(x)  BY DEF Words
    <2>2. CASE x.kind \in {"newaxis", "ellipsis"}  BY <2>2 DEF axes_consumed
    <2>3. CASE x.kind \in {"index", "slice", "array"}  BY <2>3 DEF axes_consumed
    <2>4. CASE x.kind = "mask" /\ x.shape \in Seq(Nat)
      <3>1. Len(x.shape) \in Nat  BY <2>4
      <3> QED  BY <2>4, <3>1 DEF axes_consumed
    <2> QED  BY <2>1, <2>2, <2>3, <2>4 DEF Legal
  <1>3. Uses(key) \in [1..m -> Nat]  BY <1>1, <1>2 DEF Uses
  <1>4. Uses(key) \in Seq(Nat) /\ Len(Uses(key)) = m  BY <1>3, Enlisted
  <1>5. Consumed(key) = Total(Uses(key))  BY DEF Consumed, Uses
  <1> QED  BY <1>1, <1>4, <1>5, NatTotal

\* The elements of joined sequences.
LEMMA JoinedAt ==
  ASSUME NEW V, NEW s \in Seq(V), NEW t \in Seq(V)
  PROVE  /\ \A i \in 1..Len(s) : (s \o t)[i] = s[i]
         /\ \A j \in 1..Len(t) : (s \o t)[Len(s) + j] = t[j]
  OBVIOUS

\* Joined keys consume what both consume.
LEMMA ConsumedJoins ==
  ASSUME NEW V, Words(V), NEW s \in Seq(V), NEW t \in Seq(V)
  PROVE  Consumed(s \o t) = Consumed(s) + Consumed(t)
  <1>1. PICK z : z = s \o t  OBVIOUS
  <1>2. z \in Seq(V) /\ Len(z) = Len(s) + Len(t)  BY <1>1, Joins
  <1>3. PICK u, v, w : u = Uses(s) /\ v = Uses(t) /\ w = Uses(z)  OBVIOUS
  <1>4. u \in Seq(Nat) /\ Len(u) = Len(s) /\ Consumed(s) = Total(u)  BY <1>3, UsesAre
  <1>5. v \in Seq(Nat) /\ Len(v) = Len(t) /\ Consumed(t) = Total(v)  BY <1>3, UsesAre
  <1>6. w \in Seq(Nat) /\ Len(w) = Len(z) /\ Consumed(z) = Total(w)  BY <1>2, <1>3, UsesAre
  <1>7. w = u \o v
    <2>1. \A i \in 1..Len(z) : w[i] = axes_consumed(z[i])  BY <1>2, <1>3 DEF Uses
    <2>2. \A i \in 1..Len(s) : u[i] = axes_consumed(s[i])  BY <1>3 DEF Uses
    <2>3. \A i \in 1..Len(t) : v[i] = axes_consumed(t[i])  BY <1>3 DEF Uses
    <2>4. ASSUME NEW i \in 1..Len(w)  PROVE w[i] = (u \o v)[i]
      <3>1. CASE i <= Len(s)
        <4>1. z[i] = s[i] /\ (u \o v)[i] = u[i] /\ i \in 1..Len(s)  BY <1>1, <1>4, <1>5, <3>1
        <4> QED  BY <1>6, <2>1, <2>2, <4>1
      <3>2. CASE ~(i <= Len(s))
        <4>1. PICK j : j = i - Len(s)  OBVIOUS
        <4>2. j \in 1..Len(t)  BY <1>2, <1>6, <3>2, <4>1
        <4>3. z[Len(s) + j] = t[j]  BY <1>1, <4>2, JoinedAt
        <4>4. PICK N : N = Nat  OBVIOUS
        <4>5. u \in Seq(N) /\ v \in Seq(N) /\ j \in 1..Len(v)  BY <1>4, <1>5, <4>2, <4>4
        <4>6. (u \o v)[Len(u) + j] = v[j]  BY <4>5, JoinedAt
        <4>7. i = Len(s) + j /\ Len(s) + j = Len(u) + j  BY <1>4, <4>1
        <4>8. (u \o v)[i] = v[j]  BY <4>6, <4>7
        <4>9. z[i] = t[j]  BY <4>3, <4>7
        <4> QED  BY <1>6, <2>1, <2>3, <4>2, <4>8, <4>9
      <3> QED  BY <3>1, <3>2
    <2>5. u \o v \in Seq(Nat) /\ Len(u \o v) = Len(u) + Len(v)
      <3>1. PICK N : N = Nat  OBVIOUS
      <3>2. u \in Seq(N) /\ v \in Seq(N)  BY <1>4, <1>5, <3>1
      <3> QED  BY <3>1, <3>2, Joins
    <2>6. Len(w) = Len(u \o v)  BY <1>2, <1>4, <1>5, <1>6, <2>5
    <2>7. PICK N, y : N = Nat /\ y = u \o v  OBVIOUS
    <2>8. w \in Seq(N) /\ y \in Seq(N) /\ Len(w) = Len(y) /\ \A i \in 1..Len(w) : w[i] = y[i]
      BY <1>6, <2>4, <2>5, <2>6, <2>7
    <2> QED  BY <2>7, <2>8, SameSeq
  <1>8. u \in Seq(Int) /\ v \in Seq(Int)  BY <1>4, <1>5
  <1>9. Total(u \o v) = Total(u) + Total(v)  BY <1>8, TotalConcat
  <1> QED  BY <1>1, <1>4, <1>5, <1>6, <1>7, <1>9

\* The axes of an item are among those the key consumes.
LEMMA AxisAtIs ==
  ASSUME NEW V, Words(V), NEW key \in Seq(V), NEW k \in 1..Len(key)
  PROVE  /\ AxisAt(key, k) \in Nat \ {0} /\ axes_consumed(key[k]) \in Nat
         /\ AxisAt(key, k) + axes_consumed(key[k]) - 1 <= Consumed(key)
  <1>1. PICK u : u = Uses(key)  OBVIOUS
  <1>2. u \in Seq(Nat) /\ Len(u) = Len(key) /\ Consumed(key) = Total(u)  BY <1>1, UsesAre
  <1>3. k - 1 \in 0..Len(key) /\ k \in 1..Len(u) /\ k - 1 \in Nat  BY <1>2
  <1>4. PICK s : s = SubSeq(key, 1, k - 1)  OBVIOUS
  <1>5. s \in Seq(V) /\ Len(s) = k - 1  BY <1>3, <1>4, Cuts
  <1>6. Uses(s) \in Seq(Nat) /\ Len(Uses(s)) = k - 1 /\ Consumed(s) = Total(Uses(s))  BY <1>5, UsesAre
  <1>7. PICK v, w : v = Uses(s) /\ w = SubSeq(u, 1, k - 1)  OBVIOUS
  <1>8. v = w
    <2>1. PICK N : N = Nat  OBVIOUS
    <2>2. u \in Seq(N) /\ k - 1 \in 0..Len(u)  BY <1>2, <1>3, <2>1
    <2>3. w \in Seq(N) /\ Len(w) = k - 1  BY <1>7, <2>2, Cuts
    <2>4. v \in Seq(N) /\ Len(v) = k - 1  BY <1>6, <1>7, <2>1
    <2>5. \A i \in 1..k - 1 : v[i] = axes_consumed(s[i]) /\ s[i] = key[i]  BY <1>4, <1>5, <1>7 DEF Uses
    <2>6. \A i \in 1..k - 1 : w[i] = u[i] /\ u[i] = axes_consumed(key[i])  BY <1>1, <1>2, <1>3, <1>7 DEF Uses
    <2>7. \A i \in 1..Len(v) : v[i] = w[i]  BY <2>4, <2>5, <2>6
    <2>8. Len(v) = Len(w)  BY <2>3, <2>4
    <2> QED  BY <2>3, <2>4, <2>7, <2>8, SameSeq
  <1>9. Total(w) \in Nat /\ Total(w) + u[k] <= Total(u)  BY <1>2, <1>3, <1>7, PrefixStep
  <1>10. AxisAt(key, k) = 1 + Total(w)  BY <1>4, <1>6, <1>7, <1>8 DEF AxisAt
  <1>11. u[k] = axes_consumed(key[k]) /\ u[k] \in Nat
    <2>1. k \in DOMAIN key  OBVIOUS
    <2>2. u[k] = axes_consumed(key[k])  BY <1>1, <2>1 DEF Uses
    <2>3. k \in 1..Len(u) /\ u \in Seq(Nat)  BY <1>2, <1>3
    <2>4. u[k] \in Nat  BY <2>3
    <2> QED  BY <2>2, <2>4
  <1> QED  BY <1>2, <1>9, <1>10, <1>11

\* What is missing up to a number, or nothing.
LEMMA MaxZero ==
  ASSUME NEW x \in Int
  PROVE  /\ Max({0, x}) \in Nat /\ x <= Max({0, x}) /\ Max({0, x}) = IF x <= 0 THEN 0 ELSE x
         /\ Max({x, 0}) \in Nat
  <1>1. PICK o \in Int : o = 0  OBVIOUS
  <1>2. Max({o, x}) = (IF o >= x THEN o ELSE x) /\ {o, x} = {x, o}  BY MinMaxTwo
  <1>3. Max({x, o}) = Max({o, x})  BY <1>2
  <1> QED  BY <1>1, <1>2, <1>3

\* A run of full slices consumes an axis each.
LEMMA SlicesUse ==
  ASSUME NEW V, Words(V), NEW c \in Nat, NEW z, z = [i \in 1..c |-> FullSlice]
  PROVE  z \in Seq(V) /\ Len(z) = c /\ Consumed(z) = c
  <1>1. FullSlice \in V  BY DEF Words
  <1>2. z \in Seq(V) /\ Len(z) = c /\ DOMAIN z = 1..c /\ \A i \in 1..c : z[i] = FullSlice  BY <1>1
  <1>3. PICK u : u = Uses(z)  OBVIOUS
  <1>4. u \in Seq(Nat) /\ Len(u) = c /\ Consumed(z) = Total(u)  BY <1>2, <1>3, UsesAre
  <1>5. FullSlice.kind = "slice"  BY DEF FullSlice
  <1>6. \A i \in 1..c : u[i] = 1  BY <1>2, <1>3, <1>5 DEF Uses, axes_consumed
  <1>7. Total(u) = c
    <2> DEFINE P(k) == Total(SubSeq(u, 1, k)) = k
               T == {k \in 0..c : P(k)}
    <2>1. 0 \in T
      <3>1. SubSeq(u, 1, 0) = << >>  OBVIOUS
      <3>2. Total(SubSeq(u, 1, 0)) = 0
        <4>1. PICK e : e = SubSeq(u, 1, 0)  OBVIOUS
        <4>2. e \in Seq(Int) /\ Len(e) = 0  BY <3>1, <4>1
        <4> QED  BY <4>1, <4>2, TotalEmpty
      <3> QED  BY <3>2
    <2>2. ASSUME NEW k \in 0..c - 1, k \in T  PROVE k + 1 \in T
      <3>1. PICK j \in 1..c : j = k + 1 /\ j - 1 = k  OBVIOUS
      <3>2. j \in 1..Len(u)  BY <1>4
      <3>3. Total(SubSeq(u, 1, j)) = Total(SubSeq(u, 1, j - 1)) + u[j]  BY <1>4, <3>2, PrefixStep
      <3>4. Total(SubSeq(u, 1, j - 1)) = k  BY <2>2, <3>1
      <3>5. u[j] = 1  BY <1>6
      <3>6. P(j)  BY <3>1, <3>3, <3>4, <3>5
      <3> QED  BY <3>1, <3>6
    <2>3. T \in SUBSET (0..c)  OBVIOUS
    <2>4. T = 0..c
      <3> HIDE DEF T
      <3> QED  BY <2>1, <2>2, <2>3, UpTo
    <2>5. c \in 0..c  OBVIOUS
    <2>6. c \in T
      <3> HIDE DEF T
      <3> QED  BY <2>4, <2>5
    <2>7. Total(SubSeq(u, 1, c)) = c  BY <2>6
    <2>8. SubSeq(u, 1, c) = u  BY <1>4
    <2> QED  BY <2>7, <2>8
  <1> QED  BY <1>2, <1>4, <1>7

\* The items that are left when the ellipsis is filled up.
Plain(V) == {x \in V : x.kind # "ellipsis"}

\* Items without an ellipsis.
LEMMA PlainWords ==
  ASSUME NEW V, Words(V)
  PROVE  Words(Plain(V)) /\ Plain(V) \in SUBSET V
  BY DEF Words, Plain, FullSlice

\* A key without an ellipsis.
LEMMA AllPlain ==
  ASSUME NEW V, NEW s \in Seq(V), \A i \in 1..Len(s) : s[i].kind # "ellipsis"
  PROVE  s \in Seq(Plain(V))
  <1>1. PICK n \in Nat : n = Len(s) /\ s \in [1..n -> V]  OBVIOUS
  <1>2. s \in [1..n -> Plain(V)]  BY <1>1 DEF Plain
  <1> QED  BY <1>2, Enlisted

\* A key with its ellipsis filled up still has its index arrays.
LEMMA ExpandIs ==
  ASSUME NEW V, Words(V), NEW key \in Seq(V), NEW n \in Nat, NEW r, r = expand_ellipsis(key, n)
  PROVE  r = Raised \/ (r \in Seq(Plain(V)) /\ (has_advanced(key) => has_advanced(r)))
  <1>1. PICK m \in Nat : m = Len(key) /\ DOMAIN key = 1..m  OBVIOUS
  <1>2. PICK dots : dots = {k \in DOMAIN key : key[k].kind = "ellipsis"}  OBVIOUS
  <1>3. PICK at : at = CHOOSE k \in dots : TRUE  OBVIOUS
  <1>4. Consumed(key) \in Nat  BY UsesAre
  <1>5. PICK fill \in Nat : fill = Max({0, n - Consumed(key)})
    <2>1. PICK x \in Int : x = n - Consumed(key)  BY <1>4
    <2>2. Max({0, x}) \in Nat  BY MaxZero
    <2> QED  BY <2>1, <2>2
  <1>6. PICK z : z = [i \in 1..fill |-> FullSlice]  OBVIOUS
  <1>7. z \in Seq(V) /\ Len(z) = fill  BY <1>6, SlicesUse
  <1>8. PICK u, v : u = SubSeq(key, 1, at - 1) /\ v = SubSeq(key, at + 1, Len(key))  OBVIOUS
  <1>9. r = IF dots = {} THEN key ELSE IF \E k \in dots : k # at THEN Raised ELSE (u \o z) \o v
    BY <1>2, <1>3, <1>5, <1>6, <1>8 DEF expand_ellipsis
  <1>10. CASE dots = {}
    <2>1. r = key  BY <1>9, <1>10
    <2>2. \A i \in 1..Len(key) : key[i].kind # "ellipsis"  BY <1>1, <1>2, <1>10
    <2> QED  BY <2>1, <2>2, AllPlain
  <1>11. CASE dots # {} /\ (\E k \in dots : k # at)  BY <1>9, <1>11
  <1>12. CASE dots # {} /\ ~(\E k \in dots : k # at)
    <2>1. at \in 1..m /\ key[at].kind = "ellipsis" /\ dots = {at}  BY <1>1, <1>2, <1>3, <1>12
    <2>2. at - 1 \in 0..Len(key) /\ at \in 0..Len(key)  BY <1>1, <2>1
    <2>3. u \in Seq(V) /\ Len(u) = at - 1  BY <1>8, <2>2, Cuts
    <2>4. v \in Seq(V) /\ Len(v) = m - at  BY <1>1, <1>8, <2>2, Cuts
    <2>5. PICK w : w = u \o z  OBVIOUS
    <2>6. w \in Seq(V) /\ Len(w) = (at - 1) + fill  BY <1>7, <2>3, <2>5, Joins
    <2>7. PICK y : y = w \o v  OBVIOUS
    <2>13. y \in Seq(V) /\ Len(y) = Len(w) + Len(v)  BY <2>4, <2>6, <2>7, Joins
    <2>8. y \in Seq(V) /\ Len(y) = (at - 1) + fill + (m - at) /\ DOMAIN y = 1..Len(y)  BY <2>4, <2>6, <2>13
    <2>14. u \in Seq(Plain(V)) /\ v \in Seq(Plain(V)) /\ z \in Seq(Plain(V))
      <3>1. \A i \in 1..Len(u) : u[i].kind # "ellipsis"
        <4> TAKE i \in 1..Len(u)
        <4>1. u[i] = key[i] /\ i \in 1..m /\ i # at  BY <1>1, <1>8, <2>1, <2>3
        <4> QED  BY <1>1, <1>2, <2>1, <4>1
      <3>2. \A i \in 1..Len(v) : v[i].kind # "ellipsis"
        <4> TAKE i \in 1..Len(v)
        <4>2. i \in 1..m - at /\ at \in 1..m  BY <2>1, <2>4
        <4>3. at + i \in 1..m /\ at + i # at  BY <4>2
        <4>4. v[i] = key[at + i]  BY <1>1, <1>8, <4>2
        <4>1. v[i] = key[at + i] /\ at + i \in 1..m /\ at + i # at  BY <4>3, <4>4
        <4> QED  BY <1>1, <1>2, <2>1, <4>1
      <3>3. Words(Plain(V))  BY PlainWords
      <3>4. z \in Seq(Plain(V))  BY <1>6, <3>3, SlicesUse
      <3> QED  BY <2>3, <2>4, <3>1, <3>2, <3>4, AllPlain
    <2>15. y \in Seq(Plain(V))
      <3>1. PICK W : W = Plain(V)  OBVIOUS
      <3>2. u \in Seq(W) /\ v \in Seq(W) /\ z \in Seq(W)  BY <2>14, <3>1
      <3>3. w \in Seq(W)  BY <2>5, <3>2, Joins
      <3>4. y \in Seq(W)  BY <2>7, <3>2, <3>3, Joins
      <3> QED  BY <3>1, <3>4
    <2>9. r = y  BY <1>9, <1>12, <2>5, <2>7
    <2>10. ASSUME has_advanced(key)  PROVE has_advanced(y)
      <3>1. PICK k \in 1..m : is_advanced(key[k])  BY <1>1, <2>10 DEF has_advanced
      <3>2. k # at  BY <2>1, <3>1 DEF is_advanced
      <3>3. CASE k < at
        <4>1. k \in 1..Len(u) /\ u[k] = key[k]  BY <1>8, <2>1, <2>3, <3>3
        <4>2. w[k] = u[k]  BY <1>7, <2>3, <2>5, <4>1, JoinedAt
        <4>3. k \in 1..Len(w)  BY <2>1, <2>6, <3>3
        <4>4. y[k] = w[k]  BY <2>4, <2>6, <2>7, <4>3, JoinedAt
        <4>5. k \in DOMAIN y  BY <2>1, <2>8, <3>3
        <4>6. is_advanced(y[k])  BY <3>1, <4>1, <4>2, <4>4
        <4> QED  BY <4>5, <4>6 DEF has_advanced
      <3>4. CASE k > at
        <4>1. PICK j \in 1..m - at : j = k - at  BY <1>1, <2>1, <3>4
        <4>2. j \in 1..Len(v)  BY <2>4
        <4>3. v[j] = key[k]  BY <1>1, <1>8, <2>1, <4>1
        <4>4. y[Len(w) + j] = v[j]  BY <2>4, <2>6, <2>7, <4>2, JoinedAt
        <4>5. Len(w) + j \in DOMAIN y  BY <2>1, <2>6, <2>8, <4>1
        <4>6. is_advanced(y[Len(w) + j])  BY <3>1, <4>3, <4>4
        <4> QED  BY <4>5, <4>6 DEF has_advanced
      <3> QED  BY <2>1, <3>2, <3>3, <3>4
    <2> QED  BY <2>9, <2>10, <2>15
  <1> QED  BY <1>10, <1>11, <1>12

\* whole_key raises or names every axis of the array.
LEMMA WholeIs ==
  ASSUME NEW V, Words(V), NEW key \in Seq(V), NEW n \in Nat, NEW r, r = whole_key(key, n)
  PROVE  \/ r = Raised
         \/ r \in Seq(Plain(V)) /\ Consumed(r) = n /\ (has_advanced(key) => has_advanced(r))
  <1>5. PICK P : P = Plain(V)  OBVIOUS
  <1>6. Words(P)  BY <1>5, PlainWords
  <1>1. PICK items : items = expand_ellipsis(key, n)  OBVIOUS
  <1>2. items = Raised \/ (items \in Seq(P) /\ (has_advanced(key) => has_advanced(items)))
    BY <1>1, <1>5, ExpandIs
  <1>3. CASE items = Raised \/ Consumed(items) > n  BY <1>1, <1>3 DEF whole_key
  <1>4. CASE items # Raised /\ ~(Consumed(items) > n)
    <2>1. items \in Seq(P)  BY <1>2, <1>4
    <2>2. Consumed(items) \in Nat  BY <1>6, <2>1, UsesAre
    <2>3. PICK c \in Nat : c = n - Consumed(items)  BY <1>4, <2>2
    <2>4. PICK z : z = [i \in 1..c |-> FullSlice]  OBVIOUS
    <2>5. z \in Seq(P) /\ Len(z) = c /\ Consumed(z) = c  BY <1>6, <2>4, SlicesUse
    <2>6. r = items \o z  BY <1>1, <1>4, <2>3, <2>4 DEF whole_key
    <2>7. items \o z \in Seq(P) /\ Len(items \o z) = Len(items) + Len(z)  BY <2>1, <2>5, Joins
    <2>8. Consumed(items \o z) = Consumed(items) + Consumed(z)  BY <1>6, <2>1, <2>5, ConsumedJoins
    <2>9. ASSUME has_advanced(key)  PROVE has_advanced(r)
      <3>1. PICK k \in 1..Len(items) : is_advanced(items[k])  BY <1>2, <1>4, <2>1, <2>9 DEF has_advanced
      <3>2. (items \o z)[k] = items[k]  BY <2>1, <2>5, <3>1, JoinedAt
      <3>3. k \in DOMAIN r  BY <2>1, <2>5, <2>6, <2>7
      <3> QED  BY <2>6, <3>1, <3>2, <3>3 DEF has_advanced
    <2> QED  BY <1>5, <2>2, <2>3, <2>5, <2>6, <2>7, <2>8, <2>9
  <1> QED  BY <1>3, <1>4

\* normalize_slice raises or gives a start, a step and a length.
LEMMA SliceIs ==
  ASSUME NEW start \in Int \cup {None}, NEW stop \in Int \cup {None}, NEW step \in Int \cup {None},
         NEW len \in Nat, NEW r, r = normalize_slice(start, stop, step, len)
  PROVE  r = Raised \/ (r.start \in Int /\ r.step \in Int /\ r.len \in Nat)
  <1>1. PICK by \in Int : by = (IF step = None THEN 1 ELSE step)  OBVIOUS
  <1>2. PICK lower \in Int : lower = (IF by > 0 THEN 0 ELSE -1)  OBVIOUS
  <1>3. PICK upper \in Int : upper = (IF by > 0 THEN len ELSE len - 1)  OBVIOUS
  <1> DEFINE clamp(s) == IF s < 0 THEN Max({s + len, lower}) ELSE Min({s, upper})
  <1>4. ASSUME NEW s \in Int  PROVE clamp(s) \in Int
    <2>1. PICK x \in Int : x = s + len  OBVIOUS
    <2>2. Max({x, lower}) \in Int  BY MinMaxTwo
    <2>3. Min({s, upper}) \in Int  BY MinMaxTwo
    <2> QED  BY <2>1, <2>2, <2>3
  <1> HIDE DEF clamp
  <1>5. PICK from \in Int : from = (IF start # None THEN clamp(start) ELSE IF by < 0 THEN upper ELSE lower)
    BY <1>4
  <1>6. PICK to \in Int : to = (IF stop # None THEN clamp(stop) ELSE IF by < 0 THEN lower ELSE upper)  BY <1>4
  <1>7. r = IF by = 0 THEN Raised
            ELSE [start |-> from, step |-> by,
                  len |-> Max({0, IF by > 0 THEN (to - from + by - 1) \div by
                                  ELSE (from - to - by - 1) \div (-by)})]
    BY <1>1, <1>2, <1>3, <1>5, <1>6 DEF normalize_slice, clamp
  <1>8. CASE by = 0  BY <1>7, <1>8
  <1>9. CASE by # 0
    <2>1. PICK x \in Int : x = (IF by > 0 THEN (to - from + by - 1) \div by ELSE (from - to - by - 1) \div (-by))
      <3>1. CASE by > 0
        <4>1. PICK p \in Int, c \in Nat \ {0} : p = to - from + by - 1 /\ c = by  BY <3>1
        <4>2. p \div c \in Int  BY DivMod
        <4> QED  BY <3>1, <4>1, <4>2
      <3>2. CASE ~(by > 0)
        <4>1. PICK p \in Int, c \in Nat \ {0} : p = from - to - by - 1 /\ c = -by  BY <1>9, <3>2
        <4>2. p \div c \in Int  BY DivMod
        <4> QED  BY <3>2, <4>1, <4>2
      <3> QED  BY <3>1, <3>2
    <2>2. Max({0, x}) \in Nat  BY MaxZero
    <2>3. r = [start |-> from, step |-> by, len |-> Max({0, x})]  BY <1>7, <1>9, <2>1
    <2> QED  BY <2>2, <2>3
  <1> QED  BY <1>8, <1>9

\* What one item leaves of an array.
Left(p) ==
    /\ p.lens \in Seq(Nat) /\ p.strides \in Seq(Int) /\ Len(p.lens) = Len(p.strides)
    /\ p.offset \in Int

\* One item of a key raises or leaves lengths, strides and an offset.
LEMMA SelectsAre ==
  ASSUME NEW a, Laid(a), NEW x, Legal(x), x.kind # "ellipsis", NEW d,
         x.kind \in {"index", "slice"} => d \in 1..Len(a.shape), NEW r, r = Selects(a, x, d)
  PROVE  r = Raised \/ Left(r)
  <1>1. \A e \in 1..Len(a.shape) : a.shape[e] \in Nat /\ a.strides[e] \in Int  BY LaidIs
  <1>2. CASE x.kind = "newaxis"
    <2>1. r = [lens |-> <<1>>, strides |-> <<0>>, offset |-> 0]  BY <1>2 DEF Selects
    <2>2. <<1>> \in Seq(Nat) /\ <<0>> \in Seq(Int) /\ Len(<<1>>) = Len(<<0>>)  OBVIOUS
    <2> QED  BY <2>1, <2>2 DEF Left
  <1>3. CASE x.kind \in {"array", "mask"}
    <2>1. r = [lens |-> << >>, strides |-> << >>, offset |-> 0]  BY <1>3 DEF Selects
    <2> QED  BY <2>1 DEF Left
  <1>4. CASE x.kind = "index" /\ x.i \in Int
    <2>1. PICK s \in Nat, t \in Int : s = a.shape[d] /\ t = a.strides[d]  BY <1>1, <1>4
    <2>2. PICK y \in Int : y = (IF x.i < 0 THEN x.i + s ELSE x.i)  BY <1>4
    <2>3. PICK o \in Int : o = t * y  OBVIOUS
    <2>7. Selects(a, x, d) =
            IF x.i \in -a.shape[d]..a.shape[d] - 1
            THEN [lens |-> << >>, strides |-> << >>,
                  offset |-> a.strides[d] * (IF x.i < 0 THEN x.i + a.shape[d] ELSE x.i)]
            ELSE Raised
      <3>1. x.kind = "index" /\ x.kind # "newaxis"  BY <1>4
      <3> QED  BY <3>1, Zenon DEF Selects
    <2>4. Selects(a, x, d) = IF x.i \in -s..s - 1
                             THEN [lens |-> << >>, strides |-> << >>, offset |-> o] ELSE Raised
      BY <2>1, <2>2, <2>3, <2>7
    <2>5. CASE x.i \in -s..s - 1
      <3>1. r = [lens |-> << >>, strides |-> << >>, offset |-> o]  BY <2>4, <2>5
      <3>2. << >> \in Seq(Nat) /\ << >> \in Seq(Int)  OBVIOUS
      <3> QED  BY <2>3, <3>1, <3>2 DEF Left
    <2>6. CASE x.i \notin -s..s - 1  BY <2>4, <2>6
    <2> QED  BY <2>5, <2>6
  <1>5. CASE /\ x.kind = "slice" /\ x.start \in Int \cup {None} /\ x.stop \in Int \cup {None}
             /\ x.step \in Int \cup {None}
    <2>1. PICK s \in Nat, t \in Int : s = a.shape[d] /\ t = a.strides[d]  BY <1>1, <1>5
    <2>2. PICK z : z = normalize_slice(x.start, x.stop, x.step, s)  OBVIOUS
    <2>3. z = Raised \/ (z.start \in Int /\ z.step \in Int /\ z.len \in Nat)
      <3>1. PICK u \in Int \cup {None}, v \in Int \cup {None}, w \in Int \cup {None} :
              u = x.start /\ v = x.stop /\ w = x.step
        BY <1>5
      <3>2. z = normalize_slice(u, v, w, s)  BY <2>2, <3>1
      <3> QED  BY <3>2, SliceIs
    <2>4. r = Sliced(a, d, z)  BY <1>5, <2>1, <2>2 DEF Selects
    <2>5. CASE z = Raised  BY <2>4, <2>5 DEF Sliced
    <2>6. CASE z # Raised
      <3>1. PICK u \in Int, v \in Int, w \in Nat : u = z.start /\ v = z.step /\ w = z.len  BY <2>3, <2>6
      <3>2. t * u \in Int /\ t * v \in Int  OBVIOUS
      <3>3. r = [lens |-> <<w>>, strides |-> <<t * v>>, offset |-> t * u]
        BY <2>1, <2>4, <2>6, <3>1 DEF Sliced
      <3>4. PICK p \in Int : p = t * v  BY <3>2
      <3>5. <<w>> \in Seq(Nat) /\ <<p>> \in Seq(Int) /\ Len(<<w>>) = Len(<<p>>)  OBVIOUS
      <3> QED  BY <3>2, <3>3, <3>4, <3>5 DEF Left
    <2> QED  BY <2>5, <2>6
  <1> QED  BY <1>2, <1>3, <1>4, <1>5 DEF Legal

\* ... and so does every item.
LEMMA PartsAre ==
  ASSUME NEW a, Laid(a), NEW V, Words(V), NEW items \in Seq(Plain(V)), Consumed(items) = Len(a.shape)
  PROVE  /\ DOMAIN Parts(a, items) = 1..Len(items)
         /\ \A k \in 1..Len(items) : Parts(a, items)[k] = Raised \/ Left(Parts(a, items)[k])
  <1>1. PICK m \in Nat : m = Len(items) /\ DOMAIN items = 1..m  OBVIOUS
  <1>2. DOMAIN Parts(a, items) = 1..m  BY <1>1 DEF Parts
  <1>3. ASSUME NEW k \in 1..m
        PROVE  Parts(a, items)[k] = Raised \/ Left(Parts(a, items)[k])
    <2>1. PICK x, d, r : x = items[k] /\ d = AxisAt(items, k) /\ r = Selects(a, x, d)  OBVIOUS
    <2>2. Parts(a, items)[k] = r  BY <1>1, <2>1 DEF Parts
    <2>3. x \in Plain(V)  BY <1>1, <2>1
    <2>4. Legal(x) /\ x.kind # "ellipsis"  BY <2>3 DEF Plain, Words
    <2>5. PICK P : P = Plain(V)  OBVIOUS
    <2>6. Words(P) /\ items \in Seq(P)  BY <2>5, PlainWords
    <2>7. k \in 1..Len(items)  BY <1>1
    <2>8. d \in Nat \ {0} /\ axes_consumed(x) \in Nat /\ d + axes_consumed(x) - 1 <= Consumed(items)
      BY <2>1, <2>6, <2>7, AxisAtIs
    <2>9. x.kind \in {"index", "slice"} => d \in 1..Len(a.shape)
      <3>1. x.kind \in {"index", "slice"} => axes_consumed(x) = 1  BY DEF axes_consumed
      <3>2. Len(a.shape) \in Nat  BY LaidIs
      <3> QED  BY <2>8, <3>1, <3>2
    <2>10. r = Raised \/ Left(r)  BY <2>1, <2>4, <2>9, SelectsAre
    <2> QED  BY <2>2, <2>10
  <1> QED  BY <1>1, <1>2, <1>3

\* The lengths, strides and offsets that the items of a key leave.
Lensof(part) == [k \in DOMAIN part |-> part[k].lens]

\* The strides they leave.
Stepsof(part) == [k \in DOMAIN part |-> part[k].strides]

\* The offsets they leave.
Offsetsof(part) == [k \in DOMAIN part |-> part[k].offset]

\* Every item of a key of m items has left its part.
Portioned(part, m) == DOMAIN part = 1..m /\ \A k \in 1..m : Left(part[k])

\* The parts of a key together have one stride for each axis.
LEMMA FreeAxes ==
  ASSUME NEW m \in Nat, NEW part, Portioned(part, m)
  PROVE  /\ Spans(Concat(Lensof(part)), Concat(Stepsof(part)))
         /\ Total(Offsetsof(part)) \in Int
         /\ Lensof(part) \in Seq(Seq(Nat)) /\ Len(Lensof(part)) = m
  <1>1. PICK u, v, w : u = Lensof(part) /\ v = Stepsof(part) /\ w = Offsetsof(part)  OBVIOUS
  <1>2. DOMAIN part = 1..m /\ \A k \in 1..m : Left(part[k])  BY DEF Portioned
  <1>3. u \in [1..m -> Seq(Nat)] /\ v \in [1..m -> Seq(Int)] /\ \A k \in 1..m : Len(u[k]) = Len(v[k])
    BY <1>1, <1>2 DEF Left, Lensof, Stepsof
  <1>4. w \in [1..m -> Int]  BY <1>1, <1>2 DEF Left, Offsetsof
  <1>5. PICK N, I : N = Nat /\ I = Int  OBVIOUS
  <1>6. u \in [1..m -> Seq(N)] /\ v \in [1..m -> Seq(I)]  BY <1>3, <1>5
  <1>7. u \in Seq(Seq(N)) /\ v \in Seq(Seq(I)) /\ Len(u) = m /\ Len(v) = m  BY <1>6, Enlisted
  <1>8. Concat(u) \in Seq(N) /\ Len(Concat(u)) = Total(Lens(u))  BY <1>7, FlattenIs
  <1>9. Concat(v) \in Seq(I) /\ Len(Concat(v)) = Total(Lens(v))  BY <1>7, FlattenIs
  <1>10. Lens(u) = Lens(v)  BY <1>3 DEF Lens
  <1>11. Total(w) \in Int
    <2>1. w \in Seq(Int)  BY <1>4
    <2> QED  BY <2>1, TotalIsInt
  <1> QED  BY <1>1, <1>5, <1>7, <1>8, <1>9, <1>10, <1>11 DEF Spans

\* The axes that the first items leave are the first of all of them.
LEMMA FirstAxes ==
  ASSUME NEW m \in Nat, NEW part, Portioned(part, m), NEW j \in 0..m
  PROVE  Len(Concat([k \in 1..j |-> part[k].lens])) \in 0..Len(Concat(Lensof(part)))
  <1>1. PICK u : u = Lensof(part)  OBVIOUS
  <1>2. PICK N : N = Nat  OBVIOUS
  <1>3. u \in Seq(Seq(N)) /\ Len(u) = m  BY <1>1, <1>2, FreeAxes
  <1>4. PICK z : z = SubSeq(u, 1, j)  OBVIOUS
  <1>5. z = [k \in 1..j |-> part[k].lens]
    <2>1. \A k \in 1..j : u[k] = part[k].lens  BY <1>1 DEF Lensof, Portioned
    <2>2. z = [k \in 1..j |-> u[k]]  BY <1>3, <1>4
    <2> QED  BY <2>1, <2>2
  <1>6. PICK W : W = Seq(N)  OBVIOUS
  <1>7. u \in Seq(W) /\ j \in 0..Len(u)  BY <1>3, <1>6
  <1>8. z \in Seq(W) /\ Len(z) = j  BY <1>4, <1>7, Cuts
  <1>9. z \in Seq(Seq(N))  BY <1>6, <1>8
  <1>10. PICK s, t : s = Lens(z) /\ t = Lens(u)  OBVIOUS
  <1>11. Len(Concat(z)) = Total(s) /\ s \in Seq(Nat)  BY <1>9, <1>10, FlattenIs
  <1>12. Len(Concat(u)) = Total(t) /\ t \in Seq(Nat)  BY <1>3, <1>10, FlattenIs
  <1>13. Len(t) = m /\ Len(s) = j  BY <1>3, <1>8, <1>10 DEF Lens
  <1>14. s = SubSeq(t, 1, j)
    <2>1. t \in Seq(N) /\ s \in Seq(N)  BY <1>2, <1>11, <1>12
    <2>2. j \in 0..Len(t)  BY <1>13
    <2>3. PICK y : y = SubSeq(t, 1, j)  OBVIOUS
    <2>4. y \in Seq(N) /\ Len(y) = j  BY <2>1, <2>2, <2>3, Cuts
    <2>5. \A k \in 1..j : s[k] = y[k]
      <3> TAKE k \in 1..j
      <3>1. k \in DOMAIN z /\ k \in DOMAIN u  BY <1>3, <1>8
      <3>2. s[k] = Len(z[k]) /\ t[k] = Len(u[k])  BY <1>10, <3>1 DEF Lens
      <3>3. z[k] = u[k]  BY <1>3, <1>4
      <3>4. y[k] = t[k]  BY <1>12, <1>13, <2>3
      <3> QED  BY <3>2, <3>3, <3>4
    <2>6. Len(s) = Len(y) /\ \A k \in 1..Len(s) : s[k] = y[k]  BY <1>13, <2>4, <2>5
    <2> QED  BY <2>1, <2>3, <2>4, <2>6, SameSeq
  <1>15. Total(SubSeq(t, 1, j)) \in Nat /\ Total(SubSeq(t, 1, j)) <= Total(t)  BY <1>12, <1>13, HeadTotals
  <1>16. Total(t) \in Nat  BY <1>12, NatTotal
  <1> QED  BY <1>1, <1>5, <1>11, <1>12, <1>14, <1>15, <1>16

\* The window of a key.
LEMMA WindowOfLaid ==
  ASSUME NEW a, Laid(a), NEW m \in Nat, NEW part, DOMAIN part = 1..m,
         \A k \in 1..m : part[k] = Raised \/ Left(part[k])
  PROVE  Sound(Window(a, part))
  <1>1. CASE \E k \in DOMAIN part : part[k] = Raised  BY <1>1 DEF Window, Sound
  <1>2. CASE ~\E k \in DOMAIN part : part[k] = Raised
    <2>1. Portioned(part, m)  BY <1>2 DEF Portioned
    <2>2. PICK s, t, o : s = Concat(Lensof(part)) /\ t = Concat(Stepsof(part)) /\ o = a.offset + Total(Offsetsof(part))
      OBVIOUS
    <2>3. Spans(s, t)  BY <2>1, <2>2, FreeAxes
    <2>4. o \in Int
      <3>1. Total(Offsetsof(part)) \in Int  BY <2>1, FreeAxes
      <3> QED  BY <2>2, <3>1, LaidIs
    <2>5. Window(a, part) = View(a, s, t, o)  BY <1>2, <2>2 DEF Window, Lensof, Stepsof, Offsetsof
    <2> QED  BY <2>3, <2>4, <2>5, WindowLaid DEF Sound
  <1> QED  BY <1>1, <1>2

\* get_view, for every key.
LEMMA GetViewLaid ==
  ASSUME NEW a, Laid(a), NEW V, Words(V), NEW key \in Seq(V)
  PROVE  Sound(get_view(a, key))
  <1>1. PICK items : items = whole_key(key, Len(a.shape))  OBVIOUS
  <1>2. PICK n \in Nat : n = Len(a.shape)  BY LaidIs
  <1>3. items = whole_key(key, n)  BY <1>1, <1>2
  <1>4. CASE items = Raised  BY <1>1, <1>4 DEF get_view, Sound
  <1>5. CASE items # Raised
    <2>1. items \in Seq(Plain(V)) /\ Consumed(items) = n  BY <1>3, <1>5, WholeIs
    <2>2. PICK part : part = Parts(a, items)  OBVIOUS
    <2>3. DOMAIN part = 1..Len(items) /\ \A k \in 1..Len(items) : part[k] = Raised \/ Left(part[k])
      BY <1>2, <2>1, <2>2, PartsAre
    <2>4. PICK m \in Nat : m = Len(items)  BY <2>1
    <2>5. Sound(Window(a, part))  BY <2>3, <2>4, WindowOfLaid
    <2> QED  BY <1>1, <1>5, <2>2, <2>5 DEF get_view
  <1> QED  BY <1>4, <1>5

----------------------------------------------------------------------------
(* Index arrays.                                                              *)

\* The positions of a set, in order.
LEMMA HitsAre ==
  ASSUME NEW n \in Int, NEW S \in SUBSET (0..n), NEW q, q = Ascending(S)
  PROVE  q \in Seq(S) /\ Len(q) = Cardinality(S) /\ Len(q) \in Nat
  <1>1. IsFiniteSet(0..n)  BY FS_Interval
  <1>7. PICK U : U = 0..n  OBVIOUS
  <1>8. IsFiniteSet(U) /\ S \in SUBSET U  BY <1>1, <1>7
  <1>9. IsFiniteSet(S)  BY <1>8, FS_Subset
  <1>2. IsFiniteSet(S) /\ S \in SUBSET Int  BY <1>9
  <1>3. PICK c \in Nat : c = Cardinality(S)  BY <1>2, FS_CardinalityType
  <1>4. ListsAll(q, S)  BY <1>2, AscendingIs
  <1>5. q = [k \in 1..c |-> q[k]] /\ \A i \in 1..c : q[i] \in S  BY <1>3, <1>4 DEF ListsAll
  <1>6. q \in [1..c -> S]  BY <1>5
  <1> QED  BY <1>3, <1>6, Enlisted

\* Index arrays have shapes.
Shaped(U) == \A y \in U : y.shape \in Seq(Nat)

\* The elements of a sequence.
LEMMA SetOfSeq ==
  ASSUME NEW S, NEW s \in Seq(S)
  PROVE  s \in Seq(ToSet(s)) /\ ToSet(s) \in SUBSET S
  <1>1. PICK n \in Nat : n = Len(s) /\ s \in [1..n -> S] /\ DOMAIN s = 1..n  OBVIOUS
  <1>2. \A i \in 1..n : s[i] \in ToSet(s)  BY <1>1 DEF ToSet
  <1>3. s \in [1..n -> ToSet(s)]  BY <1>1, <1>2
  <1>4. ToSet(s) \in SUBSET S  BY <1>1 DEF ToSet
  <1> QED  BY <1>3, <1>4, Enlisted

\* Index arrays of a key have shapes.
LEMMA AdvancesAre ==
  ASSUME NEW a, NEW x, Legal(x), NEW axis, NEW s, s = Advances(a, x, axis)
  PROVE  s \in Seq(ToSet(s)) /\ Shaped(ToSet(s))
  <1>0. ASSUME NEW S, s \in Seq(S), Shaped(S)
        PROVE  s \in Seq(ToSet(s)) /\ Shaped(ToSet(s))
    BY <1>0, SetOfSeq DEF Shaped
  <1>1. CASE x.kind = "array" /\ x.shape \in Seq(Nat)
    <2>1. PICK r : r = [axis |-> axis, shape |-> x.shape, vals |-> x.vals]  OBVIOUS
    <2>2. s = <<r>>  BY <1>1, <2>1 DEF Advances
    <2>3. s \in Seq({r})  BY <2>2
    <2>4. r.shape = x.shape  BY <2>1
    <2>5. Shaped({r})  BY <1>1, <2>4 DEF Shaped
    <2> QED  BY <1>0, <2>3, <2>5
  <1>2. CASE x.kind = "mask" /\ x.shape \in Seq(Nat) /\ x.shape = << >>
    <2>8. PICK c \in Nat : c = (IF x.vals[1] THEN 1 ELSE 0)  OBVIOUS
    <2>1. PICK v : v = (IF x.vals[1] THEN <<0>> ELSE << >>)  OBVIOUS
    <2>2. PICK r : r = [axis |-> 0, shape |-> <<c>>, vals |-> v]  OBVIOUS
    <2>3. s = <<r>>
      <3>1. x.kind = "mask" /\ x.kind # "array"  BY <1>2
      <3>2. s = <<[axis |-> 0, shape |-> <<IF x.vals[1] THEN 1 ELSE 0>>, vals |-> IF x.vals[1] THEN <<0>> ELSE << >>]>>
        BY <1>2, <3>1, Zenon DEF Advances
      <3> QED  BY <2>1, <2>2, <2>8, <3>2
    <2>4. s \in Seq({r})  BY <2>3
    <2>5. r.shape = <<c>>  BY <2>2
    <2>6. <<c>> \in Seq(Nat)  OBVIOUS
    <2>7. Shaped({r})  BY <2>5, <2>6 DEF Shaped
    <2> QED  BY <1>0, <2>4, <2>7
  <1>3. CASE x.kind = "mask" /\ x.shape \in Seq(Nat) /\ x.shape # << >>
    <2>1. PICK n \in Int : n = Size(x.shape) - 1  BY <1>3, SizeIs
    <2>2. PICK S, hits : S = {k \in 0..n : x.vals[k + 1]} /\ hits = Ascending(S)  OBVIOUS
    <2>3. S \in SUBSET (0..n)  BY <2>2
    <2>4. PICK c \in Nat : c = Len(hits)  BY <2>2, <2>3, HitsAre
    <2> DEFINE v(e) == [i \in DOMAIN hits |-> Position(x.shape, hits[i])[e]]
               rec(e) == [axis |-> axis + e - 1, shape |-> <<c>>, vals |-> v(e)]
    <2>5. s = [e \in DOMAIN x.shape |-> rec(e)]
      <3>1. x.kind = "mask" /\ x.kind # "array"  BY <1>3
      <3>2. s = expand_bool(x, axis)  BY <1>3, <3>1, Zenon DEF Advances
      <3> QED  BY <2>1, <2>2, <2>4, <3>2 DEF expand_bool
    <2> HIDE DEF v
    <2>6. \A e : rec(e).shape \in Seq(Nat)
      <3>1. <<c>> \in Seq(Nat)  OBVIOUS
      <3> QED  BY <3>1
    <2> HIDE DEF rec
    <2>7. PICK m \in Nat : m = Len(x.shape) /\ DOMAIN x.shape = 1..m  BY <1>3
    <2>8. PICK R : R = {rec(e) : e \in 1..m}  OBVIOUS
    <2>9. s \in [1..m -> R]  BY <2>5, <2>7, <2>8
    <2>10. s \in Seq(R)  BY <2>9, Enlisted
    <2>11. Shaped(R)  BY <2>6, <2>8 DEF Shaped
    <2> QED  BY <1>0, <2>10, <2>11
  <1>4. CASE x.kind \in {"newaxis", "ellipsis", "index", "slice"}
    <2>1. x.kind # "array" /\ x.kind # "mask"  BY <1>4
    <2>2. s = << >>  BY <2>1, Zenon DEF Advances
    <2>3. s \in Seq({}) /\ Shaped({})  BY <2>2 DEF Shaped
    <2> QED  BY <1>0, <2>3
  <1> QED  BY <1>1, <1>2, <1>3, <1>4 DEF Legal

\* The index arrays of a whole key.
Advs(a, items) == [k \in DOMAIN items |-> Advances(a, items[k], AxisAt(items, k))]

\* ... all of them.
LEMMA AdvsAre ==
  ASSUME NEW a, NEW V, Words(V), NEW items \in Seq(V), NEW s, s = Concat(Advs(a, items))
  PROVE  Len(s) \in Nat /\ DOMAIN s = 1..Len(s) /\ \A i \in 1..Len(s) : s[i].shape \in Seq(Nat)
  <1>1. PICK m \in Nat : m = Len(items) /\ DOMAIN items = 1..m /\ \A k \in 1..m : items[k] \in V  OBVIOUS
  <1>2. PICK z : z = Advs(a, items)  OBVIOUS
  <1>3. DOMAIN z = 1..m /\ \A k \in 1..m : z[k] = Advances(a, items[k], AxisAt(items, k))
    BY <1>1, <1>2 DEF Advs
  <1>4. \A k \in 1..m : z[k] \in Seq(ToSet(z[k])) /\ Shaped(ToSet(z[k]))
    <2> TAKE k \in 1..m
    <2>1. PICK x, d : x = items[k] /\ d = AxisAt(items, k)  OBVIOUS
    <2>2. Legal(x)  BY <1>1, <2>1 DEF Words
    <2>3. z[k] = Advances(a, x, d)  BY <1>3, <2>1
    <2> QED  BY <2>2, <2>3, AdvancesAre
  <1>5. PICK U : U = UNION {ToSet(z[k]) : k \in 1..m}  OBVIOUS
  <1>6. Shaped(U)  BY <1>4, <1>5 DEF Shaped
  <1>7. \A k \in 1..m : z[k] \in Seq(U)
    <2> TAKE k \in 1..m
    <2>1. PICK y, T : y = z[k] /\ T = ToSet(z[k])  OBVIOUS
    <2>2. y \in Seq(T) /\ T \in SUBSET U  BY <1>4, <1>5, <2>1
    <2>3. PICK n \in Nat : n = Len(y) /\ y \in [1..n -> T]  BY <2>2
    <2>4. y \in [1..n -> U]  BY <2>2, <2>3
    <2>5. y \in Seq(U)  BY <2>4, Enlisted
    <2> QED  BY <2>1, <2>5
  <1>8. z \in Seq(Seq(U))
    <2>1. z = [k \in 1..m |-> z[k]]  BY <1>2, <1>3 DEF Advs
    <2>2. PICK W : W = Seq(U)  OBVIOUS
    <2>3. z \in [1..m -> W]  BY <1>7, <2>1, <2>2
    <2>4. z \in Seq(W)  BY <2>3, Enlisted
    <2> QED  BY <2>2, <2>4
  <1>9. Concat(z) \in Seq(U)  BY <1>8, FlattenIs
  <1>10. s \in Seq(U)  BY <1>2, <1>9
  <1>11. Len(s) \in Nat /\ DOMAIN s = 1..Len(s) /\ \A i \in 1..Len(s) : s[i] \in U  BY <1>10
  <1> QED  BY <1>6, <1>11 DEF Shaped

\* A plan: the shape of the result and the place of the block of the index arrays.
Planned(p) ==
    /\ p.shape \in Seq(Nat) /\ p.at \in Nat /\ p.ndim \in Nat /\ p.at + p.ndim <= Len(p.shape)

\* The plan of a key with index arrays has a shape and a place for the block.
LEMMA PlanOfIs ==
  ASSUME NEW a, NEW m \in Nat, NEW part, Portioned(part, m), NEW advs, NEW block \in Seq(Nat), NEW reads,
         NEW at \in 0..Len(Concat(Lensof(part)))
  PROVE  Planned(PlanOf(a, part, advs, block, reads, at))
  <1>1. PICK free : free = Concat(Lensof(part))  OBVIOUS
  <1>2. free \in Seq(Nat) /\ at \in 0..Len(free)  BY <1>1, FreeAxes DEF Spans
  <1>3. PICK N, b : N = Nat /\ b = block  OBVIOUS
  <1>4. free \in Seq(N) /\ b \in Seq(N) /\ Len(b) \in Nat /\ Len(free) \in Nat  BY <1>2, <1>3
  <1>5. PICK u, v : u = SubSeq(free, 1, at) /\ v = SubSeq(free, at + 1, Len(free))  OBVIOUS
  <1>6. u \in Seq(N) /\ Len(u) = at /\ v \in Seq(N) /\ Len(v) = Len(free) - at  BY <1>2, <1>4, <1>5, Cuts
  <1>7. PICK w : w = u \o b  OBVIOUS
  <1>8. w \in Seq(N) /\ Len(w) = Len(u) + Len(b)  BY <1>4, <1>6, <1>7, Joins
  <1>9. PICK out : out = w \o v  OBVIOUS
  <1>10. out \in Seq(N) /\ Len(out) = Len(w) + Len(v)  BY <1>6, <1>8, <1>9, Joins
  <1>11. PICK p : p = PlanOf(a, part, advs, block, reads, at)  OBVIOUS
  <1>12. p.shape = out /\ p.at = at /\ p.ndim = Len(b)
    BY <1>1, <1>3, <1>5, <1>7, <1>9, <1>11 DEF PlanOf, Lensof
  <1>13. at + Len(b) <= Len(out)  BY <1>2, <1>4, <1>6, <1>8, <1>10
  <1> QED  BY <1>2, <1>3, <1>4, <1>10, <1>11, <1>12, <1>13 DEF Planned

\* plan raises or gives such a plan.
LEMMA PlanIs ==
  ASSUME NEW a, Laid(a), NEW V, Words(V), NEW key \in Seq(V), has_advanced(key)
  PROVE  plan(a, key) = Raised \/ Planned(plan(a, key))
  <1>1. PICK n \in Nat : n = Len(a.shape)  BY LaidIs
  <1>2. PICK items : items = whole_key(key, n)  OBVIOUS
  <1>3. CASE items = Raised  BY <1>1, <1>2, <1>3 DEF plan
  <1>4. CASE items # Raised
    <2>1. items \in Seq(Plain(V)) /\ Consumed(items) = n /\ has_advanced(items)  BY <1>2, <1>4, WholeIs
    <2>2. PICK P : P = Plain(V)  OBVIOUS
    <2>3. Words(P) /\ items \in Seq(P)  BY <2>1, <2>2, PlainWords
    <2>4. PICK part, advs : part = Parts(a, items) /\ advs = Concat(Advs(a, items))  OBVIOUS
    <2>5. plan(a, key) = PlanFor(a, items, part, advs)  BY <1>1, <1>2, <1>4, <2>4 DEF plan, Advs
    <2>6. PICK m \in Nat : m = Len(items) /\ DOMAIN items = 1..m  BY <2>1
    <2>7. DOMAIN part = 1..m /\ \A k \in 1..m : part[k] = Raised \/ Left(part[k])
      BY <1>1, <2>1, <2>4, <2>6, PartsAre
    <2>8. Len(advs) \in Nat /\ DOMAIN advs = 1..Len(advs) /\ \A i \in 1..Len(advs) : advs[i].shape \in Seq(Nat)
      BY <2>3, <2>4, AdvsAre
    <2>9. PICK shapes : shapes = [i \in DOMAIN advs |-> advs[i].shape]  OBVIOUS
    <2>10. Shapely(shapes)
      <3>1. PICK c \in Nat : c = Len(advs)  BY <2>8
      <3>2. shapes = [i \in 1..c |-> advs[i].shape]  BY <2>8, <2>9, <3>1
      <3>3. shapes \in [1..c -> Seq(Nat)]  BY <2>8, <3>1, <3>2
      <3>4. Len(shapes) = c /\ DOMAIN shapes = 1..c  BY <3>2
      <3> QED  BY <3>3, <3>4 DEF Shapely
    <2>11. PICK block : block = broadcast_shapes(shapes)  OBVIOUS
    <2>12. block = Raised \/ block \in Seq(Nat)  BY <2>10, <2>11, BroadcastIs
    <2>13. CASE \E k \in DOMAIN items : \/ part[k] = Raised
                                        \/ ~MaskFits(a, items[k], AxisAt(items, k))
      BY <2>5, <2>13 DEF PlanFor
    <2>14. CASE ~\E k \in DOMAIN items : \/ part[k] = Raised
                                         \/ ~MaskFits(a, items[k], AxisAt(items, k))
      <3>1. plan(a, key) = PlanIn(a, items, part, advs, block)  BY <2>5, <2>9, <2>11, <2>14 DEF PlanFor
      <3>2. Portioned(part, m)  BY <2>6, <2>7, <2>14 DEF Portioned
      <3>3. PICK S : S = {k \in DOMAIN items : is_advanced(items[k])}  OBVIOUS
      <3>4. S \in SUBSET (0..m) /\ S # {} /\ S \in SUBSET (1..m)  BY <2>1, <2>6, <3>3 DEF has_advanced
      <3>5. PICK first : first = Min(S)  OBVIOUS
      <3>6. first \in 1..m /\ first - 1 \in 0..m
        <4>1. first \in S  BY <3>4, <3>5, Extremes
        <4> QED  BY <3>4, <4>1
      <3>7. PICK at : at = IF BlockLeads(items) THEN 0
                           ELSE Len(Concat([k \in 1..first - 1 |-> part[k].lens]))
        OBVIOUS
      <3>8. at \in 0..Len(Concat(Lensof(part)))
        <4>1. Len(Concat([k \in 1..first - 1 |-> part[k].lens])) \in 0..Len(Concat(Lensof(part)))
          BY <3>2, <3>6, FirstAxes
        <4> QED  BY <3>7, <4>1
      <3>9. plan(a, key) = IF block = Raised THEN Raised
                           ELSE IF ~InBounds(a, advs, Reads(advs, block)) THEN Raised
                           ELSE PlanOf(a, part, advs, block, Reads(advs, block), at)
        BY <3>1, <3>3, <3>5, <3>7 DEF PlanIn
      <3>10. block # Raised => Planned(PlanOf(a, part, advs, block, Reads(advs, block), at))
        BY <2>12, <3>2, <3>8, PlanOfIs
      <3> QED  BY <3>9, <3>10
    <2> QED  BY <2>13, <2>14
  <1> QED  BY <1>3, <1>4

----------------------------------------------------------------------------
(* getitem.                                                                   *)

\* gather gives a new array of the shape asked for.
LEMMA GatherLaid ==
  ASSUME NEW a, NEW shape \in Seq(Nat), NEW cells
  PROVE  Laid(gather(a, shape, cells)) /\ gather(a, shape, cells).shape = shape
  BY FromBufferLaid DEF gather

\* gather_perm is a permutation of the axes of the plan.
LEMMA GatherPermIs ==
  ASSUME NEW p, Planned(p)
  PROVE  /\ Lists(gather_perm(p), Len(p.shape), Len(p.shape))
         /\ \A g \in 1..Len(p.shape) : \E i \in 1..Len(p.shape) : gather_perm(p)[i] = g
  <1>1. PICK n, t, c \in Nat : n = Len(p.shape) /\ t = p.at /\ c = p.ndim  BY DEF Planned
  <1>2. DOMAIN p.shape = 1..n /\ t + c <= n  BY <1>1 DEF Planned
  <1>3. PICK q : q = gather_perm(p)  OBVIOUS
  <1>4. q = [i \in 1..n |-> IF i <= t THEN c + i ELSE IF i <= t + c THEN i - t ELSE i]
    BY <1>1, <1>2, <1>3 DEF gather_perm
  <1>5. q \in [1..n -> 1..n]  BY <1>2, <1>4
  <1>6. ASSUME NEW g \in 1..n  PROVE \E i \in 1..n : q[i] = g
    <2>1. CASE g <= c
      <3>1. g + t \in 1..n /\ ~(g + t <= t) /\ g + t <= t + c /\ g + t - t = g  BY <1>2, <2>1
      <3>2. q[g + t] = g  BY <1>4, <3>1
      <3> QED  BY <3>1, <3>2
    <2>2. CASE ~(g <= c) /\ g <= t + c
      <3>1. g - c \in 1..n /\ g - c <= t /\ c + (g - c) = g  BY <1>2, <2>2
      <3>2. q[g - c] = g  BY <1>4, <3>1
      <3> QED  BY <3>1, <3>2
    <2>3. CASE ~(g <= t + c)
      <3>1. q[g] = g  BY <1>4, <2>3
      <3> QED  BY <3>1
    <2> QED  BY <2>1, <2>2, <2>3
  <1> QED  BY <1>1, <1>3, <1>5, <1>6 DEF Lists

\* What a plan fetches.
LEMMA FetchedLaid ==
  ASSUME NEW a, NEW p, p = Raised \/ Planned(p)
  PROVE  Sound(Fetched(a, p))
  <1>1. CASE p = Raised  BY <1>1 DEF Fetched, Sound
  <1>2. CASE p # Raised /\ (p.at = 0 \/ p.ndim = 0)
    <2>1. p.shape \in Seq(Nat)  BY <1>2 DEF Planned
    <2>2. Fetched(a, p) = gather(a, p.shape, p.cells)  BY <1>2 DEF Fetched
    <2> QED  BY <2>1, <2>2, GatherLaid DEF Sound
  <1>3. CASE p # Raised /\ ~(p.at = 0 \/ p.ndim = 0)
    <2>1. Planned(p)  BY <1>3
    <2>2. PICK n \in Nat : n = Len(p.shape) /\ DOMAIN p.shape = 1..n  BY <2>1 DEF Planned
    <2>3. PICK q : q = gather_perm(p)  OBVIOUS
    <2>4. Lists(q, n, n) /\ \A g \in 1..n : \E i \in 1..n : q[i] = g  BY <2>1, <2>2, <2>3, GatherPermIs
    <2>5. PICK s, cells : s = gather_order(p).shape /\ cells = gather_order(p).cells  OBVIOUS
    <2>6. s = [g \in 1..n |-> p.shape[CHOOSE i \in DOMAIN q : q[i] = g]]  BY <2>2, <2>3, <2>5 DEF gather_order
    <2>7. DOMAIN q = 1..n  BY <2>4 DEF Lists
    <2>8. s \in [1..n -> Nat]
      <3>1. ASSUME NEW g \in 1..n  PROVE p.shape[CHOOSE i \in DOMAIN q : q[i] = g] \in Nat
        <4>1. PICK i : i = CHOOSE j \in DOMAIN q : q[j] = g  OBVIOUS
        <4>2. i \in 1..n  BY <2>4, <2>7, <4>1
        <4>3. p.shape[i] \in Nat  BY <2>1, <2>2, <4>2 DEF Planned
        <4> QED  BY <4>1, <4>3
      <3> QED  BY <2>6, <3>1
    <2>9. s \in Seq(Nat) /\ Len(s) = n  BY <2>8, Enlisted
    <2>10. PICK b : b = gather(a, s, cells)  OBVIOUS
    <2>11. Laid(b) /\ b.shape = s  BY <2>9, <2>10, GatherLaid
    <2>12. Lists(q, n, Len(b.shape))  BY <2>4, <2>9, <2>11
    <2>13. PICK r : r = transpose_axes(b, q)  OBVIOUS
    <2>14. Laid(r)  BY <2>11, <2>12, <2>13, TransposeLaid
    <2>15. Fetched(a, p) = [r EXCEPT !.fresh = TRUE]  BY <1>3, <2>3, <2>5, <2>10, <2>13 DEF Fetched
    <2>16. PICK t : t = TRUE  OBVIOUS
    <2>17. r = [buf |-> r.buf, shape |-> r.shape, strides |-> r.strides, offset |-> r.offset, fresh |-> r.fresh]
      BY <2>14 DEF Laid
    <2>18. [r EXCEPT !.fresh = t] =
             [buf |-> r.buf, shape |-> r.shape, strides |-> r.strides, offset |-> r.offset, fresh |-> t]
      BY <2>17
    <2>19. Laid([r EXCEPT !.fresh = t])  BY <2>14, <2>18 DEF Laid
    <2> QED  BY <2>15, <2>16, <2>19 DEF Sound
  <1> QED  BY <1>1, <1>2, <1>3

\* getitem, for every key.
LEMMA GetItemLaid ==
  ASSUME NEW a, Laid(a), NEW V, Words(V), NEW key \in Seq(V)
  PROVE  Sound(getitem(a, key))
  <1>1. CASE has_advanced(key)
    <2>1. PICK p : p = plan(a, key)  OBVIOUS
    <2>2. p = Raised \/ Planned(p)  BY <1>1, <2>1, PlanIs
    <2>3. getitem(a, key) = Fetched(a, p)  BY <1>1, <2>1 DEF getitem
    <2> QED  BY <2>2, <2>3, FetchedLaid
  <1>2. CASE ~has_advanced(key)
    <2>1. getitem(a, key) = get_view(a, key)  BY <1>2 DEF getitem
    <2> QED  BY <2>1, GetViewLaid
  <1> QED  BY <1>1, <1>2

----------------------------------------------------------------------------
(* Cutting and joining.                                                       *)

\* A segment of an axis.
LEMMA SegmentLaid ==
  ASSUME NEW a, Laid(a), NEW d, NEW from \in Int, NEW to \in Int
  PROVE  Sound(slice_segment(a, d, from, to))
  <1>1. PICK x : x = [kind |-> "slice", start |-> from, stop |-> to, step |-> 1]  OBVIOUS
  <1>2. PICK V : V = {x, FullSlice}  OBVIOUS
  <1>3. Legal(x)  BY <1>1 DEF Legal
  <1>4. Legal(FullSlice)  BY DEF Legal, FullSlice
  <1>5. Words(V)  BY <1>2, <1>3, <1>4 DEF Words
  <1>6. PICK n \in Nat : n = Len(a.shape) /\ DOMAIN a.shape = 1..n  BY LaidIs
  <1>7. PICK key : key = [e \in DOMAIN a.shape |-> IF e = d THEN x ELSE FullSlice]  OBVIOUS
  <1>8. key \in [1..n -> V]  BY <1>2, <1>6, <1>7
  <1>9. key \in Seq(V)  BY <1>8, Enlisted
  <1>10. slice_segment(a, d, from, to) = get_view(a, key)  BY <1>1, <1>7 DEF slice_segment
  <1> QED  BY <1>5, <1>9, <1>10, GetViewLaid

\* Every piece of a split is an array.
LEMMA SplitSound ==
  ASSUME NEW a, Laid(a), NEW sections \in Int, NEW indices \in Seq(Int) \cup {None}, NEW axis \in Int,
         NEW r, r = array_split(a, sections, indices, axis), r # Raised, NEW i \in DOMAIN r
  PROVE  Sound(r[i])
  <1>1. PICK d : d = normalize_axis(axis, Len(a.shape))  OBVIOUS
  <1>2. d = Raised \/ d \in 1..Len(a.shape)  BY <1>1, NormAxisIs, LaidIs
  <1>3. PICK bounds : bounds = IF indices = None THEN section_bounds(a.shape[d], sections)
                               ELSE <<0>> \o indices \o <<a.shape[d]>>
    OBVIOUS
  <1>4. /\ d # Raised /\ ~(indices = None /\ sections <= 0)
        /\ r = [j \in 1..Len(bounds) - 1 |-> slice_segment(a, d, bounds[j], bounds[j + 1])]
    BY <1>1, <1>3 DEF array_split
  <1>5. d \in 1..Len(a.shape)  BY <1>2, <1>4
  <1>6. PICK n \in Nat : n = a.shape[d]  BY <1>5, LaidIs
  <1>7. bounds \in Seq(Int)
    <2>1. CASE indices = None
      <3>1. PICK c \in Nat \ {0} : c = sections  BY <1>4, <2>1
      <3>2. n \div c \in Int /\ n % c \in Int  BY DivMod
      <3>3. PICK x, y \in Int : x = n \div c /\ y = n % c  BY <3>2
      <3>4. bounds = [j \in 1..c + 1 |-> (j - 1) * x + Min({j - 1, y})]
        BY <1>3, <1>6, <2>1, <3>1, <3>3 DEF section_bounds
      <3>5. \A j \in 1..c + 1 : (j - 1) * x + Min({j - 1, y}) \in Int
        <4> TAKE j \in 1..c + 1
        <4>1. PICK k \in Int : k = j - 1  OBVIOUS
        <4>2. k * x \in Int  OBVIOUS
        <4>3. Min({k, y}) \in Int  BY MinMaxTwo
        <4> QED  BY <4>1, <4>2, <4>3
      <3>6. bounds \in [1..c + 1 -> Int]  BY <3>4, <3>5
      <3> QED  BY <3>6
    <2>2. CASE indices # None
      <3>1. PICK I, u, v, w : I = Int /\ u = <<0>> /\ v = indices /\ w = <<n>>  OBVIOUS
      <3>2. u \in Seq(I) /\ v \in Seq(I) /\ w \in Seq(I)  BY <2>2, <3>1
      <3>3. PICK y : y = u \o v  OBVIOUS
      <3>4. y \in Seq(I)  BY <3>2, <3>3, Joins
      <3>5. y \o w \in Seq(I)  BY <3>2, <3>4, Joins
      <3>6. bounds = y \o w  BY <1>3, <1>6, <2>2, <3>1, <3>3
      <3> QED  BY <3>1, <3>5, <3>6
    <2> QED  BY <2>1, <2>2
  <1>8. i \in 1..Len(bounds) - 1 /\ r[i] = slice_segment(a, d, bounds[i], bounds[i + 1])  BY <1>4
  <1>9. bounds[i] \in Int /\ bounds[i + 1] \in Int
    <2>1. i \in 1..Len(bounds) /\ i + 1 \in 1..Len(bounds)  BY <1>7, <1>8
    <2> QED  BY <1>7, <2>1
  <1> QED  BY <1>8, <1>9, SegmentLaid

----------------------------------------------------------------------------
(* Joining and repeating.                                                     *)

\* One element replaced.
LEMMA Put1Is ==
  ASSUME NEW V, NEW s \in Seq(V), NEW d, NEW x, d \in DOMAIN s => x \in V
  PROVE  Put1(s, d, x) \in Seq(V) /\ Len(Put1(s, d, x)) = Len(s)
  <1>1. PICK n \in Nat : n = Len(s) /\ DOMAIN s = 1..n  OBVIOUS
  <1>2. PICK q : q = Put1(s, d, x)  OBVIOUS
  <1>3. q = [e \in 1..n |-> IF e = d THEN x ELSE s[e]]  BY <1>1, <1>2 DEF Put1
  <1>4. q \in [1..n -> V]
    <2>1. ASSUME NEW e \in 1..n  PROVE q[e] \in V
      <3>1. CASE e = d
        <4>1. q[e] = x  BY <1>3, <3>1
        <4>2. d \in DOMAIN s  BY <1>1, <3>1
        <4> QED  BY <4>1, <4>2
      <3>2. CASE e # d
        <4>1. q[e] = s[e]  BY <1>3, <3>2
        <4> QED  BY <1>1, <4>1
      <3> QED  BY <3>1, <3>2
    <2> QED  BY <1>3, <2>1
  <1>5. q \in Seq(V) /\ Len(q) = n  BY <1>4, Enlisted
  <1> QED  BY <1>1, <1>2, <1>5

\* m arrays, one after the other.
Arrays(s, m) == DOMAIN s = 1..m /\ \A i \in 1..m : Laid(s[i])

\* Arrays joined along an axis.
LEMMA JoinedLaid ==
  ASSUME NEW m \in Nat \ {0}, NEW arrays, Arrays(arrays, m), NEW d
  PROVE  Sound(Joined(arrays, d))
  <1>0. 1 \in 1..m  OBVIOUS
  <1>1. Laid(arrays[1]) /\ DOMAIN arrays = 1..m  BY <1>0 DEF Arrays
  <1>2. PICK n \in Nat : n = Len(arrays[1].shape) /\ DOMAIN arrays[1].shape = 1..n  BY <1>1, LaidIs
  <1>3. PICK t : t = [i \in DOMAIN arrays |-> arrays[i].shape[d]]  OBVIOUS
  <1>4. PICK shape : shape = Put1(arrays[1].shape, d, Total(t))  OBVIOUS
  <1>5. PICK bad, odd : /\ bad = (n = 0 \/ d = Raised \/ \E i \in DOMAIN arrays : Len(arrays[i].shape) # n)
                        /\ odd = (\E i \in DOMAIN arrays, e \in 1..n :
                                     e # d /\ arrays[i].shape[e] # arrays[1].shape[e])
    OBVIOUS
  <1>6. \/ Joined(arrays, d) = Raised
        \/ ~bad /\ \E buf : Joined(arrays, d) = from_buffer(buf, shape, "C")
    BY <1>2, <1>3, <1>4, <1>5 DEF Joined
  <1>7. CASE Joined(arrays, d) = Raised  BY <1>7 DEF Sound
  <1>8. CASE ~bad /\ \E buf : Joined(arrays, d) = from_buffer(buf, shape, "C")
    <2>1. \A i \in 1..m : Len(arrays[i].shape) = n  BY <1>1, <1>5, <1>8
    <2>2. d \in DOMAIN arrays[1].shape => Total(t) \in Nat
      <3>1. SUFFICES ASSUME d \in 1..n  PROVE Total(t) \in Nat  BY <1>2
      <3>2. ASSUME NEW i \in 1..m  PROVE t[i] \in Nat
        <4>1. Laid(arrays[i]) /\ Len(arrays[i].shape) = n  BY <2>1 DEF Arrays
        <4>2. arrays[i].shape \in Seq(Nat)  BY <4>1, LaidIs
        <4>3. t[i] = arrays[i].shape[d]  BY <1>1, <1>3
        <4> QED  BY <3>1, <4>1, <4>2, <4>3
      <3>3. t \in [1..m -> Nat]  BY <1>1, <1>3, <3>2
      <3>4. PICK N : N = Nat  OBVIOUS
      <3>5. t \in Seq(N)  BY <3>3, <3>4, Enlisted
      <3> QED  BY <3>4, <3>5, NatTotal
    <2>3. arrays[1].shape \in Seq(Nat)  BY <1>1, LaidIs
    <2>4. PICK N, u, x : N = Nat /\ u = arrays[1].shape /\ x = Total(t)  OBVIOUS
    <2>5. u \in Seq(N) /\ (d \in DOMAIN u => x \in N)  BY <2>2, <2>3, <2>4
    <2>6. Put1(u, d, x) \in Seq(N)  BY <2>5, Put1Is
    <2>7. shape \in Seq(Nat)  BY <1>4, <2>4, <2>6
    <2>8. PICK buf : Joined(arrays, d) = from_buffer(buf, shape, "C")  BY <1>8
    <2> QED  BY <2>7, <2>8, FromBufferLaid DEF Sound
  <1> QED  BY <1>6, <1>7, <1>8

\* concatenate, also when it raises.
LEMMA ConcatenateLaid ==
  ASSUME NEW m \in Nat \ {0}, NEW arrays, Arrays(arrays, m), NEW axis
  PROVE  Sound(concatenate(arrays, axis))
  <1>1. CASE axis = None
    <2>1. PICK s : s = [i \in DOMAIN arrays |-> Flat(arrays[i])]  OBVIOUS
    <2>2. Arrays(s, m)
      <3>1. DOMAIN s = 1..m  BY <2>1 DEF Arrays
      <3>2. ASSUME NEW i \in 1..m  PROVE Laid(s[i])
        <4>1. Laid(arrays[i]) /\ s[i] = Flat(arrays[i])  BY <2>1 DEF Arrays
        <4> QED  BY <4>1, FlatLaid
      <3> QED  BY <3>1, <3>2 DEF Arrays
    <2>3. concatenate(arrays, axis) = Joined(s, 1)  BY <1>1, <2>1 DEF concatenate
    <2> QED  BY <2>2, <2>3, JoinedLaid
  <1>2. CASE axis # None
    <2>1. concatenate(arrays, axis) = Joined(arrays, normalize_axis(axis, Len(arrays[1].shape)))
      BY <1>2 DEF concatenate
    <2> QED  BY <2>1, JoinedLaid
  <1> QED  BY <1>1, <1>2

\* stack, also when it raises.
LEMMA StackLaid ==
  ASSUME NEW m \in Nat \ {0}, NEW arrays, Arrays(arrays, m), NEW axis \in Int
  PROVE  Sound(stack(arrays, axis))
  <1>0. 1 \in 1..m  OBVIOUS
  <1>1. Laid(arrays[1]) /\ DOMAIN arrays = 1..m  BY <1>0 DEF Arrays
  <1>2. PICK n \in Nat : n = Len(arrays[1].shape)  BY <1>1, LaidIs
  <1>3. PICK d : d = normalize_axis(axis, n + 1)  OBVIOUS
  <1>4. n + 1 \in Nat  OBVIOUS
  <1>5. d = Raised \/ d \in 1..n + 1  BY <1>3, <1>4, NormAxisIs
  <1>6. PICK s : s = [i \in DOMAIN arrays |-> insert_newaxis(arrays[i], {d})]  OBVIOUS
  <1>7. PICK odd : odd = (\E i \in DOMAIN arrays : arrays[i].shape # arrays[1].shape)  OBVIOUS
  <1>8. CASE odd \/ d = Raised
    <2>1. stack(arrays, axis) = Raised  BY <1>2, <1>3, <1>7, <1>8 DEF stack
    <2> QED  BY <2>1 DEF Sound
  <1>9. CASE ~odd /\ d # Raised
    <2>1. d \in 1..n + 1  BY <1>5, <1>9
    <2>2. stack(arrays, axis) = concatenate(s, d - 1)  BY <1>2, <1>3, <1>6, <1>7, <1>9 DEF stack
    <2>3. PICK at : at = {d}  OBVIOUS
    <2>4. Fresher(at) /\ Cardinality(at) = 1
      <3>1. d \in Nat \ {0}  BY <2>1
      <3>2. IsFiniteSet({d}) /\ Cardinality({d}) = 1  BY FS_Singleton
      <3> QED  BY <2>3, <3>1, <3>2 DEF Fresher
    <2>5. Arrays(s, m)
      <3>1. DOMAIN s = 1..m  BY <1>1, <1>6
      <3>2. ASSUME NEW i \in 1..m  PROVE Laid(s[i])
        <4>1. PICK b : b = arrays[i]  OBVIOUS
        <4>2. Laid(b)  BY <4>1 DEF Arrays
        <4>3. Len(b.shape) = n  BY <1>1, <1>2, <1>7, <1>9, <4>1
        <4>4. \A e \in at : e <= Len(b.shape) + Cardinality(at)  BY <2>1, <2>3, <2>4, <4>3
        <4>5. Laid(insert_newaxis(b, at))  BY <2>4, <4>2, <4>4, NewAxisLaid
        <4> QED  BY <1>1, <1>6, <2>3, <4>1, <4>5
      <3> QED  BY <3>1, <3>2 DEF Arrays
    <2> QED  BY <2>2, <2>5, ConcatenateLaid
  <1> QED  BY <1>8, <1>9

\* A shape with as many axes of length one in front as it takes.
LEMMA PaddedIs ==
  ASSUME NEW s \in Seq(Nat), NEW n \in Nat, Len(s) <= n
  PROVE  PaddedTo(s, n) \in Seq(Nat) /\ Len(PaddedTo(s, n)) = n /\ Size(PaddedTo(s, n)) = Size(s)
  <1>1. PICK k \in Nat : k = n - Len(s)  OBVIOUS
  <1>2. PICK c : c = Max({0, n - Len(s)})  OBVIOUS
  <1>3. c = k
    <2>1. PICK i \in Int : i = k  OBVIOUS
    <2>2. c = Max({0, i})  BY <1>1, <1>2, <2>1
    <2>3. Max({0, i}) = IF i <= 0 THEN 0 ELSE i  BY MaxZero
    <2> QED  BY <2>1, <2>2, <2>3
  <1>4. PICK N : N = Nat  OBVIOUS
  <1>5. PICK u : u = [i \in 1..k |-> 1]  OBVIOUS
  <1>6. u \in [1..k -> N] /\ \A i \in 1..k : u[i] = 1  BY <1>4, <1>5
  <1>7. u \in Seq(N) /\ Len(u) = k  BY <1>6, Enlisted
  <1>8. s \in Seq(N)  BY <1>4
  <1>9. PICK v : v = u \o s  OBVIOUS
  <1>10. v \in Seq(N) /\ Len(v) = k + Len(s)  BY <1>7, <1>8, <1>9, Joins
  <1>11. PaddedTo(s, n) = v  BY <1>2, <1>3, <1>5, <1>9 DEF PaddedTo
  <1>12. Size(v) = Size(s)
    <2>1. PICK I : I = Int  OBVIOUS
    <2>2. u \in [1..k -> I]  BY <1>5, <2>1
    <2>3. u \in Seq(I) /\ s \in Seq(I)  BY <2>1, <2>2, Enlisted
    <2>4. Size(v) = Size(u) * Size(s)  BY <1>9, <2>1, <2>3, SizeConcat
    <2>5. Size(u) = 1
      <3>1. CASE k = 0  BY <1>7, <2>1, <2>3, <3>1, SizeEmpty
      <3>2. CASE k # 0
        <4>1. PICK d : d = 1  OBVIOUS
        <4>2. d \in 1..Len(u)  BY <1>7, <3>2, <4>1
        <4>3. \A e \in 1..Len(u) : e # d => u[e] = 1  BY <1>6, <1>7
        <4>4. u[d] = 1  BY <1>6, <1>7, <4>2
        <4> QED  BY <2>1, <2>3, <4>2, <4>3, <4>4, SizeUnit
      <3> QED  BY <3>1, <3>2
    <2>6. Size(s) \in Nat  BY SizeIs
    <2> QED  BY <2>4, <2>5, <2>6
  <1>13. k + Len(s) = n  BY <1>1
  <1> QED  BY <1>4, <1>10, <1>11, <1>12, <1>13

\* roll, for any shifts.
LEMMA RollLaid ==
  ASSUME NEW a, Laid(a), NEW shift, NEW axes
  PROVE  Sound(roll(a, shift, axes))
  <1>1. Laid(to_contiguous(a))  BY ContigLaid
  <1>2. Laid(zero_strides(to_contiguous(a)))  BY <1>1, ZeroStridesLaid
  <1>3. \/ roll(a, shift, axes) = to_contiguous(a)
        \/ roll(a, shift, axes) = zero_strides(to_contiguous(a))
        \/ \E buf : roll(a, shift, axes) = from_buffer(buf, a.shape, "C")
    BY DEF roll, Arranged
  <1>4. a.shape \in Seq(Nat)  BY LaidIs
  <1> QED  BY <1>1, <1>2, <1>3, <1>4, FromBufferLaid DEF Sound

\* One tiling.
LEMMA TiledLaid ==
  ASSUME NEW p, Laid(p), NEW full \in Seq(Nat), Len(full) = Len(p.shape)
  PROVE  Laid(Tiled(p, full))
  <1>1. PICK n \in Nat : n = Len(full) /\ DOMAIN full = 1..n  OBVIOUS
  <1>2. p.shape \in Seq(Nat) /\ Len(p.shape) = n  BY <1>1, LaidIs
  <1>3. PICK shape : shape = [d \in DOMAIN full |-> p.shape[d] * full[d]]  OBVIOUS
  <1>4. \A d \in 1..n : p.shape[d] * full[d] \in Nat
    <2> TAKE d \in 1..n
    <2>1. PICK x, y \in Nat : x = p.shape[d] /\ y = full[d]  BY <1>1, <1>2
    <2>2. x * y \in Nat  OBVIOUS
    <2> QED  BY <2>1, <2>2
  <1>5. shape \in [1..n -> Nat]  BY <1>1, <1>3, <1>4
  <1>6. shape \in Seq(Nat)  BY <1>5
  <1>7. \/ Tiled(p, full) = zero_strides(p)
        \/ Tiled(p, full) = p
        \/ Tiled(p, full) = Fresh(<<>>, shape, c_strides(shape))
        \/ \E buf : Tiled(p, full) = from_buffer(buf, shape, "C")
    BY <1>3 DEF Tiled, Arranged
  <1>8. Laid(Fresh(<<>>, shape, c_strides(shape)))  BY <1>6, StridesSpan, FreshLaid
  <1> QED  BY <1>6, <1>7, <1>8, ZeroStridesLaid, FromBufferLaid

\* tile, for any repetitions.
LEMMA TileLaid ==
  ASSUME NEW a, Laid(a), NEW reps \in Seq(Nat)
  PROVE  Sound(tile(a, reps))
  <1>1. PICK x, y \in Int : x = Len(a.shape) /\ y = Len(reps) /\ 0 <= x /\ 0 <= y  BY LaidIs
  <1>2. PICK n : n = Max({x, y})  OBVIOUS
  <1>3. n \in Nat /\ x <= n /\ y <= n
    <2>1. Max({x, y}) = IF x >= y THEN x ELSE y  BY MinMaxTwo
    <2> QED  BY <1>1, <1>2, <2>1
  <1>4. a.shape \in Seq(Nat)  BY LaidIs
  <1>5. PICK s, full : s = PaddedTo(a.shape, n) /\ full = PaddedTo(reps, n)  OBVIOUS
  <1>6. s \in Seq(Nat) /\ Len(s) = n /\ Size(s) = Size(a.shape)  BY <1>1, <1>3, <1>4, <1>5, PaddedIs
  <1>7. full \in Seq(Nat) /\ Len(full) = n  BY <1>1, <1>3, <1>5, PaddedIs
  <1>8. PICK p : p = reshape(a, s, "C")  OBVIOUS
  <1>9. Laid(p) /\ p.shape = s  BY <1>6, <1>8, ReshapeLaid
  <1>10. tile(a, reps) = Tiled(p, full)  BY <1>1, <1>2, <1>5, <1>8 DEF tile
  <1> QED  BY <1>6, <1>7, <1>9, <1>10, TiledLaid DEF Sound

\* A copy along an axis, by a map of its places.
LEMMA AlongAxisLaid ==
  ASSUME NEW a, Laid(a), NEW d, NEW mapping, d \in DOMAIN a.shape => Len(mapping) \in Nat
  PROVE  Sound(AlongAxis(a, d, mapping))
  <1>1. PICK N, s, x : N = Nat /\ s = a.shape /\ x = Len(mapping)  OBVIOUS
  <1>2. s \in Seq(N) /\ (d \in DOMAIN s => x \in N)  BY <1>1, LaidIs
  <1>3. PICK shape : shape = Put1(s, d, x)  OBVIOUS
  <1>4. shape \in Seq(N)  BY <1>2, <1>3, Put1Is
  <1>5. \E buf : AlongAxis(a, d, mapping) = from_buffer(buf, shape, "C")
    BY <1>1, <1>3 DEF AlongAxis, Arranged
  <1> QED  BY <1>1, <1>4, <1>5, FromBufferLaid DEF Sound

\* The array and the axis an operation works on when its axis may be left out.
LEMMA OnAxisLaid ==
  ASSUME NEW a, Laid(a), NEW axis \in Int \cup {None}
  PROVE  /\ Laid(OnAxis(a, axis))
         /\ AxisOf(a, axis) = Raised \/ AxisOf(a, axis) \in 1..Len(OnAxis(a, axis).shape)
  <1>1. CASE axis = None
    <2>1. PICK n \in Nat : n = Size(a.shape)  BY LaidIs
    <2>2. OnAxis(a, axis) = Flat(a) /\ AxisOf(a, axis) = 1  BY <1>1 DEF OnAxis, AxisOf
    <2>3. Laid(Flat(a)) /\ Flat(a).shape = <<n>>  BY <2>1, FlatLaid
    <2>4. Len(<<n>>) = 1 /\ 1 \in 1..1  OBVIOUS
    <2> QED  BY <2>2, <2>3, <2>4
  <1>2. CASE axis # None
    <2>1. OnAxis(a, axis) = a /\ AxisOf(a, axis) = normalize_axis(axis, Len(a.shape))
      BY <1>2 DEF OnAxis, AxisOf
    <2>2. axis \in Int  BY <1>2
    <2>3. Len(a.shape) \in Nat  BY LaidIs
    <2> QED  BY <2>1, <2>2, <2>3, NormAxisIs
  <1> QED  BY <1>1, <1>2

\* repeat, also when it raises.
LEMMA RepeatLaid ==
  ASSUME NEW a, Laid(a), NEW repeats \in Seq(Nat), NEW axis \in Int \cup {None}
  PROVE  Sound(repeat(a, repeats, axis))
  <1>1. PICK b, d : b = OnAxis(a, axis) /\ d = AxisOf(a, axis)  OBVIOUS
  <1>2. Laid(b)  BY <1>1, OnAxisLaid
  <1>3. PICK m \in Nat : m = Len(repeats) /\ DOMAIN repeats = 1..m  OBVIOUS
  <1>4. PICK I : I = Int  OBVIOUS
  <1>5. PICK z : z = [i \in DOMAIN repeats |-> [r \in 1..repeats[i] |-> i - 1]]  OBVIOUS
  <1>6. z \in [1..m -> Seq(I)]
    <2>1. ASSUME NEW i \in 1..m  PROVE z[i] \in Seq(I)
      <3>1. PICK k \in Nat : k = repeats[i]  BY <1>3
      <3>2. PICK u : u = [r \in 1..k |-> i - 1]  OBVIOUS
      <3>3. u \in [1..k -> I]  BY <1>4, <3>2
      <3>4. u \in Seq(I)  BY <3>3, Enlisted
      <3>5. z[i] = u  BY <1>3, <1>5, <3>1, <3>2
      <3> QED  BY <3>4, <3>5
    <2> QED  BY <1>3, <1>5, <2>1
  <1>7. PICK S : S = Seq(I)  OBVIOUS
  <1>8. z \in Seq(S)  BY <1>6, <1>7, Enlisted
  <1>9. PICK each : each = Concat(z)  OBVIOUS
  <1>10. Len(each) \in Nat  BY <1>7, <1>8, <1>9, FlattenIs
  <1>11. \/ repeat(a, repeats, axis) = Raised
         \/ repeat(a, repeats, axis) = AlongAxis(b, d, each)
    BY <1>1, <1>5, <1>9 DEF repeat, RepeatAlong
  <1> QED  BY <1>2, <1>10, <1>11, AlongAxisLaid DEF Sound

----------------------------------------------------------------------------
(* Deleting and inserting.                                                    *)

\* delete, for every kind of index.
LEMMA DeleteLaid ==
  ASSUME NEW a, Laid(a), NEW obj, NEW axis \in Int \cup {None}
  PROVE  Sound(delete(a, obj, axis))
  <1>1. PICK b, d : b = OnAxis(a, axis) /\ d = AxisOf(a, axis)  OBVIOUS
  <1>2. Laid(b) /\ (d = Raised \/ d \in 1..Len(b.shape))  BY <1>1, OnAxisLaid
  <1>3. CASE d = Raised  BY <1>1, <1>3 DEF delete, Sound
  <1>4. CASE d # Raised
    <2>1. d \in 1..Len(b.shape)  BY <1>2, <1>4
    <2>2. PICK n \in Nat : n = b.shape[d]  BY <1>2, <2>1, LaidIs
    <2>3. PICK gone : delete(a, obj, axis) = DeleteAlong(b, gone, d)  BY <1>1, <1>4 DEF delete
    <2>4. PICK h \in Int : h = n - 1  OBVIOUS
    <2>5. PICK S, q : S = (0..h) \ ToSet(gone) /\ q = Ascending(S)  OBVIOUS
    <2>6. S \in SUBSET (0..h)  BY <2>5
    <2>7. Len(q) \in Nat  BY <2>5, <2>6, HitsAre
    <2>8. DeleteAlong(b, gone, d) = Raised \/ DeleteAlong(b, gone, d) = AlongAxis(b, d, q)
      BY <2>2, <2>4, <2>5 DEF DeleteAlong
    <2>9. Sound(AlongAxis(b, d, q))  BY <1>2, <2>7, AlongAxisLaid
    <2> QED  BY <2>3, <2>8, <2>9 DEF Sound
  <1> QED  BY <1>3, <1>4

\* A block of values inserted.
LEMMA BlockLaid ==
  ASSUME NEW a, Laid(a), NEW at \in Int, NEW v, Laid(v), NEW d \in 1..Len(a.shape)
  PROVE  Sound(insert_block(a, at, v, d))
  <1>1. PICK n \in Int : n = a.shape[d]  BY LaidIs
  <1>2. PICK room : room = IF Len(v.shape) >= d THEN v.shape[d] ELSE 1  OBVIOUS
  <1>3. room \in Nat
    <2>1. v.shape \in Seq(Nat) /\ Len(v.shape) \in Nat /\ d \in Nat /\ d >= 1  BY LaidIs
    <2>2. CASE Len(v.shape) >= d
      <3>1. d \in 1..Len(v.shape)  BY <2>1, <2>2
      <3> QED  BY <1>2, <2>1, <2>2, <3>1
    <2>3. CASE ~(Len(v.shape) >= d)  BY <1>2, <2>3
    <2> QED  BY <2>2, <2>3
  <1>4. PICK N, s : N = Nat /\ s = a.shape  OBVIOUS
  <1>5. s \in Seq(N) /\ room \in N  BY <1>3, <1>4, LaidIs
  <1>6. PICK t : t = Put1(s, d, room)  OBVIOUS
  <1>7. t \in Seq(N)  BY <1>5, <1>6, Put1Is
  <1>8. PICK z \in Int : z = 0  OBVIOUS
  <1>9. PICK x, y, w : /\ x = slice_segment(a, d, z, at) /\ y = broadcast_to(v, t)
                       /\ w = slice_segment(a, d, at, n)
    OBVIOUS
  <1>10. Sound(x) /\ Sound(w)  BY <1>9, SegmentLaid
  <1>11. Sound(y)  BY <1>4, <1>7, <1>9, BroadcastLaid DEF Sound
  <1>12. PICK parts : parts = <<x, y, w>>  OBVIOUS
  <1>13. DOMAIN parts = 1..3 /\ parts[1] = x /\ parts[2] = y /\ parts[3] = w  BY <1>12
  <1>14. \/ insert_block(a, at, v, d) = Raised
         \/ /\ \A i \in DOMAIN parts : parts[i] # Raised
            /\ insert_block(a, at, v, d) = Joined(parts, d)
    BY <1>1, <1>2, <1>4, <1>6, <1>8, <1>9, <1>12 DEF insert_block
  <1>15. CASE insert_block(a, at, v, d) = Raised  BY <1>15 DEF Sound
  <1>16. CASE /\ \A i \in DOMAIN parts : parts[i] # Raised
              /\ insert_block(a, at, v, d) = Joined(parts, d)
    <2>1. ASSUME NEW i \in 1..3  PROVE Laid(parts[i])
      <3>1. parts[i] # Raised  BY <1>13, <1>16
      <3>2. i = 1 \/ i = 2 \/ i = 3  OBVIOUS
      <3>3. Sound(parts[i])  BY <1>10, <1>11, <1>13, <3>2
      <3> QED  BY <3>1, <3>3 DEF Sound
    <2>2. PICK m \in Nat \ {0} : m = 3  OBVIOUS
    <2>3. Arrays(parts, m)  BY <1>13, <2>1, <2>2 DEF Arrays
    <2> QED  BY <1>16, <2>3, JoinedLaid
  <1> QED  BY <1>14, <1>15, <1>16

\* The values of a block with their axis moved.
LEMMA AxisFirstLaid ==
  ASSUME NEW v, Laid(v), NEW scalar, NEW d \in Nat \ {0}
  PROVE  Laid(AxisFirst(v, scalar, d))
  <1>1. PICK m \in Nat : m = Len(v.shape)  BY LaidIs
  <1>2. PICK q : q = InsertAt(Tail(Identity(m)), Min({d, m}), 1)  OBVIOUS
  <1>3. CASE ~(scalar /\ m > 0)
    <2>1. AxisFirst(v, scalar, d) = v  BY <1>1, <1>3 DEF AxisFirst
    <2> QED  BY <2>1
  <1>4. CASE scalar /\ m > 0
    <2>1. AxisFirst(v, scalar, d) = transpose_axes(v, q)  BY <1>1, <1>2, <1>4 DEF AxisFirst
    <2>2. PICK V : V = 1..m  OBVIOUS
    <2>3. PICK s : s = Identity(m)  OBVIOUS
    <2>4. s \in [1..m -> V]  BY <2>2, <2>3 DEF Identity
    <2>5. s \in Seq(V) /\ Len(s) = m  BY <2>4, Enlisted
    <2>6. s # <<>>  BY <1>4, <2>5
    <2>7. Tail(s) \in Seq(V) /\ Len(Tail(s)) = m - 1  BY <1>4, <2>5, <2>6
    <2>8. PICK t : t = Tail(s)  OBVIOUS
    <2>9. PICK x, y \in Int : x = d /\ y = m  OBVIOUS
    <2>10. Min({x, y}) = IF x <= y THEN x ELSE y  BY MinMaxTwo
    <2>11. PICK i : i = Min({d, m})  OBVIOUS
    <2>12. i \in 1..Len(t) + 1  BY <1>4, <2>7, <2>8, <2>9, <2>10, <2>11
    <2>13. PICK o : o = 1  OBVIOUS
    <2>14. o \in V /\ t \in Seq(V)  BY <1>4, <2>2, <2>7, <2>8, <2>13
    <2>15. InsertAt(t, i, o) \in Seq(V) /\ Len(InsertAt(t, i, o)) = Len(t) + 1  BY <2>12, <2>14, InsertAtIs
    <2>16. q = InsertAt(t, i, o)  BY <1>2, <2>3, <2>8, <2>11, <2>13
    <2>17. q \in Seq(1..m) /\ Len(q) = m  BY <2>2, <2>7, <2>8, <2>15, <2>16
    <2>18. Lists(q, m, Len(v.shape))  BY <1>1, <2>17, ListsSeq
    <2> QED  BY <2>1, <2>18, TransposeLaid
  <1> QED  BY <1>3, <1>4

\* insert at one place.
LEMMA InsertSingleLaid ==
  ASSUME NEW a, Laid(a), NEW i, NEW scalar, NEW values, Laid(values), NEW d \in 1..Len(a.shape)
  PROVE  Sound(insert_single(a, i, scalar, values, d))
  <1>0. a.shape[d] \in Nat /\ Len(a.shape) \in Nat /\ Len(values.shape) \in Nat
    <2>1. a.shape[d] \in Nat /\ Len(a.shape) \in Nat  BY LaidIs
    <2>2. Len(values.shape) \in Nat  BY LaidIs
    <2> QED  BY <2>1, <2>2
  <1>1. PICK n, k, l \in Nat : n = a.shape[d] /\ k = Len(a.shape) /\ l = Len(values.shape)  BY <1>0
  <1>2. values.shape \in Seq(Nat)  BY LaidIs
  <1>3. PICK long : long = IF l < k THEN reshape(values, PaddedTo(values.shape, k), "C") ELSE values  OBVIOUS
  <1>4. Laid(long)
    <2>1. CASE l < k
      <3>1. PICK s : s = PaddedTo(values.shape, k)  OBVIOUS
      <3>2. s \in Seq(Nat) /\ Size(s) = Size(values.shape)  BY <1>1, <1>2, <2>1, <3>1, PaddedIs
      <3>3. Laid(reshape(values, s, "C"))  BY <3>2, ReshapeLaid
      <3> QED  BY <1>3, <2>1, <3>1, <3>3
    <2>2. CASE ~(l < k)  BY <1>3, <2>2
    <2> QED  BY <2>1, <2>2
  <1>5. PICK v : v = AxisFirst(long, scalar, d)  OBVIOUS
  <1>6. Laid(v)
    <2>1. d \in Nat \ {0}  BY <1>1
    <2> QED  BY <1>4, <1>5, <2>1, AxisFirstLaid
  <1>7. CASE i \notin -n..n  BY <1>1, <1>7 DEF insert_single, Sound
  <1>8. CASE i \in -n..n
    <2>1. PICK at \in Int : at = IF i < 0 THEN i + n ELSE i  BY <1>8
    <2>2. insert_single(a, i, scalar, values, d) = insert_block(a, at, v, d)
      BY <1>1, <1>3, <1>5, <1>8, <2>1 DEF insert_single
    <2> QED  BY <1>6, <2>2, BlockLaid
  <1> QED  BY <1>7, <1>8

\* insert at several places.
LEMMA InsertMultiLaid ==
  ASSUME NEW a, Laid(a), NEW indices, Len(indices) \in Nat, NEW values, NEW d \in 1..Len(a.shape)
  PROVE  Sound(insert_multi(a, indices, values, d))
  <1>1. PICK n, m \in Nat : n = a.shape[d] /\ m = Len(indices)  BY LaidIs
  <1>2. PICK N, s, x : N = Nat /\ s = a.shape /\ x = n + m  OBVIOUS
  <1>3. s \in Seq(N) /\ x \in N  BY <1>2, LaidIs
  <1>4. PICK shape : shape = Put1(s, d, x)  OBVIOUS
  <1>5. shape \in Seq(N)  BY <1>3, <1>4, Put1Is
  <1>6. \/ insert_multi(a, indices, values, d) = Raised
        \/ \E buf : insert_multi(a, indices, values, d) = from_buffer(buf, shape, "C")
    BY <1>1, <1>2, <1>4 DEF insert_multi
  <1> QED  BY <1>2, <1>5, <1>6, FromBufferLaid DEF Sound

\* What is inserted, or deleted: an integer, a slice or integers.
LEMMA InsertLaid ==
  ASSUME NEW a, Laid(a), NEW obj, Legal(obj), obj.kind \in {"index", "slice", "array"},
         obj.kind = "array" => Len(obj.vals) \in Nat, NEW values, Laid(values),
         NEW axis \in Int \cup {None}
  PROVE  Sound(insert(a, obj, values, axis))
  <1>1. PICK b, d : b = OnAxis(a, axis) /\ d = AxisOf(a, axis)  OBVIOUS
  <1>2. Laid(b) /\ (d = Raised \/ d \in 1..Len(b.shape))  BY <1>1, OnAxisLaid
  <1>3. CASE d = Raised  BY <1>1, <1>3 DEF insert, Sound
  <1>4. CASE d # Raised
    <2>1. d \in 1..Len(b.shape)  BY <1>2, <1>4
    <2>2. PICK n : n = IF axis = None THEN Size(a.shape) ELSE a.shape[d]  OBVIOUS
    <2>3. n \in Nat
      <3>1. CASE axis = None  BY <2>2, <3>1, LaidIs
      <3>2. CASE axis # None
        <4>1. b = a  BY <1>1, <3>2 DEF OnAxis
        <4>2. a.shape[d] \in Nat  BY <2>1, <4>1, LaidIs
        <4> QED  BY <2>2, <3>2, <4>2
      <3> QED  BY <3>1, <3>2
    <2>4. PICK indices : indices = (CASE obj.kind = "index" -> <<obj.i>>
                                      [] obj.kind = "slice" -> slice_to_indices(obj, n)
                                      [] obj.kind = "array" -> obj.vals)
      OBVIOUS
    <2>5. indices = Raised \/ Len(indices) \in Nat
      <3>1. CASE obj.kind = "index"
        <4>1. indices = <<obj.i>>  BY <2>4, <3>1, Zenon
        <4>2. Len(<<obj.i>>) \in Nat  OBVIOUS
        <4> QED  BY <4>1, <4>2
      <3>2. CASE obj.kind = "slice"
        <4>1. indices = slice_to_indices(obj, n)
          <5>1. obj.kind # "index"  BY <3>2
          <5> QED  BY <2>4, <3>2, <5>1
        <4>2. PICK r : r = normalize_slice(obj.start, obj.stop, obj.step, n)  OBVIOUS
        <4>3. /\ obj.start \in Int \cup {None} /\ obj.stop \in Int \cup {None}
              /\ obj.step \in Int \cup {None}
          BY <3>2 DEF Legal
        <4>4. r = Raised \/ r.len \in Nat  BY <2>3, <4>2, <4>3, SliceIs
        <4>5. \/ indices = Raised
              \/ r # Raised /\ indices = [i \in 1..r.len |-> r.start + (i - 1) * r.step]
          BY <4>1, <4>2 DEF slice_to_indices
        <4>6. ASSUME NEW k \in Nat, NEW z, z = [i \in 1..k |-> z[i]]  PROVE Len(z) \in Nat  BY <4>6
        <4>7. CASE r # Raised /\ indices = [i \in 1..r.len |-> r.start + (i - 1) * r.step]
          <5>1. PICK k \in Nat : k = r.len  BY <4>4, <4>7
          <5>2. indices = [i \in 1..k |-> indices[i]]  BY <4>7, <5>1
          <5> QED  BY <4>6, <5>2
        <4> QED  BY <4>5, <4>7
      <3>3. CASE obj.kind = "array"
        <4>1. indices = obj.vals
          <5>1. obj.kind # "index" /\ obj.kind # "slice"  BY <3>3
          <5> QED  BY <2>4, <3>3, <5>1
        <4> QED  BY <3>3, <4>1
      <3> QED  BY <3>1, <3>2, <3>3
    <2>6. insert(a, obj, values, axis) = InsertAlong(b, indices, obj.kind = "index", values, d)
      BY <1>1, <1>4, <2>2, <2>4 DEF insert
    <2>7. PICK scalar : scalar = (obj.kind = "index")  OBVIOUS
    <2>8. \/ InsertAlong(b, indices, scalar, values, d) = Raised
          \/ InsertAlong(b, indices, scalar, values, d) = insert_single(b, indices[1], scalar, values, d)
          \/ /\ indices # Raised
             /\ InsertAlong(b, indices, scalar, values, d) = insert_multi(b, indices, values, d)
      BY DEF InsertAlong
    <2>9. Sound(insert_single(b, indices[1], scalar, values, d))  BY <1>2, <2>1, InsertSingleLaid
    <2>10. indices # Raised => Sound(insert_multi(b, indices, values, d))
      BY <1>2, <2>1, <2>5, InsertMultiLaid
    <2> QED  BY <2>6, <2>7, <2>8, <2>9, <2>10 DEF Sound
  <1> QED  BY <1>3, <1>4

=============================================================================
