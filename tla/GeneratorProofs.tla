-------------------------- MODULE GeneratorProofs --------------------------
(* Proofs about the random generators: Lemire's rejection is exactly even at  *)
(* every width and range, and what an object answers is settled by its seed   *)
(* and the widths asked.                                                      *)
EXTENDS Generator, FiniteSetTheorems, SequenceTheorems, WellFoundedInduction, TLAPS

----------------------------------------------------------------------------
(* Division. *)

LEMMA DivMod ==
  ASSUME NEW a \in Int, NEW b \in Nat \ {0}
  PROVE  /\ a \div b \in Int /\ a % b \in Int
         /\ a = b * (a \div b) + (a % b)
         /\ 0 <= a % b /\ a % b < b
  OBVIOUS

\* A product with a positive number keeps its order.
LEMMA TimesKeepsOrder ==
  ASSUME NEW x \in Int, NEW y \in Int, NEW b \in Nat \ {0}, x <= y
  PROVE  b * x <= b * y
  <1>1. b * (y - x) >= 0
    OBVIOUS
  <1>2. b * (y - x) = b * y - b * x
    OBVIOUS
  <1>3. b * y \in Int /\ b * x \in Int
    OBVIOUS
  <1> QED  BY <1>1, <1>2, <1>3

LEMMA DivModUnique ==
  ASSUME NEW b \in Nat \ {0}, NEW q \in Int, NEW r \in Int, 0 <= r, r < b
  PROVE  (b * q + r) \div b = q /\ (b * q + r) % b = r
  <1> DEFINE a == b * q + r
             p == a \div b
             s == a % b
  <1>1. a \in Int /\ p \in Int /\ s \in Int /\ a = b * p + s /\ 0 <= s /\ s < b
    BY DivMod
  <1>2. p <= q
    <2>1. CASE p >= q + 1
      <3>1. b * (q + 1) <= b * p
        BY <1>1, <2>1, TimesKeepsOrder
      <3>2. b * (q + 1) = b * q + b
        OBVIOUS
      <3> QED  BY <1>1, <3>1, <3>2
    <2> QED  BY <1>1, <2>1
  <1>3. q <= p
    <2>1. CASE q >= p + 1
      <3>1. b * (p + 1) <= b * q
        BY <1>1, <2>1, TimesKeepsOrder
      <3>2. b * (p + 1) = b * p + b
        BY <1>1
      <3> QED  BY <1>1, <3>1, <3>2
    <2> QED  BY <1>1, <2>1
  <1>4. p = q
    BY <1>1, <1>2, <1>3
  <1>5. s = r
    BY <1>1, <1>4
  <1> QED  BY <1>4, <1>5

LEMMA MultipleMod ==
  ASSUME NEW b \in Nat \ {0}, NEW q \in Int
  PROVE  (b * q) % b = 0
  <1>1. \A r \in Int : 0 <= r /\ r < b => (b * q + r) % b = r
    BY DivModUnique
  <1>2. (b * q + 0) % b = 0
    BY <1>1
  <1>3. b * q + 0 = b * q
    OBVIOUS
  <1> QED  BY <1>2, <1>3

\* A range of length q * b, wherever it begins, holds q multiples of b.
LEMMA MultiplesInARow ==
  ASSUME NEW b \in Nat \ {0}, NEW t \in Int, NEW q \in Nat
  PROVE  \E a \in Int : \A x \in Int :
           (t <= b * x /\ b * x < t + b * q) <=> (a <= x /\ x < a + q)
  <1> DEFINE a == (t + b - 1) \div b
             m == (t + b - 1) % b
  <1>1. a \in Int /\ m \in Int /\ t + b - 1 = b * a + m /\ 0 <= m /\ m < b
    BY DivMod
  <1> HIDE DEF a, m
  <1>2. ASSUME NEW x \in Int
        PROVE  t <= b * x <=> a <= x
    <2>0. b * x \in Int /\ b * a \in Int
      BY <1>1
    <2>1. CASE a <= x
      <3>1. b * a <= b * x
        BY <1>1, <2>1, TimesKeepsOrder
      <3> QED  BY <1>1, <2>0, <2>1, <3>1
    <2>2. CASE x <= a - 1
      <3>1. b * x <= b * (a - 1)
        BY <1>1, <2>2, TimesKeepsOrder
      <3>2. b * (a - 1) = b * a - b
        BY <1>1
      <3> QED  BY <1>1, <2>0, <2>2, <3>1, <3>2
    <2> QED  BY <1>1, <2>1, <2>2
  <1>3. ASSUME NEW x \in Int
        PROVE  b * x < t + b * q <=> x < a + q
    <2>1. t <= b * (x - q) <=> a <= x - q
      BY <1>2
    <2>2. b * (x - q) = b * x - b * q /\ b * x \in Int /\ b * q \in Int
      OBVIOUS
    <2> QED  BY <1>1, <2>1, <2>2
  <1> QED  BY <1>1, <1>2, <1>3
----------------------------------------------------------------------------
(* Lemire's method. *)

\* Of the words below n, those that are kept and give v: their products with b
\* lie in the part of the v-th stretch of length n that is a multiple of b long.
LEMMA KeptProducts ==
  ASSUME NEW n \in Nat \ {0}, NEW b \in Nat \ {0}, b <= n,
         NEW v \in Int, NEW x \in Int
  PROVE  ~((x * b) % n < b /\ (x * b) % n < (n - b) % b) /\ (x * b) \div n = v
           <=> n * v + (n % b) <= b * x /\ b * x < n * v + (n % b) + b * (n \div b)
  <1> DEFINE q == n \div b
             t == n % b
             p == b * x
             u == p \div n
             m == p % n
  <1>1. q \in Int /\ t \in Int /\ n = b * q + t /\ 0 <= t /\ t < b
    BY DivMod
  <1>2. p \in Int
    OBVIOUS
  <1>3. u \in Int /\ m \in Int /\ p = n * u + m /\ 0 <= m /\ m < n
    BY <1>2, DivMod
  <1>4. (n - b) % b = t
    <2>1. n - b = b * (q - 1) + t
      BY <1>1
    <2>2. (b * (q - 1) + t) % b = t
      <3>1. q - 1 \in Int
        BY <1>1
      <3> QED  BY <1>1, <3>1, DivModUnique
    <2> QED  BY <2>1, <2>2
  <1>5. x * b = p
    OBVIOUS
  <1> HIDE DEF q, t, p, u, m
  <1>6. m < b /\ m < t <=> m < t
    BY <1>1, <1>3
  <1>7. n * v \in Int /\ b * q \in Int /\ t + b * q = n
    BY <1>1
  <1>8. m >= t /\ u = v <=> n * v + t <= p /\ p < n * v + n
    <2>1. CASE u = v
      BY <1>1, <1>3, <1>7, <2>1
    <2>2. CASE u >= v + 1
      <3>1. n * (v + 1) <= n * u
        BY <1>3, <2>2, TimesKeepsOrder
      <3>2. n * (v + 1) = n * v + n
        OBVIOUS
      <3> QED  BY <1>1, <1>2, <1>3, <1>7, <2>2, <3>1, <3>2
    <2>3. CASE u <= v - 1
      <3>1. n * u <= n * (v - 1)
        BY <1>3, <2>3, TimesKeepsOrder
      <3>2. n * (v - 1) = n * v - n
        OBVIOUS
      <3> QED  BY <1>1, <1>2, <1>3, <1>7, <2>3, <3>1, <3>2
    <2> QED  BY <1>3, <2>1, <2>2, <2>3
  <1>9. ~(m < b /\ m < t) /\ u = v <=> n * v + t <= p /\ p < n * v + n
    BY <1>1, <1>3, <1>6, <1>8
  <1>10. n * v + t + b * q = n * v + n
    BY <1>1, <1>7
  <1> QED  BY <1>4, <1>5, <1>9, <1>10 DEF q, t, p, u, m

\* Every value below b is given by the same number of words.
LEMMA LemireIsEven ==
  ASSUME NEW n \in Nat \ {0}, NEW b \in Nat \ {0}, b <= n, NEW v \in 0..b - 1
  PROVE  Cardinality({x \in 0..n - 1 :
              ~((x * b) % n < b /\ (x * b) % n < (n - b) % b) /\ (x * b) \div n = v})
           = n \div b
  <1> DEFINE q == n \div b
             t == n % b
             s == n * v + t
             K == {x \in 0..n - 1 :
              ~((x * b) % n < b /\ (x * b) % n < (n - b) % b) /\ (x * b) \div n = v}
  <1>1. q \in Int /\ t \in Int /\ n = b * q + t /\ 0 <= t /\ t < b
    BY DivMod
  <1>2. q \in Nat
    <2>1. CASE q <= -1
      <3>1. b * q <= b * (-1)
        BY <1>1, <2>1, TimesKeepsOrder
      <3> QED  BY <1>1, <3>1
    <2> QED  BY <1>1, <2>1
  <1>3. s \in Int
    BY <1>1
  <1>4. PICK a \in Int : \A x \in Int :
           (s <= b * x /\ b * x < s + b * q) <=> (a <= x /\ x < a + q)
    <2> HIDE DEF q, t, s
    <2> QED  BY <1>2, <1>3, MultiplesInARow
  <1>5. s + b * q = n * v + n
    <2>1. n * v \in Int /\ b * q \in Int /\ t + b * q = n
      BY <1>1
    <2> HIDE DEF q, t
    <2> QED  BY <1>1, <2>1
  <1>6. ASSUME NEW x \in Int, s <= b * x, b * x < s + b * q
        PROVE  x \in 0..n - 1
    <2>1. b * x \in Int /\ n * v \in Int
      OBVIOUS
    <2>2. x >= 0
      <3>1. n * v >= 0
        BY <2>1
      <3>2. CASE x <= -1
        <4>1. b * x <= b * (-1)
          BY <3>2, TimesKeepsOrder
        <4> QED  BY <1>1, <1>6, <2>1, <3>1, <4>1
      <3> QED  BY <3>2
    <2>3. x <= n - 1
      <3>1. CASE x >= n
        <4>1. b * n <= b * x
          BY <3>1, TimesKeepsOrder
        <4>2. n * (v + 1) <= n * b
          BY TimesKeepsOrder
        <4>3. n * (v + 1) = n * v + n /\ n * b = b * n /\ n * b \in Int
          OBVIOUS
        <4> QED  BY <1>5, <1>6, <2>1, <4>1, <4>2, <4>3
      <3> QED  BY <3>1
    <2> QED  BY <2>2, <2>3
  <1>7. ASSUME NEW x \in 0..n - 1
        PROVE  x \in K <=> (s <= b * x /\ b * x < s + b * q)
    <2>1. x \in Int /\ v \in Int
      OBVIOUS
    <2>2. ~((x * b) % n < b /\ (x * b) % n < (n - b) % b) /\ (x * b) \div n = v
            <=> s <= b * x /\ b * x < s + b * q
      BY <2>1, KeptProducts
    <2>3. x \in K <=> (~((x * b) % n < b /\ (x * b) % n < (n - b) % b) /\ (x * b) \div n = v)
      OBVIOUS
    <2> QED  BY <2>2, <2>3
  <1> HIDE DEF q, t, s, K
  <1>8. K = a..a + q - 1
    <2>1. ASSUME NEW x \in K  PROVE x \in a..a + q - 1
      <3>1. x \in 0..n - 1
        BY DEF K
      <3> QED  BY <1>2, <1>4, <1>7, <3>1
    <2>2. ASSUME NEW x \in a..a + q - 1  PROVE x \in K
      <3>1. x \in Int /\ a <= x /\ x < a + q
        BY <1>2
      <3>2. s <= b * x /\ b * x < s + b * q
        BY <1>4, <3>1
      <3>3. x \in 0..n - 1
        BY <1>6, <3>1, <3>2
      <3> QED  BY <1>7, <3>2, <3>3
    <2> QED  BY <2>1, <2>2
  <1>9. Cardinality(a..a + q - 1) = q
    <2>1. a + q - 1 \in Int
      BY <1>2
    <2>2. Cardinality(a..a + q - 1) = IF a > a + q - 1 THEN 0 ELSE (a + q - 1) - a + 1
      BY <2>1, FS_Interval
    <2> QED  BY <1>2, <2>2
  <1> QED  BY <1>8, <1>9 DEF q, K

----------------------------------------------------------------------------
(* Counting up.  A local recursive function is some function with its         *)
(* equation; that there is one is shown by counting up to its last argument.  *)

LEMMA Least ==
  ASSUME NEW S \in SUBSET Nat, S # {}
  PROVE  \E m \in S : \A x \in S : m <= x
  <1>1. PICK m \in S : \A x \in S : <<x, m>> \notin OpToRel(<, Nat)
    BY WFMin, NatLessThanWellFounded
  <1>2. \A x \in S : m <= x
    <2> TAKE x \in S
    <2>1. ~(x < m)
      BY <1>1, Zenon DEF OpToRel
    <2> QED  BY <2>1
  <1> QED  BY <1>2

LEMMA MinOf ==
  ASSUME NEW S \in SUBSET Nat, S # {}
  PROVE  Min(S) \in S
  BY Least DEF Min

LEMMA UpTo ==
  ASSUME NEW n \in Nat, NEW T \in SUBSET (0..n), 0 \in T,
         \A k \in 0..n - 1 : k \in T => k + 1 \in T
  PROVE  T = 0..n
  <1> SUFFICES ASSUME T # 0..n  PROVE FALSE
    OBVIOUS
  <1> DEFINE S == 0..n \ T
  <1>1. S # {} /\ S \in SUBSET Nat
    <2>1. \E x \in 0..n : x \notin T
      <3> SUFFICES ASSUME \A x \in 0..n : x \in T  PROVE T = 0..n
        OBVIOUS
      <3> QED  OBVIOUS
    <2> QED  BY <2>1
  <1>2. PICK m \in S : \A x \in S : m <= x
    BY <1>1, Least
  <1>3. m # 0 /\ m - 1 \in 0..n - 1
    BY <1>2
  <1>4. m - 1 \notin S
    BY <1>2, <1>3
  <1>5. (m - 1) + 1 = m
    BY <1>2
  <1> QED  BY <1>2, <1>3, <1>4, <1>5

----------------------------------------------------------------------------
(* What a sequence of draws takes of the stream. *)

Words == {Stream[seed][i] : seed \in Seeds, i \in 0..Period - 1}

Values == Words \union {w % 2^Half : w \in Words} \union {w \div 2^Half : w \in Words}

Asked == [width : {Word, Half}, val : Values]

LEMMA WidthsDiffer == Word \in Nat /\ Half \in Nat /\ Word # Half
  BY BitGenAssumption DEF Word

WideDraws(a, i) == {k \in 1..i : a[k].width = Word}

LEMMA WideCounts ==
  ASSUME NEW a, NEW i \in Nat
  PROVE  /\ IsFiniteSet(WideDraws(a, i)) /\ Wide(a, i) = Cardinality(WideDraws(a, i))
         /\ Wide(a, i) \in Nat /\ Wide(a, i) <= i
         /\ Halves(a, i) \in Nat /\ Spent(a, i) \in Nat
  <1>1. IsFiniteSet(1..i) /\ Cardinality(1..i) = i
    BY FS_Interval
  <1>2. WideDraws(a, i) \subseteq 1..i
    BY DEF WideDraws
  <1>3. IsFiniteSet(WideDraws(a, i)) /\ Cardinality(WideDraws(a, i)) <= i
    BY <1>1, <1>2, FS_Subset
  <1>4. Cardinality(WideDraws(a, i)) \in Nat
    BY <1>3, FS_CardinalityType
  <1>5. Wide(a, i) = Cardinality(WideDraws(a, i))
    BY DEF Wide, WideDraws
  <1> QED  BY <1>3, <1>4, <1>5 DEF Halves, Spent

LEMMA WideNone == ASSUME NEW a PROVE Wide(a, 0) = 0
  <1>1. WideDraws(a, 0) = {}
    BY DEF WideDraws
  <1> QED  BY <1>1, FS_EmptySet, WideCounts

LEMMA WideStep ==
  ASSUME NEW a, NEW i \in Nat
  PROVE  Wide(a, i + 1) = IF a[i + 1].width = Word THEN Wide(a, i) + 1 ELSE Wide(a, i)
  <1>0. /\ IsFiniteSet(WideDraws(a, i)) /\ Wide(a, i) = Cardinality(WideDraws(a, i))
        /\ Wide(a, i + 1) = Cardinality(WideDraws(a, i + 1))
    BY WideCounts
  <1>1. CASE a[i + 1].width = Word
    <2>1. WideDraws(a, i + 1) = WideDraws(a, i) \union {i + 1}
      BY <1>1 DEF WideDraws
    <2>2. i + 1 \notin WideDraws(a, i)
      BY DEF WideDraws
    <2>3. Cardinality(WideDraws(a, i) \union {i + 1}) = Cardinality(WideDraws(a, i)) + 1
      BY <1>0, <2>2, FS_AddElement
    <2> QED  BY <1>0, <1>1, <2>1, <2>3
  <1>2. CASE a[i + 1].width # Word
    <2>1. WideDraws(a, i + 1) = WideDraws(a, i)
      BY <1>2 DEF WideDraws
    <2> QED  BY <1>0, <1>2, <2>1
  <1> QED  BY <1>1, <1>2

\* The counts of the draws made do not change as more are made.
LEMMA CountsStay ==
  ASSUME NEW a \in Seq(Asked), NEW x \in Asked, NEW i \in 0..Len(a)
  PROVE  /\ Wide(Append(a, x), i) = Wide(a, i)
         /\ Halves(Append(a, x), i) = Halves(a, i)
         /\ Spent(Append(a, x), i) = Spent(a, i)
  <1>1. \A k \in 1..i : Append(a, x)[k] = a[k]
    OBVIOUS
  <1>2. WideDraws(Append(a, x), i) = WideDraws(a, i)
    BY <1>1 DEF WideDraws
  <1>3. Wide(Append(a, x), i) = Wide(a, i)
    BY <1>2 DEF Wide, WideDraws
  <1> QED  BY <1>3 DEF Halves, Spent

LEMMA FollowsStay ==
  ASSUME NEW a \in Seq(Asked), NEW x \in Asked, NEW seed, NEW i \in 1..Len(a),
         FollowsStream(a, seed, i)
  PROVE  FollowsStream(Append(a, x), seed, i)
  <1>1. \A k \in 1..i : /\ Append(a, x)[k] = a[k]
                        /\ Halves(Append(a, x), k) = Halves(a, k)
                        /\ Spent(Append(a, x), k) = Spent(a, k)
    BY CountsStay
  <1>2. i \in 1..i
    OBVIOUS
  <1> QED  BY <1>1, <1>2 DEF FollowsStream

----------------------------------------------------------------------------
(* A generator has answered from its stream so far, and will go on so.        *)

Shaped(s) == s = [seed |-> s.seed, pos |-> s.pos, has |-> s.has, half |-> s.half,
                  bcnt |-> s.bcnt, buf |-> s.buf, val |-> s.val, asked |-> s.asked]

\* Where the next word is read, and the half that is kept for the next draw.
Poised(seed, pos, has, half, a) ==
    /\ pos = Spent(a, Len(a)) % Period
    /\ has <=> Halves(a, Len(a)) % 2 = 1
    /\ has => \E j \in 1..Len(a) : /\ a[j].width = Half
                                   /\ Halves(a, j) = Halves(a, Len(a))
                                   /\ half = At(seed, Spent(a, j)) \div 2^Half

Faithful(s) ==
    /\ Shaped(s)
    /\ s.seed \in Seeds /\ s.has \in BOOLEAN /\ s.asked \in Seq(Asked)
    /\ \A i \in 1..Len(s.asked) : FollowsStream(s.asked, s.seed, i)
    /\ Poised(s.seed, s.pos, s.has, s.half, s.asked)

LEMMA SeededIsFaithful == ASSUME NEW seed \in Seeds PROVE Faithful(Seeded(seed))
  <1> DEFINE s == Seeded(seed)
  <1>1. /\ Shaped(s) /\ s.seed = seed /\ s.pos = 0 /\ s.has = FALSE /\ s.asked = <<>>
    BY DEF Seeded, Shaped
  <1>2. Len(s.asked) = 0 /\ s.asked \in Seq(Asked)
    BY <1>1
  <1>3. Wide(s.asked, 0) = 0 /\ Halves(s.asked, 0) = 0 /\ Spent(s.asked, 0) = 0
    BY WideNone DEF Halves, Spent
  <1>4. 0 % Period = 0
    BY BitGenAssumption
  <1>5. Poised(s.seed, s.pos, s.has, s.half, s.asked)
    BY <1>1, <1>2, <1>3, <1>4 DEF Poised
  <1>6. \A i \in 1..Len(s.asked) : FollowsStream(s.asked, s.seed, i)
    BY <1>2
  <1>7. s.seed \in Seeds /\ s.has \in BOOLEAN
    BY <1>1
  <1> HIDE DEF s
  <1>8. Faithful(s)
    BY <1>1, <1>2, <1>5, <1>6, <1>7 DEF Faithful
  <1> QED  BY <1>8 DEF s

LEMMA SuccMod ==
  ASSUME NEW m \in Nat, NEW b \in Nat \ {0}
  PROVE  ((m % b) + 1) % b = (m + 1) % b
  <1>1. PICK q \in Int, r \in Int : q = m \div b /\ r = m % b
    BY DivMod
  <1>2. m = b * q + r /\ 0 <= r /\ r < b
    BY <1>1, DivMod
  <1>3. CASE r + 1 < b
    <2>1. m + 1 = b * q + (r + 1) /\ r + 1 \in Int /\ 0 <= r + 1
      BY <1>2
    <2>2. (m + 1) % b = r + 1
      BY <1>3, <2>1, DivModUnique
    <2>3. r + 1 = b * 0 + (r + 1)
      BY <1>2
    <2>4. (r + 1) % b = r + 1
      BY <1>3, <2>1, <2>3, DivModUnique
    <2> QED  BY <1>1, <2>2, <2>4
  <1>4. CASE r + 1 = b
    <2>1. b * (q + 1) = b * q + b /\ b * q \in Int
      OBVIOUS
    <2>2. PICK p \in Int : p = q + 1
      OBVIOUS
    <2>3. m + 1 = b * p
      BY <1>2, <1>4, <2>1, <2>2
    <2>4. (m + 1) % b = 0
      BY <2>3, MultipleMod
    <2>5. r + 1 = b * 1
      BY <1>4
    <2>6. (r + 1) % b = 0
      BY <2>5, MultipleMod
    <2> QED  BY <1>1, <2>4, <2>6
  <1> QED  BY <1>2, <1>3, <1>4

\* The word under the position is the next one of the stream.
LEMMA NextWord ==
  ASSUME NEW s, Faithful(s), NEW m, m = Spent(s.asked, Len(s.asked))
  PROVE  /\ m \in Nat
         /\ Stream[s.seed][s.pos] = At(s.seed, m + 1)
         /\ Stream[s.seed][s.pos] \in Words
         /\ (s.pos + 1) % Period = (m + 1) % Period
  <1>1. m \in Nat /\ s.pos = m % Period
    BY WideCounts DEF Faithful, Poised
  <1>2. Period \in Nat \ {0}
    BY BitGenAssumption
  <1>3. s.pos \in 0..Period - 1
    BY <1>1, <1>2
  <1>4. s.seed \in Seeds
    BY DEF Faithful
  <1>5. (m + 1) - 1 = m
    BY <1>1
  <1>6. Stream[s.seed][s.pos] = At(s.seed, m + 1)
    BY <1>1, <1>5 DEF At
  <1>7. Stream[s.seed][s.pos] \in Words
    BY <1>3, <1>4 DEF Words
  <1>8. (s.pos + 1) % Period = (m + 1) % Period
    BY <1>1, <1>2, SuccMod
  <1> QED  BY <1>1, <1>6, <1>7, <1>8

\* b is a, which has n draws, with x after it: what that makes of the counts.
OneLonger(a, n, x, b) ==
    /\ b \in Seq(Asked) /\ Len(b) = n + 1 /\ b[n + 1] = x
    /\ \A i \in 1..n : b[i] = a[i]
    /\ \A i \in 0..n : Halves(b, i) = Halves(a, i) /\ Spent(b, i) = Spent(a, i)
    /\ x.width = Word => Halves(b, n + 1) = Halves(a, n) /\ Spent(b, n + 1) = Spent(a, n) + 1
    /\ x.width = Half =>
         /\ Halves(b, n + 1) = Halves(a, n) + 1
         /\ Halves(a, n) % 2 = 0 => Spent(b, n + 1) = Spent(a, n) + 1
         /\ Halves(a, n) % 2 = 1 => Spent(b, n + 1) = Spent(a, n)

LEMMA OneMore ==
  ASSUME NEW a \in Seq(Asked), NEW x \in Asked
  PROVE  OneLonger(a, Len(a), x, Append(a, x))
  <1> DEFINE n == Len(a)
             b == Append(a, x)
  <1>1. b \in Seq(Asked) /\ Len(b) = n + 1 /\ b[n + 1] = x /\ n \in Nat
        /\ \A i \in 1..n : b[i] = a[i]
    OBVIOUS
  <1>2. \A i \in 0..n : /\ Wide(b, i) = Wide(a, i)
                        /\ Halves(b, i) = Halves(a, i) /\ Spent(b, i) = Spent(a, i)
    BY CountsStay
  <1>3. Wide(b, n) = Wide(a, n) /\ Wide(a, n) \in Nat /\ Halves(a, n) \in Nat
    BY <1>1, <1>2, WideCounts
  <1>4. Wide(b, n + 1) = IF x.width = Word THEN Wide(b, n) + 1 ELSE Wide(b, n)
    BY <1>1, WideStep
  <1>5. Halves(a, n) = n - Wide(a, n) /\ Halves(b, n + 1) = (n + 1) - Wide(b, n + 1)
        /\ Spent(a, n) = Wide(a, n) + ((Halves(a, n) + 1) \div 2)
        /\ Spent(b, n + 1) = Wide(b, n + 1) + ((Halves(b, n + 1) + 1) \div 2)
    BY DEF Halves, Spent
  <1>6. ASSUME x.width = Word
        PROVE  Halves(b, n + 1) = Halves(a, n) /\ Spent(b, n + 1) = Spent(a, n) + 1
    BY <1>1, <1>3, <1>4, <1>5, <1>6
  <1>7. ASSUME x.width = Half
        PROVE  /\ Halves(b, n + 1) = Halves(a, n) + 1
               /\ Halves(a, n) % 2 = 0 => Spent(b, n + 1) = Spent(a, n) + 1
               /\ Halves(a, n) % 2 = 1 => Spent(b, n + 1) = Spent(a, n)
    <2>1. Wide(b, n + 1) = Wide(a, n)
      BY <1>3, <1>4, <1>7, WidthsDiffer
    <2>2. Halves(b, n + 1) = Halves(a, n) + 1
      BY <1>1, <1>3, <1>5, <2>1
    <2>3. PICK h \in Nat : h = Halves(a, n)
      BY <1>3
    <2>4. /\ h % 2 = 0 => ((h + 1) + 1) \div 2 = ((h + 1) \div 2) + 1
          /\ h % 2 = 1 => ((h + 1) + 1) \div 2 = (h + 1) \div 2
          /\ (h + 1) \div 2 \in Int
      OBVIOUS
    <2>5. /\ Spent(a, n) = Wide(a, n) + ((h + 1) \div 2)
          /\ Spent(b, n + 1) = Wide(a, n) + (((h + 1) + 1) \div 2)
      BY <1>5, <2>1, <2>2, <2>3
    <2>6. PICK v \in Nat : v = Wide(a, n)
      BY <1>3
    <2>7. h % 2 = 0 => Spent(b, n + 1) = Spent(a, n) + 1
      BY <2>4, <2>5, <2>6
    <2>8. h % 2 = 1 => Spent(b, n + 1) = Spent(a, n)
      BY <2>4, <2>5
    <2> QED  BY <2>2, <2>3, <2>7, <2>8
  <1> HIDE DEF b, n
  <1>8. OneLonger(a, n, x, b)
    BY <1>1, <1>2, <1>6, <1>7 DEF OneLonger
  <1> QED  BY <1>8 DEF b, n

State(seed, pos, has, half, bcnt, buf, val, a) ==
    [seed |-> seed, pos |-> pos, has |-> has, half |-> half,
     bcnt |-> bcnt, buf |-> buf, val |-> val, asked |-> a]

LEMMA StateShaped ==
  ASSUME NEW seed, NEW pos, NEW has, NEW half, NEW bcnt, NEW buf, NEW val, NEW a,
         NEW s, s = State(seed, pos, has, half, bcnt, buf, val, a)
  PROVE  /\ Shaped(s)
         /\ s.seed = seed /\ s.pos = pos /\ s.has = has /\ s.half = half
         /\ s.bcnt = bcnt /\ s.buf = buf /\ s.val = val /\ s.asked = a
  BY DEF State, Shaped

LEMMA ShapedState ==
  ASSUME NEW s, Shaped(s)
  PROVE  s = State(s.seed, s.pos, s.has, s.half, s.bcnt, s.buf, s.val, s.asked)
  BY DEF State, Shaped

\* The writes to a call's buffer and to the value drawn, as the code makes them.
Rebuffered(s, buf, bcnt, val) == [s EXCEPT !.buf = buf, !.bcnt = bcnt, !.val = val]
Unbuffered(s, buf, bcnt, val) == [s EXCEPT !.bcnt = bcnt, !.buf = buf, !.val = val]
Valued(s, val) == [s EXCEPT !.val = val]

LEMMA RestExcept ==
  ASSUME NEW s, Shaped(s), NEW bcnt, NEW buf, NEW val
  PROVE  /\ Rebuffered(s, buf, bcnt, val) =
              State(s.seed, s.pos, s.has, s.half, bcnt, buf, val, s.asked)
         /\ Unbuffered(s, buf, bcnt, val) =
              State(s.seed, s.pos, s.has, s.half, bcnt, buf, val, s.asked)
         /\ Valued(s, val) =
              State(s.seed, s.pos, s.has, s.half, s.bcnt, s.buf, val, s.asked)
  <1>1. PICK seed, pos, has, half, c, b, v, a :
           s = State(seed, pos, has, half, c, b, v, a)
    BY ShapedState
  <1>2. s.seed = seed /\ s.pos = pos /\ s.has = has /\ s.half = half /\ s.asked = a
        /\ s.bcnt = c /\ s.buf = b
    BY <1>1 DEF State
  <1>3. PICK s1, s2 : s1 = [s EXCEPT !.buf = buf] /\ s2 = [s EXCEPT !.bcnt = bcnt]
    OBVIOUS
  <1>4. /\ s1 = State(seed, pos, has, half, c, buf, v, a)
        /\ s2 = State(seed, pos, has, half, bcnt, b, v, a)
    BY <1>1, <1>3 DEF State
  <1>5. PICK s3, s4 : s3 = [s1 EXCEPT !.bcnt = bcnt] /\ s4 = [s2 EXCEPT !.buf = buf]
    OBVIOUS
  <1>6. /\ s3 = State(seed, pos, has, half, bcnt, buf, v, a)
        /\ s4 = State(seed, pos, has, half, bcnt, buf, v, a)
    BY <1>4, <1>5 DEF State
  <1>7. /\ [s3 EXCEPT !.val = val] = State(seed, pos, has, half, bcnt, buf, val, a)
        /\ [s4 EXCEPT !.val = val] = State(seed, pos, has, half, bcnt, buf, val, a)
        /\ [s EXCEPT !.val = val]  = State(seed, pos, has, half, c, b, val, a)
    BY <1>1, <1>6 DEF State
  <1>8. /\ [s EXCEPT !.buf = buf, !.bcnt = bcnt, !.val = val] =
             State(seed, pos, has, half, bcnt, buf, val, a)
        /\ [s EXCEPT !.bcnt = bcnt, !.buf = buf, !.val = val] =
             State(seed, pos, has, half, bcnt, buf, val, a)
    BY <1>3, <1>5, <1>7
  <1> QED  BY <1>2, <1>7, <1>8 DEF Rebuffered, Unbuffered, Valued

\* The draws, field by field.
LEMMA U64Fields ==
  ASSUME NEW seed, NEW pos, NEW has, NEW half, NEW bcnt, NEW buf, NEW val, NEW a,
         NEW w, w = Stream[seed][pos]
  PROVE  next_u64(State(seed, pos, has, half, bcnt, buf, val, a)) =
           State(seed, (pos + 1) % Period, has, half, bcnt, buf, w,
                 Append(a, [width |-> Word, val |-> w]))
  <1>1. PICK p, b : p = (pos + 1) % Period /\ b = Append(a, [width |-> Word, val |-> w])
    OBVIOUS
  <1>2. PICK s : s = State(seed, pos, has, half, bcnt, buf, val, a)
    OBVIOUS
  <1>3. s.seed = seed /\ s.pos = pos /\ s.asked = a
    BY <1>2 DEF State
  <1>4. next_u64(s) = [s EXCEPT !.pos = p, !.val = w, !.asked = b]
    BY <1>1, <1>3 DEF next_u64
  <1>5. [s EXCEPT !.pos = p, !.val = w, !.asked = b] =
          State(seed, p, has, half, bcnt, buf, w, b)
    <2>1. PICK s1 : s1 = [s EXCEPT !.pos = p]
      OBVIOUS
    <2>2. s1 = State(seed, p, has, half, bcnt, buf, val, a)
      BY <1>2, <2>1 DEF State
    <2>3. PICK s2 : s2 = [s1 EXCEPT !.val = w]
      OBVIOUS
    <2>4. s2 = State(seed, p, has, half, bcnt, buf, w, a)
      BY <2>2, <2>3 DEF State
    <2>5. [s2 EXCEPT !.asked = b] = State(seed, p, has, half, bcnt, buf, w, b)
      BY <2>4 DEF State
    <2> QED  BY <2>1, <2>3, <2>5
  <1> QED  BY <1>1, <1>2, <1>4, <1>5

\* The draw answers the half that was kept, and b are the draws with it.
GivesTheHalf(seed, pos, half, bcnt, buf, val, a, b) ==
    next_u32(State(seed, pos, TRUE, half, bcnt, buf, val, a)) =
      State(seed, pos, FALSE, half, bcnt, buf, half, b)

LEMMA U32Kept ==
  ASSUME NEW seed, NEW pos, NEW half, NEW bcnt, NEW buf, NEW val, NEW a
  PROVE  GivesTheHalf(seed, pos, half, bcnt, buf, val, a,
                      Append(a, [width |-> Half, val |-> half]))
  <1>1. PICK b : b = Append(a, [width |-> Half, val |-> half])
    OBVIOUS
  <1>2. next_u32(State(seed, pos, TRUE, half, bcnt, buf, val, a)) =
          State(seed, pos, FALSE, half, bcnt, buf, half, b)
    BY <1>1 DEF next_u32, State
  <1> QED  BY <1>1, <1>2 DEF GivesTheHalf

\* A draw that comes from the stream, and leaves the generator poised for the next.
LEMMA DrawnFaithfully ==
  ASSUME NEW s, Faithful(s), NEW x \in Asked, NEW b, b = Append(s.asked, x),
         FollowsStream(b, s.seed, Len(s.asked) + 1),
         NEW pos, NEW has \in BOOLEAN, NEW half, Poised(s.seed, pos, has, half, b),
         NEW bcnt, NEW buf, NEW val
  PROVE  Faithful(State(s.seed, pos, has, half, bcnt, buf, val, b))
  <1> DEFINE n == Len(s.asked)
             t == State(s.seed, pos, has, half, bcnt, buf, val, b)
  <1>1. s.asked \in Seq(Asked) /\ s.seed \in Seeds
    BY DEF Faithful
  <1>2. b \in Seq(Asked) /\ Len(b) = n + 1 /\ n \in Nat
    BY <1>1
  <1>3. ASSUME NEW i \in 1..Len(b)
        PROVE  FollowsStream(b, s.seed, i)
    <2>1. CASE i = n + 1
      BY <2>1
    <2>2. CASE i # n + 1
      <3>1. i \in 1..n
        BY <1>2, <2>2
      <3>2. FollowsStream(s.asked, s.seed, i)
        BY <3>1 DEF Faithful
      <3> QED  BY <1>1, <3>1, <3>2, FollowsStay
    <2> QED  BY <2>1, <2>2
  <1>4. /\ Shaped(t) /\ t.seed = s.seed /\ t.pos = pos /\ t.has = has
        /\ t.half = half /\ t.asked = b
    BY DEF State, Shaped
  <1> HIDE DEF t
  <1>5. Faithful(t)
    BY <1>1, <1>2, <1>3, <1>4 DEF Faithful
  <1> QED  BY <1>5 DEF t

\* What is left of a call's buffer, and the value drawn last, do not matter.
LEMMA RestIsFree ==
  ASSUME NEW s, Faithful(s), NEW bcnt, NEW buf, NEW val
  PROVE  Faithful(State(s.seed, s.pos, s.has, s.half, bcnt, buf, val, s.asked))
  <1> DEFINE t == State(s.seed, s.pos, s.has, s.half, bcnt, buf, val, s.asked)
  <1>1. /\ Shaped(t) /\ t.seed = s.seed /\ t.pos = s.pos /\ t.has = s.has
        /\ t.half = s.half /\ t.asked = s.asked
    BY DEF State, Shaped
  <1> HIDE DEF t
  <1>2. Faithful(t)
    BY <1>1 DEF Faithful
  <1> QED  BY <1>2 DEF t

LEMMA Draw64Faithful ==
  ASSUME NEW s, Faithful(s)
  PROVE  Faithful(next_u64(s)) /\ next_u64(s).val \in Values
  <1>0. PICK a \in Seq(Asked) : a = s.asked
    BY DEF Faithful
  <1> DEFINE n == Len(a)
  <1>1. PICK w : w = Stream[s.seed][s.pos]
    OBVIOUS
  <1>2. PICK x : x = [width |-> Word, val |-> w]
    OBVIOUS
  <1>3. PICK b : b = Append(a, x)
    OBVIOUS
  <1>4. PICK m : m = Spent(a, n)
    OBVIOUS
  <1>5. m \in Nat /\ w = At(s.seed, m + 1) /\ w \in Words /\ (s.pos + 1) % Period = (m + 1) % Period
    BY <1>0, <1>1, <1>4, NextWord
  <1>6. x \in Asked /\ x.width = Word /\ x.val = w
    BY <1>2, <1>5 DEF Asked, Values
  <1>7. n \in Nat
    OBVIOUS
  <1>8. /\ Len(b) = n + 1 /\ b[n + 1] = x /\ \A i \in 1..n : b[i] = a[i]
        /\ \A i \in 0..n : Halves(b, i) = Halves(a, i) /\ Spent(b, i) = Spent(a, i)
        /\ Halves(b, n + 1) = Halves(a, n) /\ Spent(b, n + 1) = m + 1
    <2>1. OneLonger(a, n, x, b)
      BY <1>3, <1>6, OneMore
    <2> QED  BY <1>4, <1>6, <2>1 DEF OneLonger
  <1>9. FollowsStream(b, s.seed, n + 1)
    BY <1>5, <1>6, <1>8 DEF FollowsStream
  <1>10. Poised(s.seed, (s.pos + 1) % Period, s.has, s.half, b)
    <2>1. s.has <=> Halves(b, Len(b)) % 2 = 1
      BY <1>0, <1>8 DEF Faithful, Poised
    <2>2. ASSUME s.has
          PROVE  \E j \in 1..Len(b) : /\ b[j].width = Half
                                      /\ Halves(b, j) = Halves(b, Len(b))
                                      /\ s.half = At(s.seed, Spent(b, j)) \div 2^Half
      <3>1. PICK j \in 1..n : /\ a[j].width = Half /\ Halves(a, j) = Halves(a, n)
                              /\ s.half = At(s.seed, Spent(a, j)) \div 2^Half
        BY <1>0, <2>2 DEF Faithful, Poised
      <3>2. j \in 1..Len(b) /\ j \in 0..n /\ n \in Nat
        BY <1>7, <1>8
      <3> QED  BY <1>8, <3>1, <3>2
    <2> QED  BY <1>5, <1>8, <2>1, <2>2 DEF Poised
  <1>11. s.has \in BOOLEAN
    BY DEF Faithful
  <1>12. next_u64(s) = State(s.seed, (s.pos + 1) % Period, s.has, s.half, s.bcnt, s.buf, w, b)
    <2>1. s = State(s.seed, s.pos, s.has, s.half, s.bcnt, s.buf, s.val, a)
      BY <1>0, ShapedState DEF Faithful
    <2> QED  BY <1>1, <1>2, <1>3, <2>1, U64Fields
  <1>13. Faithful(State(s.seed, (s.pos + 1) % Period, s.has, s.half, s.bcnt, s.buf, w, b))
    BY <1>0, <1>3, <1>6, <1>9, <1>10, <1>11, DrawnFaithfully
  <1>14. State(s.seed, (s.pos + 1) % Period, s.has, s.half, s.bcnt, s.buf, w, b).val = w
    BY DEF State
  <1> QED  BY <1>5, <1>12, <1>13, <1>14 DEF Values

LEMMA AtIsWord == ASSUME NEW seed \in Seeds, NEW n \in Int PROVE At(seed, n) \in Words
  <1>1. (n - 1) % Period \in 0..Period - 1
    BY BitGenAssumption
  <1> QED  BY <1>1 DEF At, Words

\* The half that was kept.
LEMMA KeptHalfFaithful ==
  ASSUME NEW s, Faithful(s), s.has
  PROVE  Faithful(next_u32(s)) /\ next_u32(s).val \in Values
  <1>0. PICK a \in Seq(Asked) : a = s.asked
    BY DEF Faithful
  <1> DEFINE n == Len(a)
  <1>1. PICK x : x = [width |-> Half, val |-> s.half]
    OBVIOUS
  <1>2. PICK b : b = Append(a, x)
    OBVIOUS
  <1>3. n \in Nat /\ s.has = TRUE /\ s.seed \in Seeds
    BY DEF Faithful
  <1>4. Halves(a, n) % 2 = 1 /\ s.pos = Spent(a, n) % Period
    BY <1>0, <1>3 DEF Faithful, Poised
  <1>5. PICK j \in 1..n : /\ a[j].width = Half /\ Halves(a, j) = Halves(a, n)
                          /\ s.half = At(s.seed, Spent(a, j)) \div 2^Half
    BY <1>0, <1>3 DEF Faithful, Poised
  <1>6. s.half \in Values
    <2>1. Spent(a, j) \in Nat
      BY WideCounts
    <2>2. At(s.seed, Spent(a, j)) \in Words
      BY <1>3, <2>1, AtIsWord
    <2> QED  BY <1>5, <2>2 DEF Values
  <1>7. x \in Asked /\ x.width = Half /\ x.val = s.half
    BY <1>1, <1>6 DEF Asked
  <1>8. /\ Len(b) = n + 1 /\ b[n + 1] = x /\ \A i \in 1..n : b[i] = a[i]
        /\ \A i \in 0..n : Halves(b, i) = Halves(a, i) /\ Spent(b, i) = Spent(a, i)
        /\ Halves(b, n + 1) = Halves(a, n) + 1 /\ Spent(b, n + 1) = Spent(a, n)
    <2>1. OneLonger(a, n, x, b)
      BY <1>2, <1>7, OneMore
    <2> QED  BY <1>4, <1>7, <2>1 DEF OneLonger
  <1>9. Halves(a, n) \in Nat
    BY <1>3, WideCounts
  <1>10. Halves(b, n + 1) % 2 = 0 /\ Halves(a, n) = Halves(b, n + 1) - 1
    BY <1>4, <1>8, <1>9
  <1>11. FollowsStream(b, s.seed, n + 1)
    <2>1. j \in 1..n + 1 /\ j \in 0..n
      BY <1>3
    <2>2. b[j].width = Half /\ Halves(b, j) = Halves(b, n + 1) - 1
          /\ b[n + 1].val = At(s.seed, Spent(b, j)) \div 2^Half
      BY <1>5, <1>7, <1>8, <1>10, <2>1
    <2> QED  BY <1>7, <1>8, <1>10, <2>1, <2>2 DEF FollowsStream
  <1>12. Poised(s.seed, s.pos, FALSE, s.half, b)
    BY <1>4, <1>8, <1>10 DEF Poised
  <1>13. next_u32(s) = State(s.seed, s.pos, FALSE, s.half, s.bcnt, s.buf, s.half, b)
    <2>1. s = State(s.seed, s.pos, TRUE, s.half, s.bcnt, s.buf, s.val, a)
      BY <1>0, <1>3, ShapedState DEF Faithful
    <2>2. next_u32(State(s.seed, s.pos, TRUE, s.half, s.bcnt, s.buf, s.val, a)) =
            State(s.seed, s.pos, FALSE, s.half, s.bcnt, s.buf, s.half, b)
      <3>1. PICK h, v : h = s.half /\ v = s.val
        OBVIOUS
      <3>2. PICK seed, pos, bcnt, buf :
               seed = s.seed /\ pos = s.pos /\ bcnt = s.bcnt /\ buf = s.buf
        OBVIOUS
      <3>3. b = Append(a, [width |-> Half, val |-> h])
        BY <1>1, <1>2, <3>1
      <3>4. GivesTheHalf(seed, pos, h, bcnt, buf, v, a,
                         Append(a, [width |-> Half, val |-> h]))
        BY U32Kept
      <3>5. next_u32(State(seed, pos, TRUE, h, bcnt, buf, v, a)) =
              State(seed, pos, FALSE, h, bcnt, buf, h, b)
        BY <3>3, <3>4 DEF GivesTheHalf
      <3> QED  BY <3>1, <3>2, <3>5
    <2>3. PICK r : r = State(s.seed, s.pos, TRUE, s.half, s.bcnt, s.buf, s.val, a)
      OBVIOUS
    <2>4. next_u32(r) = State(s.seed, s.pos, FALSE, s.half, s.bcnt, s.buf, s.half, b)
      BY <2>2, <2>3
    <2> QED  BY <2>1, <2>3, <2>4
  <1>14. Faithful(State(s.seed, s.pos, FALSE, s.half, s.bcnt, s.buf, s.half, b))
    BY <1>0, <1>2, <1>7, <1>11, <1>12, DrawnFaithfully
  <1>15. State(s.seed, s.pos, FALSE, s.half, s.bcnt, s.buf, s.half, b).val = s.half
    BY DEF State
  <1> QED  BY <1>6, <1>13, <1>14, <1>15

\* The low half of a word.
LEMMA FreshHalfFaithful ==
  ASSUME NEW s, Faithful(s), ~s.has
  PROVE  Faithful(next_u32(s)) /\ next_u32(s).val \in Values
  <1>0. PICK a \in Seq(Asked) : a = s.asked
    BY DEF Faithful
  <1> DEFINE n == Len(a)
  <1>1. PICK w : w = Stream[s.seed][s.pos]
    OBVIOUS
  <1>2. PICK h, v : h = w \div 2^Half /\ v = w % 2^Half
    OBVIOUS
  <1>3. PICK x : x = [width |-> Half, val |-> v]
    OBVIOUS
  <1>4. PICK b : b = Append(a, x)
    OBVIOUS
  <1>5. PICK m : m = Spent(a, n)
    OBVIOUS
  <1>6. m \in Nat /\ w = At(s.seed, m + 1) /\ w \in Words /\ (s.pos + 1) % Period = (m + 1) % Period
    BY <1>0, <1>1, <1>5, NextWord
  <1>7. n \in Nat /\ s.has = FALSE /\ Halves(a, n) \in Nat
    BY WideCounts DEF Faithful
  <1>8. Halves(a, n) % 2 = 0
    <2>1. Halves(a, n) % 2 # 1
      BY <1>0, <1>7 DEF Faithful, Poised
    <2> QED  BY <1>7, <2>1
  <1>9. v \in Values
    BY <1>2, <1>6 DEF Values
  <1>10. x \in Asked /\ x.width = Half /\ x.val = v
    BY <1>3, <1>9 DEF Asked
  <1>11. /\ Len(b) = n + 1 /\ b[n + 1] = x
         /\ Halves(b, n + 1) = Halves(a, n) + 1 /\ Spent(b, n + 1) = m + 1
    <2>1. OneLonger(a, n, x, b)
      BY <1>4, <1>10, OneMore
    <2> QED  BY <1>5, <1>8, <1>10, <2>1 DEF OneLonger
  <1>12. Halves(b, n + 1) % 2 = 1
    BY <1>7, <1>8, <1>11
  <1>13. FollowsStream(b, s.seed, n + 1)
    BY <1>2, <1>6, <1>10, <1>11, <1>12 DEF FollowsStream
  <1>14. Poised(s.seed, (s.pos + 1) % Period, TRUE, h, b)
    <2>1. n + 1 \in 1..Len(b) /\ h = At(s.seed, Spent(b, n + 1)) \div 2^Half
      BY <1>2, <1>6, <1>7, <1>11
    <2> QED  BY <1>6, <1>10, <1>11, <1>12, <2>1 DEF Poised
  <1>15. next_u32(s) = State(s.seed, (s.pos + 1) % Period, TRUE, h, s.bcnt, s.buf, v, b)
    <2>1. s = State(s.seed, s.pos, FALSE, s.half, s.bcnt, s.buf, s.val, a)
      BY <1>0, <1>7, ShapedState DEF Faithful
    <2>2. next_u32(State(s.seed, s.pos, FALSE, s.half, s.bcnt, s.buf, s.val, a)) =
            State(s.seed, (s.pos + 1) % Period, TRUE, h, s.bcnt, s.buf, v, b)
      <3>1. PICK sd, p, hf, bc, bf, u : /\ sd = s.seed /\ p = s.pos /\ hf = s.half
                                        /\ bc = s.bcnt /\ bf = s.buf /\ u = s.val
        OBVIOUS
      <3>2. PICK q : q = (p + 1) % Period
        OBVIOUS
      <3>3. w = Stream[sd][p]
        BY <1>1, <3>1
      <3>4. next_u32(State(sd, p, FALSE, hf, bc, bf, u, a)) = State(sd, q, TRUE, h, bc, bf, v, b)
        BY <1>2, <1>3, <1>4, <3>2, <3>3 DEF next_u32, State
      <3> QED  BY <3>1, <3>2, <3>4
    <2>3. PICK r : r = State(s.seed, s.pos, FALSE, s.half, s.bcnt, s.buf, s.val, a)
      OBVIOUS
    <2>4. next_u32(r) = State(s.seed, (s.pos + 1) % Period, TRUE, h, s.bcnt, s.buf, v, b)
      BY <2>2, <2>3
    <2> QED  BY <2>1, <2>3, <2>4
  <1>16. Faithful(State(s.seed, (s.pos + 1) % Period, TRUE, h, s.bcnt, s.buf, v, b))
    BY <1>0, <1>4, <1>10, <1>13, <1>14, DrawnFaithfully
  <1>17. State(s.seed, (s.pos + 1) % Period, TRUE, h, s.bcnt, s.buf, v, b).val = v
    BY DEF State
  <1> QED  BY <1>9, <1>15, <1>16, <1>17

LEMMA Draw32Faithful ==
  ASSUME NEW s, Faithful(s)
  PROVE  Faithful(next_u32(s)) /\ next_u32(s).val \in Values
  BY KeptHalfFaithful, FreshHalfFaithful

LEMMA WritesFaithful ==
  ASSUME NEW s, Faithful(s), NEW buf, NEW bcnt, NEW val
  PROVE  /\ Faithful(Rebuffered(s, buf, bcnt, val))
         /\ Faithful(Unbuffered(s, buf, bcnt, val))
         /\ Faithful(Valued(s, val))
         /\ Valued(s, val).val = val
  <1>1. Shaped(s)
    BY DEF Faithful
  <1>2. /\ Rebuffered(s, buf, bcnt, val) =
             State(s.seed, s.pos, s.has, s.half, bcnt, buf, val, s.asked)
        /\ Unbuffered(s, buf, bcnt, val) =
             State(s.seed, s.pos, s.has, s.half, bcnt, buf, val, s.asked)
        /\ Valued(s, val) =
             State(s.seed, s.pos, s.has, s.half, s.bcnt, s.buf, val, s.asked)
    BY <1>1, RestExcept
  <1>3. /\ Faithful(State(s.seed, s.pos, s.has, s.half, bcnt, buf, val, s.asked))
        /\ Faithful(State(s.seed, s.pos, s.has, s.half, s.bcnt, s.buf, val, s.asked))
    BY RestIsFree
  <1>4. State(s.seed, s.pos, s.has, s.half, s.bcnt, s.buf, val, s.asked).val = val
    BY DEF State
  <1> QED  BY <1>2, <1>3, <1>4

LEMMA BufferedFaithful ==
  ASSUME NEW w, NEW s, Faithful(s)
  PROVE  Faithful(buffered(w, s))
  <1>1. CASE s.bcnt = 0
    <2>1. PICK t : t = next_u32(s)
      OBVIOUS
    <2>2. Faithful(t)
      BY <2>1, Draw32Faithful
    <2>3. PICK u, c, v : u = t.val /\ c = (Half \div w) - 1 /\ v = t.val % 2^w
      OBVIOUS
    <2>4. Faithful(Rebuffered(t, u, c, v))
      BY <2>2, WritesFaithful
    <2>5. buffered(w, s) = Rebuffered(t, u, c, v)
      BY <1>1, <2>1, <2>3 DEF buffered, Rebuffered
    <2> QED  BY <2>4, <2>5
  <1>2. CASE s.bcnt # 0
    <2>1. PICK b, c, v : b = s.buf \div 2^w /\ c = s.bcnt - 1 /\ v = b % 2^w
      OBVIOUS
    <2>2. Faithful(Rebuffered(s, b, c, v))
      BY WritesFaithful
    <2>3. buffered(w, s) = Rebuffered(s, b, c, v)
      BY <1>2, <2>1 DEF buffered, Rebuffered
    <2> QED  BY <2>2, <2>3
  <1> QED  BY <1>1, <1>2

LEMMA DrawFaithful ==
  ASSUME NEW w, NEW s, Faithful(s)
  PROVE  Faithful(Draw(w, s))
  BY Draw64Faithful, Draw32Faithful, BufferedFaithful DEF Draw

\* A word is drawn from the words.
LEMMA WordDrawn ==
  ASSUME NEW s, Faithful(s)
  PROVE  Draw(Word, s).val \in Values
  <1>1. Draw(Word, s) = next_u64(s)
    BY WidthsDiffer DEF Draw
  <1> QED  BY <1>1, Draw64Faithful

----------------------------------------------------------------------------
(* The rejection loops.                                                       *)

LEMMA InARowChain ==
  ASSUME NEW w, NEW s
  PROVE  \A k \in 0..Tries :
            InARow(w, s)[k] = IF k = 0 THEN s ELSE Draw(w, InARow(w, s)[k - 1])
  <1> DEFINE Step(d, n) == \A k \in 0..n : d[k] = IF k = 0 THEN s ELSE Draw(w, d[k - 1])
             T == {n \in 0..Tries : \E d : Step(d, n)}
  <1>0. Tries \in Nat
    BY BitGenAssumption
  <1>1. 0 \in T
    <2>1. \E d : Step(d, 0)
      <3>1. Step([k \in 0..0 |-> s], 0)
        OBVIOUS
      <3> QED  BY <3>1
    <2> QED  BY <1>0, <2>1
  <1>2. ASSUME NEW n \in 0..Tries - 1, n \in T
        PROVE  n + 1 \in T
    <2>1. PICK d : Step(d, n)
      BY <1>2
    <2>2. PICK e : e = [k \in 0..n + 1 |-> IF k = n + 1 THEN Draw(w, d[n]) ELSE d[k]]
      OBVIOUS
    <2>3. n \in Nat /\ n + 1 \in 0..Tries
      BY <1>0
    <2>4. Step(e, n + 1)
      <3> TAKE k \in 0..n + 1
      <3>1. CASE k = n + 1
        <4>1. n \in 0..n + 1 /\ n # n + 1 /\ k # 0 /\ k - 1 = n
          BY <2>3, <3>1
        <4> QED  BY <2>2, <3>1, <4>1
      <3>2. CASE k = 0
        BY <2>1, <2>2, <2>3, <3>2
      <3>3. CASE k # n + 1 /\ k # 0
        <4>1. k \in 0..n /\ k - 1 \in 0..n + 1 /\ k - 1 # n + 1
          BY <2>3, <3>3
        <4> QED  BY <2>1, <2>2, <3>3, <4>1
      <3> QED  BY <3>1, <3>2, <3>3
    <2> QED  BY <2>3, <2>4
  <1>3. T = 0..Tries
    <2> HIDE DEF T
    <2>1. T \in SUBSET (0..Tries)
      BY DEF T
    <2> QED  BY <1>0, <1>1, <1>2, <2>1, UpTo
  <1>4. Tries \in T
    BY <1>0, <1>3
  <1>5. PICK d : Step(d, Tries)
    BY <1>4
  <1>6. PICK c : c = InARow(w, s)
    OBVIOUS
  <1>7. \A k \in 0..Tries : c[k] = IF k = 0 THEN s ELSE Draw(w, c[k - 1])
    <2>1. PICK e : e = [k \in 0..Tries |-> d[k]]
      OBVIOUS
    <2>2. e = [k \in 0..Tries |-> IF k = 0 THEN s ELSE Draw(w, e[k - 1])]
      <3>1. ASSUME NEW k \in 0..Tries
            PROVE  e[k] = IF k = 0 THEN s ELSE Draw(w, e[k - 1])
        <4>1. CASE k = 0
          BY <1>5, <2>1, <4>1
        <4>2. CASE k # 0
          <5>1. k - 1 \in 0..Tries
            BY <1>0, <4>2
          <5> QED  BY <1>5, <2>1, <4>2, <5>1
        <4> QED  BY <4>1, <4>2
      <3> QED  BY <2>1, <3>1
    <2>3. c = CHOOSE f : f = [k \in 0..Tries |-> IF k = 0 THEN s ELSE Draw(w, f[k - 1])]
      BY <1>6 DEF InARow
    <2>4. c = [k \in 0..Tries |-> IF k = 0 THEN s ELSE Draw(w, c[k - 1])]
      BY <2>2, <2>3
    <2> QED  BY <2>4
  <1> QED  BY <1>6, <1>7

LEMMA InARowFaithful ==
  ASSUME NEW w, NEW s, Faithful(s)
  PROVE  \A k \in 0..Tries : Faithful(InARow(w, s)[k])
  <1>0. Tries \in Nat
    BY BitGenAssumption
  <1>6. PICK c : c = InARow(w, s)
    OBVIOUS
  <1>7. \A k \in 0..Tries : c[k] = IF k = 0 THEN s ELSE Draw(w, c[k - 1])
    BY <1>6, InARowChain
  <1> DEFINE F == {k \in 0..Tries : Faithful(c[k])}
  <1>8. 0 \in F
    BY <1>0, <1>7
  <1>9. ASSUME NEW k \in 0..Tries - 1, k \in F  PROVE k + 1 \in F
    <2>1. k + 1 \in 0..Tries /\ k + 1 # 0 /\ (k + 1) - 1 = k
      BY <1>0
    <2>2. c[k + 1] = Draw(w, c[k])
      BY <1>7, <2>1
    <2> QED  BY <1>9, <2>1, <2>2, DrawFaithful
  <1>10. F = 0..Tries
    <2> HIDE DEF F
    <2>1. F \in SUBSET (0..Tries)
      BY DEF F
    <2> QED  BY <1>0, <1>8, <1>9, <2>1, UpTo
  <1> QED  BY <1>6, <1>10

\* The draw that a rejection loop keeps, if it keeps the draws with numbers in K.
Kept(w, s, K) == IF K = {} THEN Valued(InARow(w, s)[Tries], NoValue)
                 ELSE InARow(w, s)[Min(K)]

LEMMA KeptFaithful ==
  ASSUME NEW w, NEW s, Faithful(s), NEW K \in SUBSET (1..Tries)
  PROVE  Faithful(Kept(w, s, K))
  <1>0. Tries \in 0..Tries /\ K \in SUBSET Nat /\ 1..Tries \subseteq 0..Tries
    BY BitGenAssumption
  <1>1. \A k \in 0..Tries : Faithful(InARow(w, s)[k])
    BY InARowFaithful
  <1>2. CASE K = {}
    BY <1>0, <1>1, <1>2, WritesFaithful DEF Kept
  <1>3. CASE K # {}
    <2>1. Min(K) \in K
      BY <1>0, <1>3, MinOf
    <2>2. Min(K) \in 0..Tries
      BY <1>0, <2>1
    <2> QED  BY <1>1, <1>3, <2>2 DEF Kept
  <1> QED  BY <1>2, <1>3

\* The value of a draw scaled, shifted or masked, or left out if there is none.
LEMMA ValueFree ==
  ASSUME NEW t, Faithful(t), NEW v
  PROVE  Faithful(IF t.val = NoValue THEN t ELSE Valued(t, v))
  BY WritesFaithful

LEMMA LemireFaithful ==
  ASSUME NEW w, NEW rng, NEW s, Faithful(s)
  PROVE  Faithful(lemire(w, rng, s))
  <1>1. PICK K : K = {k \in 1..Tries : ~RejectedByLemire(w, rng, InARow(w, s)[k].val)}
    OBVIOUS
  <1>2. PICK t : t = Kept(w, s, K)
    OBVIOUS
  <1>3. Faithful(t)
    BY <1>1, <1>2, KeptFaithful
  <1>4. PICK v : v = Scaled(w, rng, t.val)
    OBVIOUS
  <1>5. lemire(w, rng, s) = IF t.val = NoValue THEN t ELSE Valued(t, v)
    BY <1>1, <1>2, <1>4 DEF lemire, FirstKept, OfVal, Kept, Valued
  <1> QED  BY <1>3, <1>5, ValueFree

LEMMA BoundedFaithful ==
  ASSUME NEW w, NEW off, NEW rng, NEW s, Faithful(s)
  PROVE  Faithful(bounded(w, off, rng, s))
  <1>1. PICK width : width = IF w = Word /\ rng < 2^Half THEN Half ELSE w
    OBVIOUS
  <1>2. PICK t : t = CASE rng = 0 -> [s EXCEPT !.val = 0]
                       [] rng = 2^width - 1 -> Draw(width, s)
                       [] OTHER -> lemire(width, rng, s)
    OBVIOUS
  <1>3. Faithful(t)
    <2>1. CASE rng = 0
      <3>1. Faithful(Valued(s, 0))
        BY WritesFaithful
      <3>2. t = Valued(s, 0) \/ t = Draw(width, s)
        BY <1>2, <2>1 DEF Valued
      <3> QED  BY <3>1, <3>2, DrawFaithful
    <2>2. CASE rng # 0 /\ rng = 2^width - 1
      BY <1>2, <2>2, DrawFaithful
    <2>3. CASE rng # 0 /\ rng # 2^width - 1
      BY <1>2, <2>3, LemireFaithful
    <2> QED  BY <2>1, <2>2, <2>3
  <1>4. PICK v : v = (off + t.val) % 2^w
    OBVIOUS
  <1>5. bounded(w, off, rng, s) = IF t.val = NoValue THEN t ELSE Valued(t, v)
    BY <1>1, <1>2, <1>4 DEF bounded, OfVal, Valued
  <1> QED  BY <1>3, <1>5, ValueFree

LEMMA IntervalFaithful ==
  ASSUME NEW max, NEW s, Faithful(s)
  PROVE  Faithful(random_interval(max, s))
  <1>1. PICK m, w : m = gen_mask(max) + 1 /\ w = IF max < 2^Half THEN Half ELSE Word
    OBVIOUS
  <1>2. CASE max = 0
    <2>1. random_interval(max, s) = Valued(s, 0)
      BY <1>2 DEF random_interval, Valued
    <2> QED  BY <2>1, WritesFaithful
  <1>3. CASE max # 0
    <2>1. PICK K : K = {k \in 1..Tries : ~(InARow(w, s)[k].val % m > max)}
      OBVIOUS
    <2>2. PICK t : t = Kept(w, s, K)
      OBVIOUS
    <2>3. Faithful(t)
      BY <2>1, <2>2, KeptFaithful
    <2>4. PICK v : v = t.val % m
      OBVIOUS
    <2>5. random_interval(max, s) = IF t.val = NoValue THEN t ELSE Valued(t, v)
      BY <1>1, <1>3, <2>1, <2>2, <2>4 DEF random_interval, FirstKept, OfVal, Kept, Valued
    <2> QED  BY <2>3, <2>5, ValueFree
  <1> QED  BY <1>2, <1>3

LEMMA AnswerFaithful ==
  ASSUME NEW q, q.ask \in {"raw", "bounded", "interval"}, NEW s, Faithful(s)
  PROVE  Faithful(Answer(q, s))
  BY DrawFaithful, BoundedFaithful, IntervalFaithful DEF Answer

----------------------------------------------------------------------------
(* The draws of a method, one after another.                                  *)

DrawOne(was, q) == [s |-> Answer(q, was.s), out |-> Append(was.out, Answer(q, was.s).val)]

LEMMA DrawsChain ==
  ASSUME NEW asks, Len(asks) \in Nat, NEW s
  PROVE  \E d : /\ d[0] = [s |-> s, out |-> <<>>]
                /\ \A k \in 1..Len(asks) : d[k] = DrawOne(d[k - 1], asks[k])
                /\ Draws(asks, s) = d[Len(asks)]
  <1> DEFINE Step(f, m) == \A k \in 0..m : f[k] = IF k = 0 THEN [s |-> s, out |-> <<>>] ELSE DrawOne(f[k - 1], asks[k])
             T == {m \in 0..Len(asks) : \E f : Step(f, m)}
  <1>0. Len(asks) \in Nat
    OBVIOUS
  <1>1. 0 \in T
    <2>1. \E f : Step(f, 0)
      <3>1. Step([k \in 0..0 |-> [s |-> s, out |-> <<>>]], 0)
        OBVIOUS
      <3> QED  BY <3>1
    <2> QED  BY <1>0, <2>1
  <1>2. ASSUME NEW m \in 0..Len(asks) - 1, m \in T
        PROVE  m + 1 \in T
    <2>1. PICK f : Step(f, m)
      BY <1>2
    <2>2. PICK e : e = [k \in 0..m + 1 |-> IF k = m + 1 THEN DrawOne(f[m], asks[m + 1]) ELSE f[k]]
      OBVIOUS
    <2>3. m \in Nat /\ m + 1 \in 0..Len(asks)
      BY <1>0
    <2>4. Step(e, m + 1)
      <3> TAKE k \in 0..m + 1
      <3>1. CASE k = m + 1
        <4>1. m \in 0..m + 1 /\ m # m + 1 /\ k # 0 /\ k - 1 = m
          BY <2>3, <3>1
        <4> QED  BY <2>2, <3>1, <4>1
      <3>2. CASE k = 0
        BY <2>1, <2>2, <2>3, <3>2
      <3>3. CASE k # m + 1 /\ k # 0
        <4>1. k \in 0..m /\ k - 1 \in 0..m + 1 /\ k - 1 # m + 1
          BY <2>3, <3>3
        <4> QED  BY <2>1, <2>2, <3>3, <4>1
      <3> QED  BY <3>1, <3>2, <3>3
    <2> QED  BY <2>3, <2>4
  <1>3. T = 0..Len(asks)
    <2> HIDE DEF T
    <2>1. T \in SUBSET (0..Len(asks))
      BY DEF T
    <2> QED  BY <1>0, <1>1, <1>2, <2>1, UpTo
  <1>4. Len(asks) \in T
    <2> HIDE DEF T
    <2> QED  BY <1>0, <1>3
  <1>5. PICK f : Step(f, Len(asks))
    BY <1>4
  <1>6. PICK e : e = [k \in 0..Len(asks) |-> f[k]]
    OBVIOUS
  <1>7. e = [k \in 0..Len(asks) |-> IF k = 0 THEN [s |-> s, out |-> <<>>] ELSE DrawOne(e[k - 1], asks[k])]
    <2>1. ASSUME NEW k \in 0..Len(asks)
          PROVE  e[k] = IF k = 0 THEN [s |-> s, out |-> <<>>] ELSE DrawOne(e[k - 1], asks[k])
      <3>1. CASE k = 0
        BY <1>5, <1>6, <3>1
      <3>2. CASE k # 0
        <4>1. k - 1 \in 0..Len(asks)
          BY <1>0, <3>2
        <4> QED  BY <1>5, <1>6, <3>2, <4>1
      <3> QED  BY <3>1, <3>2
    <2> QED  BY <1>6, <2>1
  <1>8. PICK d : d = CHOOSE g : g = [k \in 0..Len(asks) |-> IF k = 0 THEN [s |-> s, out |-> <<>>] ELSE DrawOne(g[k - 1], asks[k])]
    OBVIOUS
  <1>9. d = [k \in 0..Len(asks) |-> IF k = 0 THEN [s |-> s, out |-> <<>>] ELSE DrawOne(d[k - 1], asks[k])]
    BY <1>7, <1>8
  <1>10. d[0] = [s |-> s, out |-> <<>>] /\ \A k \in 1..Len(asks) : d[k] = DrawOne(d[k - 1], asks[k])
    <2>1. d[0] = [s |-> s, out |-> <<>>]
      BY <1>0, <1>9
    <2>2. ASSUME NEW k \in 1..Len(asks)  PROVE d[k] = DrawOne(d[k - 1], asks[k])
      <3>1. k \in 0..Len(asks) /\ k # 0
        BY <1>0
      <3> QED  BY <1>9, <3>1
    <2> QED  BY <2>1, <2>2
  <1>11. Draws(asks, s) = d[Len(asks)]
    BY <1>8 DEF Draws, DrawOne
  <1> QED  BY <1>10, <1>11

LEMMA DrawsFaithful ==
  ASSUME NEW asks, Len(asks) \in Nat,
         \A k \in 1..Len(asks) : asks[k].ask \in {"raw", "bounded", "interval"},
         NEW s, Faithful(s)
  PROVE  Faithful(Draws(asks, s).s) /\ \E V : Draws(asks, s).out \in Seq(V)
  <1>1. PICK n \in Nat : n = Len(asks)
    OBVIOUS
  <1>2. PICK d : /\ d[0] = [s |-> s, out |-> <<>>]
                 /\ \A k \in 1..n : d[k] = DrawOne(d[k - 1], asks[k])
                 /\ Draws(asks, s) = d[n]
    BY <1>1, DrawsChain
  <1> DEFINE F == {k \in 0..n : Faithful(d[k].s) /\ \E V : d[k].out \in Seq(V)}
  <1>3. 0 \in F
    <2>1. d[0].s = s /\ d[0].out = <<>>
      BY <1>2
    <2>2. <<>> \in Seq({})
      OBVIOUS
    <2>3. \E V : d[0].out \in Seq(V)
      BY <2>1, <2>2
    <2>4. Faithful(d[0].s)
      BY <2>1
    <2>5. 0 \in 0..n
      OBVIOUS
    <2> QED  BY <2>3, <2>4, <2>5
  <1>4. ASSUME NEW k \in 0..n - 1, k \in F  PROVE k + 1 \in F
    <2>1. k + 1 \in 0..n /\ k + 1 \in 1..n /\ (k + 1) - 1 = k
      OBVIOUS
    <2>2. PICK V : d[k].out \in Seq(V)
      BY <1>4
    <2>3. PICK t : t = Answer(asks[k + 1], d[k].s)
      OBVIOUS
    <2>4. d[k + 1].s = t /\ d[k + 1].out = Append(d[k].out, t.val)
      <3>1. d[k + 1] = DrawOne(d[k], asks[k + 1])
        BY <1>2, <2>1
      <3> QED  BY <2>3, <3>1 DEF DrawOne
    <2>5. Faithful(t)
      <3>1. asks[k + 1].ask \in {"raw", "bounded", "interval"}
        BY <1>1, <2>1
      <3> QED  BY <1>4, <2>3, <3>1, AnswerFaithful
    <2>6. d[k + 1].out \in Seq(V \union {t.val})
      <3>1. d[k].out \in Seq(V \union {t.val})
        BY <2>2
      <3> QED  BY <2>4, <3>1
    <2> QED  BY <2>1, <2>4, <2>5, <2>6
  <1>5. F = 0..n
    <2> HIDE DEF F
    <2>1. F \in SUBSET (0..n)
      BY DEF F
    <2> QED  BY <1>3, <1>4, <2>1, UpTo
  <1>6. n \in F
    BY <1>5
  <1> QED  BY <1>2, <1>6

----------------------------------------------------------------------------
(* Sums of a sequence from an element on.                                     *)

LEMMA SumChain ==
  ASSUME NEW c, Len(c) \in Nat
  PROVE  \E d : /\ d[0] = 0
                /\ \A k \in 1..Len(c) : d[k] = c[Len(c) - k + 1] + d[k - 1]
                /\ \A from : SumOf(c, from) = d[Len(c) - from + 1]
  <1> DEFINE Step(f, m) == \A k \in 0..m : f[k] = IF k = 0 THEN 0 ELSE c[Len(c) - k + 1] + f[k - 1]
             T == {m \in 0..Len(c) : \E f : Step(f, m)}
  <1>0. Len(c) \in Nat
    OBVIOUS
  <1>1. 0 \in T
    <2>1. \E f : Step(f, 0)
      <3>1. Step([k \in 0..0 |-> 0], 0)
        OBVIOUS
      <3> QED  BY <3>1
    <2> QED  BY <1>0, <2>1
  <1>2. ASSUME NEW m \in 0..Len(c) - 1, m \in T
        PROVE  m + 1 \in T
    <2>1. PICK f : Step(f, m)
      BY <1>2
    <2>2. PICK e : e = [k \in 0..m + 1 |-> IF k = m + 1 THEN c[Len(c) - (m + 1) + 1] + f[m] ELSE f[k]]
      OBVIOUS
    <2>3. m \in Nat /\ m + 1 \in 0..Len(c)
      BY <1>0
    <2>4. Step(e, m + 1)
      <3> TAKE k \in 0..m + 1
      <3>1. CASE k = m + 1
        <4>1. m \in 0..m + 1 /\ m # m + 1 /\ k # 0 /\ k - 1 = m
          BY <2>3, <3>1
        <4> QED  BY <2>2, <3>1, <4>1
      <3>2. CASE k = 0
        BY <2>1, <2>2, <2>3, <3>2
      <3>3. CASE k # m + 1 /\ k # 0
        <4>1. k \in 0..m /\ k - 1 \in 0..m + 1 /\ k - 1 # m + 1
          BY <2>3, <3>3
        <4> QED  BY <2>1, <2>2, <3>3, <4>1
      <3> QED  BY <3>1, <3>2, <3>3
    <2> QED  BY <2>3, <2>4
  <1>3. T = 0..Len(c)
    <2> HIDE DEF T
    <2>1. T \in SUBSET (0..Len(c))
      BY DEF T
    <2> QED  BY <1>0, <1>1, <1>2, <2>1, UpTo
  <1>4. Len(c) \in T
    <2> HIDE DEF T
    <2> QED  BY <1>0, <1>3
  <1>5. PICK f : Step(f, Len(c))
    BY <1>4
  <1>6. PICK e : e = [k \in 0..Len(c) |-> f[k]]
    OBVIOUS
  <1>7. e = [k \in 0..Len(c) |-> IF k = 0 THEN 0 ELSE c[Len(c) - k + 1] + e[k - 1]]
    <2>1. ASSUME NEW k \in 0..Len(c)
          PROVE  e[k] = IF k = 0 THEN 0 ELSE c[Len(c) - k + 1] + e[k - 1]
      <3>1. CASE k = 0
        BY <1>5, <1>6, <3>1
      <3>2. CASE k # 0
        <4>1. k - 1 \in 0..Len(c)
          BY <1>0, <3>2
        <4> QED  BY <1>5, <1>6, <3>2, <4>1
      <3> QED  BY <3>1, <3>2
    <2> QED  BY <1>6, <2>1
  <1>8. PICK d : d = CHOOSE g : g = [k \in 0..Len(c) |-> IF k = 0 THEN 0 ELSE c[Len(c) - k + 1] + g[k - 1]]
    OBVIOUS
  <1>9. d = [k \in 0..Len(c) |-> IF k = 0 THEN 0 ELSE c[Len(c) - k + 1] + d[k - 1]]
    BY <1>7, <1>8
  <1>10. d[0] = 0 /\ \A k \in 1..Len(c) : d[k] = c[Len(c) - k + 1] + d[k - 1]
    <2>1. d[0] = 0
      BY <1>0, <1>9
    <2>2. ASSUME NEW k \in 1..Len(c)  PROVE d[k] = c[Len(c) - k + 1] + d[k - 1]
      <3>1. k \in 0..Len(c) /\ k # 0
        BY <1>0
      <3> QED  BY <1>9, <3>1
    <2> QED  BY <2>1, <2>2
  <1>11. \A from : SumOf(c, from) = d[Len(c) - from + 1]
    BY <1>8 DEF SumOf
  <1> QED  BY <1>10, <1>11

\* Nothing is left after the last element; every element adds itself.
LEMMA SumSteps ==
  ASSUME NEW c, Len(c) \in Nat
  PROVE  /\ SumOf(c, Len(c) + 1) = 0
         /\ \A from \in 1..Len(c) : SumOf(c, from) = c[from] + SumOf(c, from + 1)
  <1>1. PICK d : /\ d[0] = 0
                 /\ \A k \in 1..Len(c) : d[k] = c[Len(c) - k + 1] + d[k - 1]
                 /\ \A from : SumOf(c, from) = d[Len(c) - from + 1]
    BY SumChain
  <1>2. SumOf(c, Len(c) + 1) = 0
    <2>1. Len(c) - (Len(c) + 1) + 1 = 0
      OBVIOUS
    <2> QED  BY <1>1, <2>1
  <1>3. ASSUME NEW from \in 1..Len(c)
        PROVE  SumOf(c, from) = c[from] + SumOf(c, from + 1)
    <2>1. PICK k : k = Len(c) - from + 1
      OBVIOUS
    <2>2. k \in 1..Len(c) /\ Len(c) - k + 1 = from /\ k - 1 = Len(c) - (from + 1) + 1
      BY <2>1
    <2>3. d[k] = c[from] + d[k - 1]
      BY <1>1, <2>2
    <2>4. SumOf(c, from) = d[k] /\ SumOf(c, from + 1) = d[k - 1]
      BY <1>1, <2>1, <2>2
    <2> QED  BY <2>3, <2>4
  <1> QED  BY <1>2, <1>3

LEMMA SumType ==
  ASSUME NEW c \in Seq(Nat)
  PROVE  \A from \in 1..Len(c) + 1 : SumOf(c, from) \in Nat
  <1>1. PICK n \in Nat : n = Len(c)
    OBVIOUS
  <1> DEFINE T == {k \in 0..n : SumOf(c, n + 1 - k) \in Nat}
  <1>2. 0 \in T
    <2>1. n + 1 - 0 = Len(c) + 1
      BY <1>1
    <2>2. SumOf(c, Len(c) + 1) = 0
      BY SumSteps
    <2> QED  BY <2>1, <2>2
  <1>3. ASSUME NEW k \in 0..n - 1, k \in T  PROVE k + 1 \in T
    <2>1. PICK i : i = n + 1 - (k + 1)
      OBVIOUS
    <2>2. i \in 1..Len(c) /\ i + 1 = n + 1 - k /\ k + 1 \in 0..n
      BY <1>1, <2>1
    <2>3. SumOf(c, i) = c[i] + SumOf(c, i + 1)
      BY <2>2, SumSteps
    <2>4. c[i] \in Nat /\ SumOf(c, i + 1) \in Nat
      BY <1>3, <2>2
    <2> QED  BY <2>1, <2>2, <2>3, <2>4
  <1>4. T = 0..n
    <2> HIDE DEF T
    <2>1. T \in SUBSET (0..n)
      BY DEF T
    <2> QED  BY <1>2, <1>3, <2>1, UpTo
  <1>5. ASSUME NEW from \in 1..Len(c) + 1  PROVE SumOf(c, from) \in Nat
    <2>1. n + 1 - from \in T /\ n + 1 - (n + 1 - from) = from
      <3> HIDE DEF T
      <3> QED  BY <1>1, <1>4
    <2> QED  BY <2>1
  <1> QED  BY <1>5

----------------------------------------------------------------------------
(* A hypergeometric draw.                                                     *)

UrnStep(was) ==
    IF was.s.val = NoValue \/ ~UrnGoesOn(was.urn) THEN was
    ELSE [s |-> random_interval(was.urn.left - 1, was.s),
          urn |-> UrnDraw(was.urn, random_interval(was.urn.left - 1, was.s).val)]

HyperOf(end, good, bad, sample) ==
    IF end.s.val = NoValue THEN end.s
    ELSE Valued(end.s, UrnEnd(end.urn, good, bad, sample))

\* The states of the loop, as a sequence from the urn as it is given.
HyperRun(d, n, good, bad, sample, s) ==
    /\ d[0] = [s |-> s, urn |-> UrnStart(good, bad, sample)]
    /\ \A k \in 1..n : d[k] = UrnStep(d[k - 1])
    /\ HyperOf(d[n], good, bad, sample) = hypergeometric(good, bad, sample, s)

LEMMA HyperChain ==
  ASSUME NEW good \in Nat, NEW bad \in Nat, NEW sample, NEW s
  PROVE  \E d : HyperRun(d, good + bad, good, bad, sample, s)
  <1> DEFINE Step(f, m) == \A k \in 0..m : f[k] = IF k = 0 THEN [s |-> s, urn |-> UrnStart(good, bad, sample)] ELSE UrnStep(f[k - 1])
             T == {m \in 0..(good + bad) : \E f : Step(f, m)}
  <1>0. (good + bad) \in Nat
    OBVIOUS
  <1>1. 0 \in T
    <2>1. \E f : Step(f, 0)
      <3>1. Step([k \in 0..0 |-> [s |-> s, urn |-> UrnStart(good, bad, sample)]], 0)
        OBVIOUS
      <3> QED  BY <3>1
    <2> QED  BY <1>0, <2>1
  <1>2. ASSUME NEW m \in 0..(good + bad) - 1, m \in T
        PROVE  m + 1 \in T
    <2>1. PICK f : Step(f, m)
      BY <1>2
    <2>2. PICK e : e = [k \in 0..m + 1 |-> IF k = m + 1 THEN UrnStep(f[m]) ELSE f[k]]
      OBVIOUS
    <2>3. m \in Nat /\ m + 1 \in 0..(good + bad)
      BY <1>0
    <2>4. Step(e, m + 1)
      <3> TAKE k \in 0..m + 1
      <3>1. CASE k = m + 1
        <4>1. m \in 0..m + 1 /\ m # m + 1 /\ k # 0 /\ k - 1 = m
          BY <2>3, <3>1
        <4> QED  BY <2>2, <3>1, <4>1
      <3>2. CASE k = 0
        BY <2>1, <2>2, <2>3, <3>2
      <3>3. CASE k # m + 1 /\ k # 0
        <4>1. k \in 0..m /\ k - 1 \in 0..m + 1 /\ k - 1 # m + 1
          BY <2>3, <3>3
        <4> QED  BY <2>1, <2>2, <3>3, <4>1
      <3> QED  BY <3>1, <3>2, <3>3
    <2> QED  BY <2>3, <2>4
  <1>3. T = 0..(good + bad)
    <2> HIDE DEF T
    <2>1. T \in SUBSET (0..(good + bad))
      BY DEF T
    <2> QED  BY <1>0, <1>1, <1>2, <2>1, UpTo
  <1>4. (good + bad) \in T
    <2> HIDE DEF T
    <2> QED  BY <1>0, <1>3
  <1>5. PICK f : Step(f, (good + bad))
    BY <1>4
  <1>6. PICK e : e = [k \in 0..(good + bad) |-> f[k]]
    OBVIOUS
  <1>7. e = [k \in 0..(good + bad) |-> IF k = 0 THEN [s |-> s, urn |-> UrnStart(good, bad, sample)] ELSE UrnStep(e[k - 1])]
    <2>1. ASSUME NEW k \in 0..(good + bad)
          PROVE  e[k] = IF k = 0 THEN [s |-> s, urn |-> UrnStart(good, bad, sample)] ELSE UrnStep(e[k - 1])
      <3>1. CASE k = 0
        BY <1>5, <1>6, <3>1
      <3>2. CASE k # 0
        <4>1. k - 1 \in 0..(good + bad)
          BY <1>0, <3>2
        <4> QED  BY <1>5, <1>6, <3>2, <4>1
      <3> QED  BY <3>1, <3>2
    <2> QED  BY <1>6, <2>1
  <1>8. PICK d : d = CHOOSE g : g = [k \in 0..(good + bad) |-> IF k = 0 THEN [s |-> s, urn |-> UrnStart(good, bad, sample)] ELSE UrnStep(g[k - 1])]
    OBVIOUS
  <1>9. d = [k \in 0..(good + bad) |-> IF k = 0 THEN [s |-> s, urn |-> UrnStart(good, bad, sample)] ELSE UrnStep(d[k - 1])]
    BY <1>7, <1>8
  <1>10. d[0] = [s |-> s, urn |-> UrnStart(good, bad, sample)] /\ \A k \in 1..(good + bad) : d[k] = UrnStep(d[k - 1])
    <2>1. d[0] = [s |-> s, urn |-> UrnStart(good, bad, sample)]
      BY <1>0, <1>9
    <2>2. ASSUME NEW k \in 1..(good + bad)  PROVE d[k] = UrnStep(d[k - 1])
      <3>1. k \in 0..(good + bad) /\ k # 0
        BY <1>0
      <3> QED  BY <1>9, <3>1
    <2> QED  BY <2>1, <2>2
  <1>11. HyperOf(d[good + bad], good, bad, sample) = hypergeometric(good, bad, sample, s)
    BY <1>8 DEF hypergeometric, UrnStep, HyperOf, Valued
  <1>12. HyperRun(d, good + bad, good, bad, sample, s)
    BY <1>10, <1>11 DEF HyperRun
  <1> QED  BY <1>12

\* What the loop keeps: the balls that are left, and those drawn, are balls of the urn.
UrnSound(u, good, bad, todo) ==
    /\ u.left \in Nat /\ u.good \in Nat /\ u.todo \in Nat /\ u.good <= u.left
    /\ u.left - u.todo = good + bad - todo
    /\ u.good <= good /\ good - u.good <= todo - u.todo

ToDo(good, bad, sample) ==
    IF sample > (good + bad) \div 2 THEN good + bad - sample ELSE sample

LEMMA UrnBegins ==
  ASSUME NEW good \in Nat, NEW bad \in Nat, NEW sample \in Nat, sample <= good + bad
  PROVE  /\ UrnSound(UrnStart(good, bad, sample), good, bad, ToDo(good, bad, sample))
         /\ UrnStart(good, bad, sample).left = good + bad
  BY DEF UrnStart, UrnSound, ToDo

LEMMA UrnKeeps ==
  ASSUME NEW good \in Nat, NEW bad \in Nat, NEW todo \in Int,
         NEW u, UrnSound(u, good, bad, todo), UrnGoesOn(u), NEW x
  PROVE  /\ UrnSound(UrnDraw(u, x), good, bad, todo)
         /\ UrnDraw(u, x).left = u.left - 1
  <1>1. /\ UrnDraw(u, x).left = u.left - 1 /\ UrnDraw(u, x).todo = u.todo - 1
        /\ UrnDraw(u, x).good = u.good - 1 \/ UrnDraw(u, x).good = u.good
    BY DEF UrnDraw
  <1> QED  BY <1>1 DEF UrnSound, UrnGoesOn

LEMMA UrnEnds ==
  ASSUME NEW good \in Nat, NEW bad \in Nat, NEW sample \in Nat, sample <= good + bad,
         NEW u, UrnSound(u, good, bad, ToDo(good, bad, sample)), ~UrnGoesOn(u)
  PROVE  /\ UrnEnd(u, good, bad, sample) \in 0..good
         /\ UrnEnd(u, good, bad, sample) <= sample
         /\ sample - UrnEnd(u, good, bad, sample) <= bad
  <1>1. PICK rest : rest = IF u.left = u.good THEN u.good - u.todo ELSE u.good
    OBVIOUS
  <1>2. /\ rest \in 0..good
        /\ good - rest <= ToDo(good, bad, sample)
        /\ ToDo(good, bad, sample) - (good - rest) <= bad
    BY <1>1 DEF UrnSound, UrnGoesOn, ToDo
  <1>3. UrnEnd(u, good, bad, sample) =
          IF sample > (good + bad) \div 2 THEN rest ELSE good - rest
    BY <1>1 DEF UrnEnd
  <1> QED  BY <1>2, <1>3 DEF ToDo

\* A draw from an urn comes from the stream; it takes balls that are there.
LEMMA HyperFaithful ==
  ASSUME NEW good \in Nat, NEW bad \in Nat, NEW sample, NEW s, Faithful(s)
  PROVE  /\ Faithful(hypergeometric(good, bad, sample, s))
         /\ \E d : /\ HyperRun(d, good + bad, good, bad, sample, s)
                   /\ Faithful(d[good + bad].s)
  <1>1. PICK n \in Nat : n = good + bad
    OBVIOUS
  <1>0. PICK d : HyperRun(d, n, good, bad, sample, s)
    BY <1>1, HyperChain
  <1>2. /\ d[0] = [s |-> s, urn |-> UrnStart(good, bad, sample)]
        /\ \A k \in 1..n : d[k] = UrnStep(d[k - 1])
        /\ HyperOf(d[n], good, bad, sample) = hypergeometric(good, bad, sample, s)
    BY <1>0 DEF HyperRun
  <1> DEFINE F == {k \in 0..n : Faithful(d[k].s)}
  <1>3. 0 \in F
    <2>1. d[0].s = s
      BY <1>2
    <2>2. Faithful(d[0].s)
      BY <2>1
    <2> QED  BY <2>2
  <1>4. ASSUME NEW k \in 0..n - 1, k \in F  PROVE k + 1 \in F
    <2>1. k + 1 \in 0..n /\ k + 1 \in 1..n /\ (k + 1) - 1 = k
      OBVIOUS
    <2>2. PICK was : was = d[k]
      OBVIOUS
    <2>3. d[k + 1] = UrnStep(was)
      BY <1>2, <2>1, <2>2
    <2>4. Faithful(was.s)
      BY <1>4, <2>2
    <2>5. Faithful(UrnStep(was).s)
      <3>1. PICK t : t = random_interval(was.urn.left - 1, was.s)
        OBVIOUS
      <3>2. Faithful(t)
        BY <2>4, <3>1, IntervalFaithful
      <3>3. UrnStep(was) = was \/ UrnStep(was).s = t
        BY <3>1 DEF UrnStep
      <3> QED  BY <2>4, <3>2, <3>3
    <2> QED  BY <2>1, <2>3, <2>5
  <1>5. F = 0..n
    <2> HIDE DEF F
    <2>1. F \in SUBSET (0..n)
      BY DEF F
    <2> QED  BY <1>3, <1>4, <2>1, UpTo
  <1>6. Faithful(d[n].s)
    BY <1>5
  <1>7. Faithful(HyperOf(d[n], good, bad, sample))
    BY <1>6, WritesFaithful DEF HyperOf
  <1>8. Faithful(hypergeometric(good, bad, sample, s))
    BY <1>2, <1>7
  <1>9. HyperRun(d, good + bad, good, bad, sample, s) /\ Faithful(d[good + bad].s)
    BY <1>0, <1>1, <1>6
  <1> QED  BY <1>8, <1>9

LEMMA HyperResult ==
  ASSUME NEW good \in Nat, NEW bad \in Nat, NEW sample \in Nat, sample <= good + bad,
         NEW s, Faithful(s), hypergeometric(good, bad, sample, s).val # NoValue
  PROVE  /\ hypergeometric(good, bad, sample, s).val \in 0..good
         /\ hypergeometric(good, bad, sample, s).val <= sample
         /\ sample - hypergeometric(good, bad, sample, s).val <= bad
  <1>1. PICK n \in Nat : n = good + bad
    OBVIOUS
  <1>0. PICK d : HyperRun(d, n, good, bad, sample, s) /\ Faithful(d[n].s)
    BY <1>1, HyperFaithful
  <1>2. /\ d[0] = [s |-> s, urn |-> UrnStart(good, bad, sample)]
        /\ \A k \in 1..n : d[k] = UrnStep(d[k - 1])
        /\ HyperOf(d[n], good, bad, sample) = hypergeometric(good, bad, sample, s)
        /\ Faithful(d[n].s)
    BY <1>0 DEF HyperRun
  <1>3. PICK todo \in Int : todo = ToDo(good, bad, sample)
    BY DEF ToDo
  <1> DEFINE Ok(k) == /\ UrnSound(d[k].urn, good, bad, todo)
                      /\ \/ d[k].s.val = NoValue
                         \/ ~UrnGoesOn(d[k].urn)
                         \/ d[k].urn.left = n - k
             F == {k \in 0..n : Ok(k)}
  <1>4. 0 \in F
    <2>1. d[0].urn = UrnStart(good, bad, sample)
      BY <1>2
    <2>2. /\ UrnSound(UrnStart(good, bad, sample), good, bad, ToDo(good, bad, sample))
          /\ UrnStart(good, bad, sample).left = good + bad
      BY UrnBegins
    <2>3. UrnSound(d[0].urn, good, bad, todo) /\ d[0].urn.left = n - 0
      BY <1>1, <1>3, <2>1, <2>2
    <2> QED  BY <2>3
  <1>5. ASSUME NEW k \in 0..n - 1, k \in F  PROVE k + 1 \in F
    <2>1. k + 1 \in 0..n /\ k + 1 \in 1..n /\ (k + 1) - 1 = k
      OBVIOUS
    <2>2. PICK was : was = d[k]
      OBVIOUS
    <2>3. d[k + 1] = UrnStep(was)
      BY <1>2, <2>1, <2>2
    <2>4. UrnSound(was.urn, good, bad, todo)
      BY <1>5, <2>2
    <2>5. CASE was.s.val = NoValue \/ ~UrnGoesOn(was.urn)
      <3>1. d[k + 1] = d[k]
        BY <2>2, <2>3, <2>5 DEF UrnStep
      <3>2. d[k].s.val = NoValue \/ ~UrnGoesOn(d[k].urn)
        BY <2>2, <2>5
      <3> QED  BY <1>5, <2>1, <3>1, <3>2
    <2>6. CASE ~(was.s.val = NoValue \/ ~UrnGoesOn(was.urn))
      <3>1. was.urn.left = n - k
        BY <1>5, <2>2, <2>6
      <3>2. PICK x : d[k + 1].urn = UrnDraw(was.urn, x)
        BY <2>3, <2>6 DEF UrnStep
      <3>3. UrnSound(d[k + 1].urn, good, bad, todo)
            /\ d[k + 1].urn.left = was.urn.left - 1
        BY <2>4, <2>6, <3>2, UrnKeeps
      <3>4. d[k + 1].urn.left = n - (k + 1)
        BY <3>1, <3>3
      <3> QED  BY <2>1, <3>3, <3>4
    <2> QED  BY <2>5, <2>6
  <1>6. F = 0..n
    <2> HIDE DEF F
    <2>1. F \in SUBSET (0..n)
      BY DEF F
    <2> QED  BY <1>4, <1>5, <2>1, UpTo
  <1>7. Ok(n)
    BY <1>6
  <1>8. PICK h : h = hypergeometric(good, bad, sample, s)
    OBVIOUS
  <1>9. d[n].s.val # NoValue /\ h.val = UrnEnd(d[n].urn, good, bad, sample)
    <2>1. PICK v : v = UrnEnd(d[n].urn, good, bad, sample)
      OBVIOUS
    <2>2. h = IF d[n].s.val = NoValue THEN d[n].s ELSE Valued(d[n].s, v)
      BY <1>2, <1>8, <2>1 DEF HyperOf
    <2>3. Valued(d[n].s, v).val = v
      BY <1>2, WritesFaithful
    <2>4. h.val # NoValue
      BY <1>8
    <2> QED  BY <2>1, <2>2, <2>3, <2>4
  <1>10. ~UrnGoesOn(d[n].urn)
    <2>1. d[n].urn.left = 0 => ~UrnGoesOn(d[n].urn)
      BY <1>7 DEF UrnSound, UrnGoesOn
    <2> QED  BY <1>7, <1>9, <2>1
  <1> QED  BY <1>3, <1>7, <1>8, <1>9, <1>10, UrnEnds

----------------------------------------------------------------------------
(* Powers of two.                                                             *)

LEMMA PowerType == \A k \in 0..Word : 2^k \in Nat \ {0}
  <1> DEFINE T == {k \in 0..Word : 2^k \in Nat \ {0}}
  <1>0. Word \in Nat
    BY BitGenAssumption DEF Word
  <1>1. 0 \in T
    BY <1>0, PowersAssumption
  <1>2. ASSUME NEW k \in 0..Word - 1, k \in T
        PROVE  k + 1 \in T
    <2>1. k + 1 \in 1..Word /\ (k + 1) - 1 = k
      BY <1>0
    <2>2. PICK a, b : a = 2^k /\ b = 2^(k + 1)
      OBVIOUS
    <2>3. b = 2 * a
      BY <2>1, <2>2, PowersAssumption
    <2>4. a \in Nat \ {0}
      BY <1>2, <2>2
    <2>5. b \in Nat \ {0}
      BY <2>3, <2>4
    <2> QED  BY <1>0, <2>1, <2>2, <2>5
  <1>3. T = 0..Word
    <2> HIDE DEF T
    <2>1. T \in SUBSET (0..Word)
      BY DEF T
    <2> QED  BY <1>0, <1>1, <1>2, <2>1, UpTo
  <1> QED  BY <1>3

LEMMA PowerSum ==
  ASSUME NEW i \in 0..Word, NEW j \in 0..Word - i
  PROVE  2^(i + j) = 2^i * 2^j
  <1> DEFINE T == {k \in 0..Word - i : 2^(i + k) = 2^i * 2^k}
  <1>0. Word \in Nat /\ Word - i \in Nat
    BY BitGenAssumption DEF Word
  <1>1. 0 \in T
    <2>1. PICK a \in Nat \ {0} : a = 2^i
      BY PowerType
    <2>2. i + 0 = i /\ a * 1 = a
      BY <1>0, <2>1
    <2> QED  BY <1>0, <2>1, <2>2, PowersAssumption
  <1>2. ASSUME NEW k \in 0..Word - i - 1, k \in T
        PROVE  k + 1 \in T
    <2>1. /\ k \in 0..Word /\ k + 1 \in 1..Word /\ (k + 1) - 1 = k
          /\ i + (k + 1) \in 1..Word /\ (i + (k + 1)) - 1 = i + k
          /\ k + 1 \in 0..Word - i
      BY <1>0
    <2>2. PICK a, b, c : a = 2^i /\ b = 2^k /\ c = 2^(i + k)
      OBVIOUS
    <2>3. a \in Nat /\ b \in Nat /\ c = a * b
      BY <1>2, <2>1, <2>2, PowerType
    <2>4. PICK e : e = i + (k + 1)
      OBVIOUS
    <2>5. 2^e = 2 * c
      BY <2>1, <2>2, <2>4, PowersAssumption
    <2>6. 2^(k + 1) = 2 * b
      BY <2>1, <2>2, PowersAssumption
    <2>7. 2 * (a * b) = a * (2 * b)
      BY <2>3
    <2>8. 2^e = a * 2^(k + 1)
      BY <2>3, <2>5, <2>6, <2>7
    <2> QED  BY <2>1, <2>2, <2>4, <2>8
  <1>3. T = 0..Word - i
    <2> HIDE DEF T
    <2>1. T \in SUBSET (0..Word - i)
      BY DEF T
    <2> QED  BY <1>0, <1>1, <1>2, <2>1, UpTo
  <1> QED  BY <1>3

LEMMA DivBelow ==
  ASSUME NEW w \in Nat, NEW h \in Nat \ {0}
  PROVE  w \div h <= w /\ w \div h >= 0 /\ w \div h \in Int
  <1> DEFINE q == w \div h
             r == w % h
  <1>1. q \in Int /\ r \in Int /\ w = h * q + r /\ 0 <= r /\ r < h
    BY DivMod
  <1> HIDE DEF q, r
  <1>2. q >= 0
    <2>1. CASE q <= -1
      <3>1. h * q <= h * (-1)
        BY <1>1, <2>1, TimesKeepsOrder
      <3> QED  BY <1>1, <3>1
    <2> QED  BY <1>1, <2>1
  <1>3. q <= w
    <2>1. q * 1 <= q * h
      <3>1. CASE q = 0
        BY <3>1
      <3>2. CASE q # 0
        BY <1>1, <1>2, <3>2, TimesKeepsOrder
      <3> QED  BY <3>1, <3>2
    <2>2. q * h = h * q /\ q * 1 = q
      BY <1>1
    <2> QED  BY <1>1, <2>1, <2>2
  <1> QED  BY <1>1, <1>2, <1>3 DEF q

LEMMA DivBelowProduct ==
  ASSUME NEW a \in Nat \ {0}, NEW b \in Nat \ {0}, NEW c, c = a * b, NEW x \in 0..c - 1
  PROVE  x \div a \in Int /\ x \div a >= 0 /\ x \div a < b
  <1> DEFINE q == x \div a
             r == x % a
  <1>0. c \in Nat /\ x \in Nat
    OBVIOUS
  <1>1. q \in Int /\ r \in Int /\ x = a * q + r /\ 0 <= r /\ r < a
    BY <1>0, DivMod
  <1>2. q >= 0
    BY <1>0, DivBelow
  <1> HIDE DEF q, r
  <1>3. q < b
    <2>1. CASE b <= q
      <3>1. a * b <= a * q
        BY <1>1, <2>1, TimesKeepsOrder
      <3> QED  BY <1>1, <3>1
    <2> QED  BY <1>1, <2>1
  <1> QED  BY <1>1, <1>2, <1>3 DEF q

\* A uniform of the bits kept of a word is below the unit.
LEMMA UniformBelow ==
  ASSUME NEW x \in Values
  PROVE  x \div 2^Drop \in 0..Unit - 1
  <1>1. Word \in Nat /\ Drop \in 0..Word /\ Word - Drop \in 0..Word /\ Half \in 0..Word
    BY BitGenAssumption, GeneratorAssumption DEF Word
  <1>2. PICK a \in Nat \ {0} : a = 2^Drop
    BY <1>1, PowerType
  <1>3. PICK b \in Nat \ {0} : b = 2^(Word - Drop)
    BY <1>1, PowerType
  <1>4. PICK c \in Nat \ {0} : c = 2^Word
    BY <1>1, PowerType
  <1>5. c = a * b
    BY <1>1, <1>2, <1>3, <1>4, PowerSum
  <1>6. x \in 0..c - 1
    <2>1. PICK h \in Nat \ {0} : h = 2^Half
      BY <1>1, PowerType
    <2>2. Words \subseteq 0..c - 1
      BY <1>4, BitGenAssumption DEF Words, Word
    <2>3. CASE x \in Words
      BY <2>2, <2>3
    <2>4. CASE \E w \in Words : x = w % 2^Half
      <3>1. PICK w \in Words : x = w % h
        BY <2>1, <2>4
      <3>2. w \in 0..c - 1
        BY <2>2
      <3>3. w % h <= w /\ w % h >= 0 /\ w % h \in Int
        BY <3>2
      <3> QED  BY <3>1, <3>2, <3>3
    <2>5. CASE \E w \in Words : x = w \div 2^Half
      <3>1. PICK w \in Words : x = w \div h
        BY <2>1, <2>5
      <3>2. w \in 0..c - 1
        BY <2>2
      <3>3. w \div h <= w /\ w \div h >= 0 /\ w \div h \in Int
        BY <3>2, DivBelow
      <3> QED  BY <3>1, <3>2, <3>3
    <2> QED  BY <2>3, <2>4, <2>5 DEF Values
  <1>7. x \div a \in Int /\ x \div a >= 0 /\ x \div a < b
    BY <1>5, <1>6, DivBelowProduct
  <1>8. Unit = b
    BY <1>3 DEF Unit
  <1> QED  BY <1>2, <1>7, <1>8

----------------------------------------------------------------------------
(* Choices with weights.                                                      *)

LEMMA TimesAll ==
  ASSUME NEW n \in Int, NEW q
  PROVE  /\ Len(Times(n, q)) = IF n > 0 THEN n ELSE 0
         /\ \A k \in 1..Len(Times(n, q)) : Times(n, q)[k] = q
  <1>1. CASE n >= 0
    <2>1. Times(n, q) \in [1..n -> {q}] /\ n \in Nat
      BY <1>1 DEF Times
    <2>2. Len(Times(n, q)) = n
      BY <2>1
    <2> QED  BY <1>1, <2>1, <2>2
  <1>2. CASE n < 0
    <2>1. 1..n = 1..0
      BY <1>2
    <2>2. Times(n, q) \in [1..0 -> {q}]
      BY <2>1 DEF Times
    <2>3. Len(Times(n, q)) = 0
      BY <2>2
    <2> QED  BY <1>2, <2>3
  <1> QED  BY <1>1, <1>2

LEMMA RoundIsSeq ==
  ASSUME NEW p, NEW V, NEW found \in Seq(V), NEW W, NEW us \in Seq(W), NEW unit
  PROVE  \E S : Round(p, found, us, unit) \in Seq(S)
  <1>1. PICK new : new = [k \in DOMAIN us |-> Weighted(Reweighted(p, found), us[k], unit)]
    OBVIOUS
  <1>2. PICK firsts : firsts = {k \in DOMAIN new : \A m \in 1..k - 1 : new[m] # new[k]}
    OBVIOUS
  <1>3. IsFiniteSet(firsts)
    <2>1. DOMAIN us = 1..Len(us) /\ Len(us) \in Nat
      OBVIOUS
    <2>2. DOMAIN new = 1..Len(us)
      BY <1>1, <2>1
    <2>3. firsts \subseteq 1..Len(us)
      BY <1>2, <2>2
    <2>4. IsFiniteSet(1..Len(us))
      BY <2>1, FS_Interval
    <2> QED  BY <2>3, <2>4, FS_Subset
  <1>4. PICK n \in Nat : n = Cardinality(firsts)
    BY <1>3, FS_CardinalityType
  <1>5. PICK g : g = [i \in 1..n |->
                       new[CHOOSE k \in firsts : Cardinality({m \in firsts : m <= k}) = i]]
    OBVIOUS
  <1>6. PICK S : S = {g[i] : i \in 1..n}
    OBVIOUS
  <1>7. g \in [1..n -> S]
    BY <1>5, <1>6
  <1>8. g \in Seq(V \union S)
    BY <1>7
  <1>9. found \in Seq(V \union S)
    OBVIOUS
  <1>10. found \o g \in Seq(V \union S)
    BY <1>8, <1>9
  <1>11. Round(p, found, us, unit) = found \o g
    BY <1>1, <1>2, <1>4, <1>5 DEF Round
  <1> QED  BY <1>10, <1>11

\* The cumulative sum starts at 0 and takes an entry at a time.
LEMMA SumsChain ==
  ASSUME NEW p, Len(p) \in Nat
  PROVE  Sums(p)[0] = 0 /\ \A k \in 1..Len(p) : Sums(p)[k] = Sums(p)[k - 1] + p[k]
  <1> DEFINE Step(f, m) == \A k \in 0..m : f[k] = IF k = 0 THEN 0 ELSE f[k - 1] + p[k]
             T == {m \in 0..Len(p) : \E f : Step(f, m)}
  <1>0. Len(p) \in Nat
    OBVIOUS
  <1>1. 0 \in T
    <2>1. \E f : Step(f, 0)
      <3>1. Step([k \in 0..0 |-> 0], 0)
        OBVIOUS
      <3> QED  BY <3>1
    <2> QED  BY <1>0, <2>1
  <1>2. ASSUME NEW m \in 0..Len(p) - 1, m \in T
        PROVE  m + 1 \in T
    <2>1. PICK f : Step(f, m)
      BY <1>2
    <2>2. PICK e : e = [k \in 0..m + 1 |-> IF k = m + 1 THEN f[m] + p[m + 1] ELSE f[k]]
      OBVIOUS
    <2>3. m \in Nat /\ m + 1 \in 0..Len(p)
      BY <1>0
    <2>4. Step(e, m + 1)
      <3> TAKE k \in 0..m + 1
      <3>1. CASE k = m + 1
        <4>1. m \in 0..m + 1 /\ m # m + 1 /\ k # 0 /\ k - 1 = m
          BY <2>3, <3>1
        <4> QED  BY <2>2, <3>1, <4>1
      <3>2. CASE k = 0
        BY <2>1, <2>2, <2>3, <3>2
      <3>3. CASE k # m + 1 /\ k # 0
        <4>1. k \in 0..m /\ k - 1 \in 0..m + 1 /\ k - 1 # m + 1
          BY <2>3, <3>3
        <4> QED  BY <2>1, <2>2, <3>3, <4>1
      <3> QED  BY <3>1, <3>2, <3>3
    <2> QED  BY <2>3, <2>4
  <1>3. T = 0..Len(p)
    <2> HIDE DEF T
    <2>1. T \in SUBSET (0..Len(p))
      BY DEF T
    <2> QED  BY <1>0, <1>1, <1>2, <2>1, UpTo
  <1>4. Len(p) \in T
    <2> HIDE DEF T
    <2> QED  BY <1>0, <1>3
  <1>5. PICK f : Step(f, Len(p))
    BY <1>4
  <1>6. PICK e : e = [k \in 0..Len(p) |-> f[k]]
    OBVIOUS
  <1>7. e = [k \in 0..Len(p) |-> IF k = 0 THEN 0 ELSE e[k - 1] + p[k]]
    <2>1. ASSUME NEW k \in 0..Len(p)
          PROVE  e[k] = IF k = 0 THEN 0 ELSE e[k - 1] + p[k]
      <3>1. CASE k = 0
        BY <1>5, <1>6, <3>1
      <3>2. CASE k # 0
        <4>1. k - 1 \in 0..Len(p)
          BY <1>0, <3>2
        <4> QED  BY <1>5, <1>6, <3>2, <4>1
      <3> QED  BY <3>1, <3>2
    <2> QED  BY <1>6, <2>1
  <1>8. PICK d : d = CHOOSE g : g = [k \in 0..Len(p) |-> IF k = 0 THEN 0 ELSE g[k - 1] + p[k]]
    OBVIOUS
  <1>9. d = [k \in 0..Len(p) |-> IF k = 0 THEN 0 ELSE d[k - 1] + p[k]]
    BY <1>7, <1>8
  <1>10. d[0] = 0
    BY <1>0, <1>9
  <1>11. ASSUME NEW k \in 1..Len(p)  PROVE d[k] = d[k - 1] + p[k]
    <2>1. k \in 0..Len(p) /\ k # 0
      BY <1>0
    <2> QED  BY <1>9, <2>1
  <1>12. Sums(p) = d
    BY <1>8 DEF Sums
  <1> QED  BY <1>10, <1>11, <1>12

\* ... of weights that are not negative: it never falls.
LEMMA SumsRise ==
  ASSUME NEW p \in Seq(Nat)
  PROVE  /\ \A k \in 0..Len(p) : Sums(p)[k] \in Nat
         /\ \A i \in 0..Len(p) : \A k \in i..Len(p) : Sums(p)[i] <= Sums(p)[k]
  <1>1. PICK t : t = Sums(p)
    OBVIOUS
  <1>2. PICK n \in Nat : n = Len(p)
    OBVIOUS
  <1>3. t[0] = 0 /\ \A k \in 1..n : t[k] = t[k - 1] + p[k]
    BY <1>1, <1>2, SumsChain
  <1>4. \A k \in 1..n : p[k] \in Nat
    BY <1>2
  <1> DEFINE T == {k \in 0..n : /\ t[k] \in Nat
                              /\ \A i \in 0..k : t[i] \in Int /\ t[i] <= t[k]}
  <1>5. 0 \in T
    BY <1>3
  <1>6. ASSUME NEW k \in 0..n - 1, k \in T
        PROVE  k + 1 \in T
    <2>1. k + 1 \in 1..n /\ (k + 1) - 1 = k /\ k + 1 \in 0..n
      OBVIOUS
    <2>2. t[k + 1] = t[k] + p[k + 1] /\ p[k + 1] \in Nat
      BY <1>3, <1>4, <2>1
    <2>3. t[k + 1] \in Nat /\ t[k] <= t[k + 1]
      BY <1>6, <2>2
    <2>4. ASSUME NEW i \in 0..k + 1  PROVE t[i] \in Int /\ t[i] <= t[k + 1]
      <3>1. CASE i = k + 1
        BY <2>3, <3>1
      <3>2. CASE i # k + 1
        <4>1. i \in 0..k
          BY <3>2
        <4>2. t[i] \in Int /\ t[i] <= t[k] /\ t[k] \in Nat
          BY <1>6, <4>1
        <4> QED  BY <2>2, <2>3, <4>2
      <3> QED  BY <3>1, <3>2
    <2> QED  BY <2>1, <2>3, <2>4
  <1>8. T = 0..n
    <2> HIDE DEF T
    <2>1. T \in SUBSET (0..n)
      BY DEF T
    <2> QED  BY <1>5, <1>6, <2>1, UpTo
  <1>9. ASSUME NEW i \in 0..n, NEW k \in i..n  PROVE t[i] <= t[k]
    <2>1. k \in T /\ i \in 0..k
      <3> HIDE DEF T
      <3> QED  BY <1>8
    <2> QED  BY <2>1
  <1>10. \A k \in 0..n : t[k] \in Nat
    BY <1>8
  <1> QED  BY <1>1, <1>2, <1>9, <1>10

\* A uniform below the unit reaches the entries before one index, and that one has a
\* weight.
LEMMA WeightedIs ==
  ASSUME NEW p \in Seq(Nat), NEW i0 \in 1..Len(p), p[i0] > 0,
         NEW unit \in Nat \ {0}, NEW u \in 0..unit - 1
  PROVE  Weighted(p, u, unit) \in 0..Len(p) - 1 /\ p[Weighted(p, u, unit) + 1] > 0
  <1>1. PICK t : t = Sums(p)
    OBVIOUS
  <1>2. PICK n \in Nat : n = Len(p)
    OBVIOUS
  <1>3. t[0] = 0 /\ \A k \in 1..n : t[k] = t[k - 1] + p[k]
    BY <1>1, <1>2, SumsChain
  <1>4. /\ \A k \in 0..n : t[k] \in Nat
        /\ \A i \in 0..n : \A k \in i..n : t[i] <= t[k]
    BY <1>1, <1>2, SumsRise
  <1>5. PICK total \in Nat : total = t[n]
    BY <1>4
  <1>6. total > 0
    <2>1. t[i0] = t[i0 - 1] + p[i0] /\ t[i0 - 1] \in Nat /\ p[i0] \in Nat
      BY <1>2, <1>3, <1>4
    <2>2. t[i0] <= total /\ t[i0] \in Nat
      BY <1>2, <1>4, <1>5
    <2> QED  BY <2>1, <2>2
  <1>7. PICK ut \in Nat : ut = u * total
    OBVIOUS
  <1>8. total * unit > ut
    <2>1. total * (u + 1) <= total * unit
      BY <1>6, TimesKeepsOrder
    <2>2. total * (u + 1) = u * total + total
      OBVIOUS
    <2>3. total * unit \in Int /\ total * (u + 1) \in Int
      OBVIOUS
    <2> QED  BY <1>6, <1>7, <2>1, <2>2, <2>3
  <1> DEFINE K == {i \in 1..n : t[i] * unit <= ut}
             F == {i \in 1..n : ~(t[i] * unit <= ut)}
  <1>9. n \in F
    <2>1. n \in 1..n
      BY <1>2
    <2>2. t[n] * unit \in Int
      BY <1>5
    <2>3. ~(t[n] * unit <= ut)
      BY <1>5, <1>8, <2>2
    <2> QED  BY <2>1, <2>3
  <1>10. PICK m \in F : \A i \in F : m <= i
    <2>1. F \in SUBSET Nat /\ F # {}
      BY <1>9
    <2> HIDE DEF F
    <2> QED  BY <2>1, Least
  <1>11. m \in 1..n /\ t[m] \in Nat /\ t[m - 1] \in Nat /\ m - 1 \in 0..n
    BY <1>4, <1>10
  <1>12. K = 1..m - 1
    <2>1. ASSUME NEW i \in 1..m - 1  PROVE i \in K
      BY <1>10, <1>11
    <2>2. ASSUME NEW i \in K  PROVE i \in 1..m - 1
      <3>1. CASE i >= m
        <4>1. i \in m..n /\ m \in 0..n
          BY <1>11, <3>1
        <4>2. t[m] <= t[i] /\ t[i] \in Nat
          BY <1>4, <4>1
        <4>3. unit * t[m] <= unit * t[i]
          BY <1>11, <4>2, TimesKeepsOrder
        <4>4. PICK x, y : x = t[m] /\ y = t[i]
          OBVIOUS
        <4>5. x \in Nat /\ y \in Nat
          BY <1>11, <4>2, <4>4
        <4>6. unit * x <= unit * y
          BY <4>3, <4>4
        <4>7. unit * x = x * unit /\ unit * y = y * unit /\ x * unit \in Int /\ y * unit \in Int
          BY <4>5
        <4>8. ~(x * unit <= ut) /\ y * unit <= ut
          BY <1>10, <4>4
        <4> QED  BY <4>6, <4>7, <4>8
      <3> QED  BY <1>11, <3>1
    <2> QED  BY <2>1, <2>2
  <1>13. Cardinality(K) = m - 1
    <2>1. Cardinality(1..m - 1) = m - 1
      BY <1>11, FS_Interval
    <2> QED  BY <1>12, <2>1
  <1>14. p[m] > 0
    <2>1. p[m] \in Nat /\ t[m] = t[m - 1] + p[m]
      BY <1>2, <1>3, <1>11
    <2>2. CASE p[m] = 0
      <3>1. t[m] = t[m - 1]
        BY <1>11, <2>1, <2>2
      <3>2. ~(t[m] * unit <= ut)
        BY <1>10
      <3>3. CASE m = 1
        <4>1. t[m] = 0
          BY <1>3, <3>1, <3>3
        <4>2. t[m] * unit = 0
          BY <4>1
        <4> QED  BY <3>2, <4>2
      <3>4. CASE m # 1
        <4>1. m - 1 \in 1..m - 1
          BY <1>11, <3>4
        <4>2. t[m - 1] * unit <= ut
          BY <1>12, <4>1
        <4> QED  BY <3>1, <3>2, <4>2
      <3> QED  BY <3>3, <3>4
    <2> QED  BY <2>1, <2>2
  <1>15. Weighted(p, u, unit) = m - 1
    <2>1. DOMAIN p = 1..n
      BY <1>2
    <2>2. Weighted(p, u, unit) = Cardinality({i \in DOMAIN p : t[i] * unit <= u * t[Len(p)]})
      BY <1>1 DEF Weighted
    <2>3. {i \in DOMAIN p : t[i] * unit <= u * t[Len(p)]} = K
      BY <1>2, <1>5, <1>7, <2>1
    <2> QED  BY <1>13, <2>2, <2>3
  <1>16. PICK w : w = Weighted(p, u, unit)
    OBVIOUS
  <1>17. w = m - 1 /\ w \in 0..n - 1 /\ w + 1 = m
    BY <1>11, <1>15, <1>16
  <1> QED  BY <1>2, <1>14, <1>16, <1>17

\* Of the elements of S in 1..n, those up to i.
Below(S, i) == {m \in S : m <= i}

OneUp(S, i) ==
    /\ i + 1 \notin Below(S, i)
    /\ i + 1 \in S => Below(S, i + 1) = Below(S, i) \union {i + 1}
    /\ i + 1 \notin S => Below(S, i + 1) = Below(S, i)

LEMMA BelowStep ==
  ASSUME NEW n \in Nat, NEW S, \A x \in S : x \in 1..n
  PROVE  /\ Below(S, 0) = {} /\ Below(S, n) = S
         /\ \A i \in 0..n - 1 : OneUp(S, i)
  <1>1. Below(S, 0) = {} /\ Below(S, n) = S
    <2>1. \A x \in S : ~(x <= 0) /\ x <= n
      OBVIOUS
    <2> QED  BY <2>1, Zenon DEF Below
  <1>2. ASSUME NEW i \in 0..n - 1
        PROVE  OneUp(S, i)
    <2>1. \A x \in S : x <= i + 1 <=> x <= i \/ x = i + 1
      OBVIOUS
    <2>2. ~(i + 1 <= i)
      OBVIOUS
    <2>3. PICK j : j = i + 1
      OBVIOUS
    <2>4. (\A x \in S : x <= j <=> x <= i \/ x = j) /\ ~(j <= i)
      BY <2>1, <2>2, <2>3
    <2>5. /\ j \notin Below(S, i)
          /\ j \in S => Below(S, j) = Below(S, i) \union {j}
          /\ j \notin S => Below(S, j) = Below(S, i)
      BY <2>4, Zenon DEF Below
    <2> QED  BY <2>3, <2>5 DEF OneUp
  <1> QED  BY <1>1, <1>2

LEMMA CardUpTo == ASSUME NEW n \in Nat PROVE IsFiniteSet(1..n) /\ Cardinality(1..n) = n
  BY FS_Interval

\* Of the elements of S in 1..n, some element is the k-th, for every k up to their number.
LEMMA RankReached ==
  ASSUME NEW n \in Nat, NEW S \in SUBSET (1..n), NEW k \in 1..Cardinality(S)
  PROVE  \E j \in S : Cardinality({m \in S : m <= j}) = k
  <1>0. \A x \in S : x \in 1..n
    OBVIOUS
  <1> DEFINE U(i) == Below(S, i)
             T == {i \in 0..n : \A r \in 1..Cardinality(U(i)) : \E j \in S : Cardinality(U(j)) = r}
  <1>1. \A i : IsFiniteSet(U(i)) /\ Cardinality(U(i)) \in Nat
    <2>1. IsFiniteSet(S)
      <3>1. IsFiniteSet(1..n)
        BY FS_Interval
      <3> QED  BY <3>1, FS_Subset
    <2>2. \A i : U(i) \in SUBSET S
      BY DEF Below
    <2> HIDE DEF U
    <2>3. \A i : IsFiniteSet(U(i))
      BY <2>1, <2>2, FS_Subset
    <2> QED  BY <2>3, FS_CardinalityType
  <1>2. 0 \in T
    <2>1. U(0) = {}
      BY <1>0, BelowStep
    <2>2. Cardinality(U(0)) = 0
      BY <2>1, FS_EmptySet
    <2>3. 0 \in 0..n /\ 1..0 = {}
      OBVIOUS
    <2> HIDE DEF U
    <2> QED  BY <2>2, <2>3
  <1>3. ASSUME NEW i \in 0..n - 1, i \in T
        PROVE  i + 1 \in T
    <2>5. OneUp(S, i)
      BY <1>0, BelowStep
    <2>0. /\ i + 1 \notin Below(S, i)
          /\ i + 1 \in S => Below(S, i + 1) = Below(S, i) \union {i + 1}
          /\ i + 1 \notin S => Below(S, i + 1) = Below(S, i)
      BY <2>5 DEF OneUp
    <2>1. CASE i + 1 \notin S
      <3>1. U(i + 1) = U(i)
        BY <2>0, <2>1
      <3> HIDE DEF U
      <3> QED  BY <1>3, <3>1
    <2>2. CASE i + 1 \in S
      <3>1. U(i + 1) = U(i) \union {i + 1} /\ i + 1 \notin U(i)
        BY <2>0, <2>2
      <3> HIDE DEF U
      <3>2. PICK c \in Nat : c = Cardinality(U(i))
        BY <1>1
      <3>3. Cardinality(U(i + 1)) = c + 1
        BY <1>1, <3>1, <3>2, FS_AddElement
      <3>4. ASSUME NEW r \in 1..c + 1
            PROVE  \E j \in S : Cardinality(U(j)) = r
        <4>1. CASE r = c + 1
          BY <2>2, <3>3, <4>1
        <4>2. CASE r # c + 1
          <5>1. r \in 1..c
            BY <4>2
          <5> QED  BY <1>3, <3>2, <5>1
        <4> QED  BY <4>1, <4>2
      <3> QED  BY <3>3, <3>4
    <2> QED  BY <2>1, <2>2
  <1>4. T = 0..n
    <2> HIDE DEF T
    <2>1. T \in SUBSET (0..n)
      BY DEF T
    <2> QED  BY <1>2, <1>3, <2>1, UpTo
  <1>5. U(n) = S
    BY <1>0, BelowStep
  <1>6. n \in T
    <2> HIDE DEF T
    <2> QED  BY <1>4
  <1> QED  BY <1>5, <1>6 DEF Below

\* What a weighted choice has found so far: different indices of weights above 0.
Picked(p, found) ==
    /\ found \in Seq(0..Len(p) - 1)
    /\ \A k \in 1..Len(found) : p[found[k] + 1] > 0
    /\ \A j, k \in 1..Len(found) : found[j] = found[k] => j = k

\* A weight that was not found is what it was.
LEMMA ReweightedIs ==
  ASSUME NEW p \in Seq(Nat), NEW found, Picked(p, found)
  PROVE  /\ Reweighted(p, found) \in Seq(Nat) /\ Len(Reweighted(p, found)) = Len(p)
         /\ \A i \in 1..Len(p) :
               Reweighted(p, found)[i] = IF \E k \in 1..Len(found) : found[k] = i - 1
                                         THEN 0 ELSE p[i]
  <1>1. PICK n \in Nat : n = Len(p) /\ DOMAIN p = 1..n /\ \A i \in 1..n : p[i] \in Nat
    OBVIOUS
  <1>2. DOMAIN found = 1..Len(found)
    BY DEF Picked
  <1>3. PICK q : q = [i \in 1..n |-> IF \E k \in 1..Len(found) : found[k] = i - 1
                                     THEN 0 ELSE p[i]]
    OBVIOUS
  <1>4. q \in [1..n -> Nat]
    <2>1. \A i \in 1..n : q[i] \in Nat
      BY <1>1, <1>3
    <2> QED  BY <1>3, <2>1
  <1>5. q \in Seq(Nat) /\ Len(q) = n
    BY <1>4
  <1>6. Reweighted(p, found) = q
    BY <1>1, <1>2, <1>3 DEF Reweighted
  <1> QED  BY <1>1, <1>3, <1>5, <1>6

\* A round adds indices of its own to those found, no more than it draws.
LEMMA RoundPicks ==
  ASSUME NEW p \in Seq(Nat), NEW found, Picked(p, found),
         NEW unit \in Nat \ {0}, NEW us \in Seq(0..unit - 1),
         Len(us) > 0 => \E i \in 1..Len(p) :
            p[i] > 0 /\ \A k \in 1..Len(found) : found[k] # i - 1
  PROVE  Picked(p, Round(p, found, us, unit))
  <1>1. PICK q : q = Reweighted(p, found)
    OBVIOUS
  <1>2. PICK n \in Nat : n = Len(p)
    OBVIOUS
  <1>3. /\ q \in Seq(Nat) /\ Len(q) = n
        /\ \A i \in 1..n : q[i] = IF \E k \in 1..Len(found) : found[k] = i - 1
                                  THEN 0 ELSE p[i]
    BY <1>1, <1>2, ReweightedIs
  <1>4. PICK len \in Nat : len = Len(us) /\ DOMAIN us = 1..len
    OBVIOUS
  <1>5. PICK new : new = [k \in 1..len |-> Weighted(q, us[k], unit)]
    OBVIOUS
  <1>6. ASSUME NEW k \in 1..len
        PROVE  /\ new[k] \in 0..n - 1 /\ p[new[k] + 1] > 0
               /\ \A j \in 1..Len(found) : found[j] # new[k]
    <2>1. PICK i \in 1..n : p[i] > 0 /\ \A j \in 1..Len(found) : found[j] # i - 1
      BY <1>2, <1>4
    <2>2. q[i] > 0 /\ i \in 1..Len(q)
      BY <1>3, <2>1
    <2>3. PICK u \in 0..unit - 1 : u = us[k]
      BY <1>4
    <2>4. PICK w : w = Weighted(q, u, unit)
      OBVIOUS
    <2>5. w \in 0..n - 1 /\ q[w + 1] > 0
      BY <1>3, <2>2, <2>4, WeightedIs
    <2>6. w + 1 \in 1..n /\ (w + 1) - 1 = w
      BY <2>5
    <2>7. q[w + 1] # 0
      BY <1>3, <2>5, <2>6
    <2>8. (\A j \in 1..Len(found) : found[j] # w) /\ q[w + 1] = p[w + 1]
      BY <1>3, <2>6, <2>7
    <2>9. new[k] = w
      BY <1>5, <2>3, <2>4
    <2> QED  BY <2>5, <2>8, <2>9
  <1>7. PICK firsts : firsts = {k \in 1..len : \A m \in 1..k - 1 : new[m] # new[k]}
    OBVIOUS
  <1>8. firsts \in SUBSET (1..len)
    BY <1>7
  <1>9. ASSUME NEW j \in firsts, NEW k \in firsts, new[j] = new[k]
        PROVE  j = k
    <2>1. j \in 1..len /\ k \in 1..len
      BY <1>8
    <2>2. ~(j < k)
      <3>1. CASE j < k
        <4>1. j \in 1..k - 1
          BY <2>1, <3>1
        <4> QED  BY <1>7, <1>9, <4>1
      <3> QED  BY <3>1
    <2>3. ~(k < j)
      <3>1. CASE k < j
        <4>1. k \in 1..j - 1
          BY <2>1, <3>1
        <4> QED  BY <1>7, <1>9, <4>1
      <3> QED  BY <3>1
    <2> QED  BY <2>1, <2>2, <2>3
  <1>10. PICK c \in Nat : c = Cardinality(firsts)
    <2>1. IsFiniteSet(1..len)
      BY FS_Interval
    <2>2. IsFiniteSet(firsts)
      BY <1>8, <2>1, FS_Subset
    <2> QED  BY <2>2, FS_CardinalityType
  <1> DEFINE Rank(k) == Cardinality({m \in firsts : m <= k})
  <1>11. PICK pick : pick = [r \in 1..c |-> CHOOSE k \in firsts : Rank(k) = r]
    OBVIOUS
  <1>12. ASSUME NEW r \in 1..c
         PROVE  pick[r] \in firsts /\ Rank(pick[r]) = r
    <2>1. \E k \in firsts : Rank(k) = r
      BY <1>8, <1>10, RankReached
    <2> HIDE DEF Rank
    <2> QED  BY <1>11, <2>1
  <1>13. PICK g : g = [r \in 1..c |-> new[pick[r]]]
    OBVIOUS
  <1>14. Round(p, found, us, unit) = found \o g
    <2>1. new = [k \in DOMAIN us |-> Weighted(Reweighted(p, found), us[k], unit)]
      BY <1>1, <1>4, <1>5
    <2>2. firsts = {k \in DOMAIN new : \A m \in 1..k - 1 : new[m] # new[k]}
      BY <1>5, <1>7
    <2>3. g = [r \in 1..Cardinality(firsts) |->
                 new[CHOOSE k \in firsts : Cardinality({m \in firsts : m <= k}) = r]]
      BY <1>10, <1>11, <1>13
    <2> QED  BY <2>1, <2>2, <2>3 DEF Round
  <1>15. PICK f \in Nat : f = Len(found)
    BY DEF Picked
  <1>16. /\ g \in Seq(0..n - 1) /\ Len(g) = c
         /\ \A r \in 1..c : /\ p[g[r] + 1] > 0
                            /\ \A j \in 1..f : found[j] # g[r]
         /\ \A r, s \in 1..c : g[r] = g[s] => r = s
    <2> HIDE DEF Rank
    <2>1. ASSUME NEW r \in 1..c
          PROVE  g[r] \in 0..n - 1 /\ p[g[r] + 1] > 0 /\ \A j \in 1..f : found[j] # g[r]
      <3>1. PICK k \in 1..len : k = pick[r]
        BY <1>8, <1>12
      <3>2. g[r] = new[k]
        BY <1>13, <3>1
      <3> QED  BY <1>6, <1>15, <3>2
    <2>2. ASSUME NEW r \in 1..c, NEW s \in 1..c, g[r] = g[s]
          PROVE  r = s
      <3>1. new[pick[r]] = new[pick[s]]
        BY <1>13, <2>2
      <3>2. pick[r] = pick[s]
        BY <1>9, <1>12, <3>1
      <3> QED  BY <1>12, <3>2
    <2>3. g \in [1..c -> 0..n - 1]
      BY <1>13, <2>1
    <2>4. g \in Seq(0..n - 1) /\ Len(g) = c
      BY <2>3
    <2> QED  BY <2>1, <2>2, <2>4
  <1>17. /\ found \in Seq(0..n - 1)
         /\ \A k \in 1..f : p[found[k] + 1] > 0
         /\ \A j, k \in 1..f : found[j] = found[k] => j = k
    BY <1>2, <1>15 DEF Picked
  <1>18. PICK h : h = found \o g
    OBVIOUS
  <1>19. /\ h \in Seq(0..n - 1) /\ Len(h) = f + c
         /\ \A k \in 1..f + c : h[k] = IF k <= f THEN found[k] ELSE g[k - f]
    <2>1. h \in Seq(0..n - 1)
      BY <1>16, <1>17, <1>18
    <2>2. Len(h) = f + c
      <3>1. PICK V : V = 0..n - 1
        OBVIOUS
      <3>2. found \in Seq(V) /\ g \in Seq(V)
        BY <1>16, <1>17, <3>1
      <3>3. Len(found \o g) = Len(found) + Len(g)
        BY <3>2, ConcatProperties
      <3> QED  BY <1>15, <1>16, <1>18, <3>3
    <2>3. \A k \in 1..f + c : h[k] = IF k <= f THEN found[k] ELSE g[k - f]
      BY <1>15, <1>16, <1>17, <1>18
    <2> QED  BY <2>1, <2>2, <2>3
  <1>20. \A k \in 1..f + c : k <= f \/ k - f \in 1..c
    BY <1>15
  <1>21. ASSUME NEW k \in 1..f + c  PROVE p[h[k] + 1] > 0
    <2>1. CASE k <= f
      <3>1. k \in 1..f /\ h[k] = found[k]
        BY <1>19, <2>1
      <3> QED  BY <1>17, <3>1
    <2>2. CASE ~(k <= f)
      <3>1. k - f \in 1..c /\ h[k] = g[k - f]
        BY <1>19, <2>2
      <3> QED  BY <1>16, <3>1
    <2> QED  BY <2>1, <2>2
  <1>22. ASSUME NEW j \in 1..f + c, NEW k \in 1..f + c, h[j] = h[k]
         PROVE  j = k
    <2>1. CASE j <= f /\ k <= f
      <3>1. j \in 1..f /\ k \in 1..f /\ h[j] = found[j] /\ h[k] = found[k]
        BY <1>19, <2>1
      <3> QED  BY <1>17, <1>22, <3>1
    <2>2. CASE ~(j <= f) /\ ~(k <= f)
      <3>1. PICK r, s : r = j - f /\ s = k - f
        OBVIOUS
      <3>2. r \in 1..c /\ s \in 1..c /\ h[j] = g[r] /\ h[k] = g[s]
        BY <1>19, <2>2, <3>1
      <3>3. r = s
        BY <1>16, <1>22, <3>2
      <3> QED  BY <3>1, <3>3
    <2>3. CASE j <= f /\ ~(k <= f)
      <3>1. j \in 1..f /\ k - f \in 1..c /\ h[j] = found[j] /\ h[k] = g[k - f]
        BY <1>19, <2>3
      <3> QED  BY <1>16, <1>22, <3>1
    <2>4. CASE ~(j <= f) /\ k <= f
      <3>1. k \in 1..f /\ j - f \in 1..c /\ h[k] = found[k] /\ h[j] = g[j - f]
        BY <1>19, <2>4
      <3> QED  BY <1>16, <1>22, <3>1
    <2> QED  BY <2>1, <2>2, <2>3, <2>4
  <1>23. Picked(p, h)
    <2>1. h \in Seq(0..Len(p) - 1) /\ Len(h) = f + c
      BY <1>2, <1>19
    <2> QED  BY <1>21, <1>22, <2>1 DEF Picked
  <1> QED  BY <1>14, <1>18, <1>23

\* There are as many weights above 0.
Enough(p, size) == Cardinality({i \in DOMAIN p : p[i] > 0}) >= size

\* While fewer were found than there are weights above 0, one of them was not.
LEMMA SomeLeft ==
  ASSUME NEW p \in Seq(Nat), NEW found, Picked(p, found), NEW size \in Nat,
         Enough(p, size), Len(found) < size
  PROVE  \E i \in 1..Len(p) : p[i] > 0 /\ \A k \in 1..Len(found) : found[k] # i - 1
  <1>1. PICK f \in Nat : f = Len(found)
    BY DEF Picked
  <1>2. PICK n \in Nat : n = Len(p) /\ DOMAIN p = 1..n
    OBVIOUS
  <1>3. PICK pos : pos = {i \in 1..n : p[i] > 0}
    OBVIOUS
  <1>4. IsFiniteSet(pos) /\ Cardinality(pos) \in Nat
    <2>1. IsFiniteSet(1..n)
      BY FS_Interval
    <2>2. IsFiniteSet(pos)
      BY <1>3, <2>1, FS_Subset
    <2> QED  BY <2>2, FS_CardinalityType
  <1>5. Cardinality(pos) >= size
    BY <1>2, <1>3 DEF Enough
  <1>6. PICK img : img = {found[k] + 1 : k \in 1..f}
    OBVIOUS
  <1>7. IsFiniteSet(img) /\ Cardinality(img) <= f
    <2>1. IsFiniteSet(1..f) /\ Cardinality(1..f) = f
      BY CardUpTo
    <2>2. PICK g : g = [k \in 1..f |-> found[k] + 1]
      OBVIOUS
    <2>3. g \in Surjection(1..f, img)
      <3>1. g \in [1..f -> img]
        BY <1>6, <2>2
      <3>2. \A y \in img : \E k \in 1..f : g[k] = y
        BY <1>6, <2>2
      <3> QED  BY <3>1, <3>2 DEF Surjection
    <2> QED  BY <2>1, <2>3, FS_Surjection
  <1>8. Cardinality(img) \in Nat
    BY <1>7, FS_CardinalityType
  <1>9. ~(pos \subseteq img)
    <2>1. CASE pos \subseteq img
      <3>1. Cardinality(pos) <= Cardinality(img)
        BY <1>7, <2>1, FS_Subset
      <3> QED  BY <1>1, <1>4, <1>5, <1>7, <1>8, <3>1
    <2> QED  BY <2>1
  <1>10. PICK i \in pos : i \notin img
    BY <1>9
  <1>11. i \in 1..n /\ p[i] > 0
    BY <1>3, <1>10
  <1>12. ASSUME NEW k \in 1..f  PROVE found[k] # i - 1
    <2>1. found[k] + 1 # i
      BY <1>6, <1>10
    <2>2. found[k] \in Int
      BY <1>1 DEF Picked
    <2> QED  BY <1>11, <2>1, <2>2
  <1> QED  BY <1>1, <1>2, <1>11, <1>12

RoundStep(was, p, size) ==
    [s |-> Draws(Times(size - Len(was.found), Raw(Word)), was.s).s,
     found |-> Round(p, was.found,
                     Uniforms(Draws(Times(size - Len(was.found), Raw(Word)), was.s).out), Unit)]

LEMMA RoundsChain ==
  ASSUME NEW p, NEW size, NEW s
  PROVE  \E d : /\ d[0] = [s |-> s, found |-> <<>>]
                /\ \A k \in 1..Tries : d[k] = RoundStep(d[k - 1], p, size)
                /\ Rounds(p, size, s) = d[Tries]
  <1> DEFINE Step(f, m) == \A k \in 0..m : f[k] = IF k = 0 THEN [s |-> s, found |-> <<>>] ELSE RoundStep(f[k - 1], p, size)
             T == {m \in 0..Tries : \E f : Step(f, m)}
  <1>0. Tries \in Nat
    BY BitGenAssumption
  <1>1. 0 \in T
    <2>1. \E f : Step(f, 0)
      <3>1. Step([k \in 0..0 |-> [s |-> s, found |-> <<>>]], 0)
        OBVIOUS
      <3> QED  BY <3>1
    <2> QED  BY <1>0, <2>1
  <1>2. ASSUME NEW m \in 0..Tries - 1, m \in T
        PROVE  m + 1 \in T
    <2>1. PICK f : Step(f, m)
      BY <1>2
    <2>2. PICK e : e = [k \in 0..m + 1 |-> IF k = m + 1 THEN RoundStep(f[m], p, size) ELSE f[k]]
      OBVIOUS
    <2>3. m \in Nat /\ m + 1 \in 0..Tries
      BY <1>0
    <2>4. Step(e, m + 1)
      <3> TAKE k \in 0..m + 1
      <3>1. CASE k = m + 1
        <4>1. m \in 0..m + 1 /\ m # m + 1 /\ k # 0 /\ k - 1 = m
          BY <2>3, <3>1
        <4> QED  BY <2>2, <3>1, <4>1
      <3>2. CASE k = 0
        BY <2>1, <2>2, <2>3, <3>2
      <3>3. CASE k # m + 1 /\ k # 0
        <4>1. k \in 0..m /\ k - 1 \in 0..m + 1 /\ k - 1 # m + 1
          BY <2>3, <3>3
        <4> QED  BY <2>1, <2>2, <3>3, <4>1
      <3> QED  BY <3>1, <3>2, <3>3
    <2> QED  BY <2>3, <2>4
  <1>3. T = 0..Tries
    <2> HIDE DEF T
    <2>1. T \in SUBSET (0..Tries)
      BY DEF T
    <2> QED  BY <1>0, <1>1, <1>2, <2>1, UpTo
  <1>4. Tries \in T
    <2> HIDE DEF T
    <2> QED  BY <1>0, <1>3
  <1>5. PICK f : Step(f, Tries)
    BY <1>4
  <1>6. PICK e : e = [k \in 0..Tries |-> f[k]]
    OBVIOUS
  <1>7. e = [k \in 0..Tries |-> IF k = 0 THEN [s |-> s, found |-> <<>>] ELSE RoundStep(e[k - 1], p, size)]
    <2>1. ASSUME NEW k \in 0..Tries
          PROVE  e[k] = IF k = 0 THEN [s |-> s, found |-> <<>>] ELSE RoundStep(e[k - 1], p, size)
      <3>1. CASE k = 0
        BY <1>5, <1>6, <3>1
      <3>2. CASE k # 0
        <4>1. k - 1 \in 0..Tries
          BY <1>0, <3>2
        <4> QED  BY <1>5, <1>6, <3>2, <4>1
      <3> QED  BY <3>1, <3>2
    <2> QED  BY <1>6, <2>1
  <1>8. PICK d : d = CHOOSE g : g = [k \in 0..Tries |-> IF k = 0 THEN [s |-> s, found |-> <<>>] ELSE RoundStep(g[k - 1], p, size)]
    OBVIOUS
  <1>9. d = [k \in 0..Tries |-> IF k = 0 THEN [s |-> s, found |-> <<>>] ELSE RoundStep(d[k - 1], p, size)]
    BY <1>7, <1>8
  <1>10. d[0] = [s |-> s, found |-> <<>>] /\ \A k \in 1..Tries : d[k] = RoundStep(d[k - 1], p, size)
    <2>1. d[0] = [s |-> s, found |-> <<>>]
      BY <1>0, <1>9
    <2>2. ASSUME NEW k \in 1..Tries  PROVE d[k] = RoundStep(d[k - 1], p, size)
      <3>1. k \in 0..Tries /\ k # 0
        BY <1>0
      <3> QED  BY <1>9, <3>1
    <2> QED  BY <2>1, <2>2
  <1>11. Rounds(p, size, s) = d[Tries]
    BY <1>8 DEF Rounds, RoundStep
  <1> QED  BY <1>10, <1>11

LEMMA RawAsks ==
  ASSUME NEW n \in Int, NEW w
  PROVE  /\ Len(Times(n, Raw(w))) \in Nat
         /\ \A k \in 1..Len(Times(n, Raw(w))) :
              Times(n, Raw(w))[k].ask \in {"raw", "bounded", "interval"}
  <1>1. Raw(w).ask = "raw"
    BY DEF Raw
  <1>2. PICK q : q = Raw(w)
    OBVIOUS
  <1>3. /\ Len(Times(n, q)) = IF n > 0 THEN n ELSE 0
        /\ \A k \in 1..Len(Times(n, q)) : Times(n, q)[k] = q
    BY TimesAll
  <1> QED  BY <1>1, <1>2, <1>3

LEMMA RoundsFaithful ==
  ASSUME NEW p, NEW size \in Nat, NEW s, Faithful(s)
  PROVE  Faithful(Rounds(p, size, s).s)
  <1>1. PICK d : /\ d[0] = [s |-> s, found |-> <<>>]
                 /\ \A k \in 1..Tries : d[k] = RoundStep(d[k - 1], p, size)
                 /\ Rounds(p, size, s) = d[Tries]
    BY RoundsChain
  <1> DEFINE F == {k \in 0..Tries : Faithful(d[k].s) /\ \E V : d[k].found \in Seq(V)}
  <1>2. Tries \in Nat
    BY BitGenAssumption
  <1>3. 0 \in F
    <2>1. d[0].s = s /\ d[0].found = <<>>
      BY <1>1
    <2>2. <<>> \in Seq({})
      OBVIOUS
    <2>3. \E V : d[0].found \in Seq(V)
      BY <2>1, <2>2
    <2>4. Faithful(d[0].s)
      BY <2>1
    <2>5. 0 \in 0..Tries
      BY <1>2
    <2> QED  BY <2>3, <2>4, <2>5
  <1>4. ASSUME NEW k \in 0..Tries - 1, k \in F  PROVE k + 1 \in F
    <2>1. k + 1 \in 0..Tries /\ k + 1 \in 1..Tries /\ (k + 1) - 1 = k
      BY <1>2
    <2>2. PICK was : was = d[k]
      OBVIOUS
    <2>3. Faithful(was.s)
      BY <1>4, <2>2
    <2>4. PICK V : was.found \in Seq(V)
      BY <1>4, <2>2
    <2>5. PICK need \in Int : need = size - Len(was.found)
      <3>1. Len(was.found) \in Nat
        BY <2>4
      <3>2. size - Len(was.found) \in Int
        BY <3>1
      <3> QED  BY <3>2
    <2>6. PICK asks : asks = Times(need, Raw(Word))
      OBVIOUS
    <2>7. Len(asks) \in Nat
          /\ \A i \in 1..Len(asks) : asks[i].ask \in {"raw", "bounded", "interval"}
      BY <2>6, RawAsks
    <2>8. PICK b : b = Draws(asks, was.s)
      OBVIOUS
    <2>9. Faithful(b.s) /\ \E W : b.out \in Seq(W)
      BY <2>3, <2>7, <2>8, DrawsFaithful
    <2>10. PICK us : us = Uniforms(b.out)
      OBVIOUS
    <2>11. PICK W : us \in Seq(W)
      <3>1. PICK n \in Nat : DOMAIN b.out = 1..n
        BY <2>9
      <3>2. DOMAIN us = 1..n /\ us = [i \in 1..n |-> us[i]]
        BY <2>10, <3>1 DEF Uniforms
      <3>3. us \in [1..n -> {us[i] : i \in 1..n}]
        BY <3>2
      <3>4. us \in Seq({us[i] : i \in 1..n})
        BY <3>3
      <3> QED  BY <3>4
    <2>12. PICK found : found = Round(p, was.found, us, Unit)
      OBVIOUS
    <2>13. \E S : found \in Seq(S)
      BY <2>4, <2>11, <2>12, RoundIsSeq
    <2>14. d[k + 1] = RoundStep(was, p, size)
      BY <1>1, <2>1, <2>2
    <2>15. d[k + 1] = [s |-> b.s, found |-> found]
      BY <2>5, <2>6, <2>8, <2>10, <2>12, <2>14 DEF RoundStep
    <2>16. d[k + 1].s = b.s /\ d[k + 1].found = found
      BY <2>15
    <2>17. Faithful(d[k + 1].s)
      BY <2>9, <2>16
    <2>18. \E S : d[k + 1].found \in Seq(S)
      BY <2>13, <2>16
    <2> QED  BY <2>1, <2>17, <2>18
  <1>5. F = 0..Tries
    <2> HIDE DEF F
    <2>1. F \in SUBSET (0..Tries)
      BY DEF F
    <2> QED  BY <1>2, <1>3, <1>4, <2>1, UpTo
  <1>6. Faithful(d[Tries].s)
    BY <1>2, <1>5
  <1> QED  BY <1>1, <1>6

\* Words drawn one after another.
LEMMA WordsDrawn ==
  ASSUME NEW n \in Int, NEW s, Faithful(s)
  PROVE  /\ Faithful(Draws(Times(n, Raw(Word)), s).s)
         /\ Draws(Times(n, Raw(Word)), s).out \in Seq(Values)
         /\ Len(Draws(Times(n, Raw(Word)), s).out) = IF n > 0 THEN n ELSE 0
  <1>1. PICK q : q = Raw(Word)
    OBVIOUS
  <1>2. PICK asks : asks = Times(n, q)
    OBVIOUS
  <1>3. PICK m \in Nat : m = IF n > 0 THEN n ELSE 0
    OBVIOUS
  <1>4. Len(asks) = m /\ \A k \in 1..m : asks[k] = q
    BY <1>2, <1>3, TimesAll
  <1>5. PICK d : /\ d[0] = [s |-> s, out |-> <<>>]
                 /\ \A k \in 1..m : d[k] = DrawOne(d[k - 1], asks[k])
                 /\ Draws(asks, s) = d[m]
    BY <1>4, DrawsChain
  <1> DEFINE F == {k \in 0..m : /\ Faithful(d[k].s)
                                /\ d[k].out \in Seq(Values) /\ Len(d[k].out) = k}
  <1>6. 0 \in F
    <2>1. d[0].s = s /\ d[0].out = <<>>
      BY <1>5
    <2>2. d[0].out \in Seq(Values) /\ Len(d[0].out) = 0
      BY <2>1
    <2>3. Faithful(d[0].s)
      BY <2>1
    <2> QED  BY <2>2, <2>3
  <1>7. ASSUME NEW k \in 0..m - 1, k \in F
        PROVE  k + 1 \in F
    <2>1. k + 1 \in 1..m /\ (k + 1) - 1 = k /\ k + 1 \in 0..m
      OBVIOUS
    <2>2. PICK was, e : was = d[k] /\ e = d[k + 1]
      OBVIOUS
    <2>3. /\ Faithful(was.s) /\ was.out \in Seq(Values) /\ Len(was.out) = k
      BY <1>7, <2>2
    <2>4. PICK t : t = Answer(q, was.s)
      OBVIOUS
    <2>5. q.ask = "raw" /\ q.w = Word
      BY <1>1 DEF Raw
    <2>6. t = Draw(Word, was.s)
      BY <2>4, <2>5 DEF Answer
    <2>7. Faithful(t) /\ t.val \in Values
      BY <2>3, <2>6, DrawFaithful, WordDrawn
    <2>8. e.s = t /\ e.out = Append(was.out, t.val)
      <3>1. e = DrawOne(was, q)
        BY <1>4, <1>5, <2>1, <2>2
      <3> QED  BY <2>4, <3>1 DEF DrawOne
    <2>9. e.out \in Seq(Values) /\ Len(e.out) = k + 1
      BY <2>3, <2>7, <2>8
    <2>10. Faithful(e.s)
      BY <2>7, <2>8
    <2> QED  BY <2>1, <2>2, <2>9, <2>10
  <1>8. F = 0..m
    <2> HIDE DEF F
    <2>1. F \in SUBSET (0..m)
      BY DEF F
    <2> QED  BY <1>6, <1>7, <2>1, UpTo
  <1>9. Faithful(d[m].s) /\ d[m].out \in Seq(Values) /\ Len(d[m].out) = m
    BY <1>8
  <1> QED  BY <1>1, <1>2, <1>3, <1>5, <1>9

LEMMA UniformsBelow ==
  ASSUME NEW out \in Seq(Values)
  PROVE  Uniforms(out) \in Seq(0..Unit - 1) /\ Len(Uniforms(out)) = Len(out)
  <1>1. PICK n \in Nat : n = Len(out) /\ DOMAIN out = 1..n
    OBVIOUS
  <1>2. PICK us : us = [k \in 1..n |-> out[k] \div 2^Drop]
    OBVIOUS
  <1>3. ASSUME NEW k \in 1..n  PROVE us[k] \in 0..Unit - 1
    <2>1. PICK x \in Values : x = out[k]
      BY <1>1
    <2> QED  BY <1>2, <2>1, UniformBelow
  <1>4. us \in [1..n -> 0..Unit - 1]
    BY <1>2, <1>3
  <1>5. us \in Seq(0..Unit - 1) /\ Len(us) = n
    <2>1. PICK U : U = 0..Unit - 1
      OBVIOUS
    <2>2. us \in [1..n -> U]
      BY <1>4, <2>1
    <2>3. us \in Seq(U) /\ Len(us) = n
      BY <2>2
    <2> QED  BY <2>1, <2>3
  <1> QED  BY <1>1, <1>2, <1>5 DEF Uniforms

LEMMA UnitType == Unit \in Nat \ {0}
  <1>1. Word - Drop \in 0..Word
    BY BitGenAssumption, GeneratorAssumption DEF Word
  <1> QED  BY <1>1, PowerType DEF Unit

\* The rounds find different indices of weights above 0.
LEMMA RoundsPick ==
  ASSUME NEW p \in Seq(Nat), NEW size \in Nat, NEW s, Faithful(s),
         Enough(p, size)
  PROVE  Picked(p, Rounds(p, size, s).found)
  <1>0. PICK w : w = p
    OBVIOUS
  <1>1. PICK d : /\ d[0] = [s |-> s, found |-> <<>>]
                 /\ \A k \in 1..Tries : d[k] = RoundStep(d[k - 1], w, size)
                 /\ Rounds(w, size, s) = d[Tries]
    BY RoundsChain
  <1> DEFINE F == {k \in 0..Tries : Faithful(d[k].s) /\ Picked(p, d[k].found)}
  <1>2. Tries \in Nat
    BY BitGenAssumption
  <1>3. 0 \in F
    <2>1. d[0].s = s /\ d[0].found = <<>>
      BY <1>1
    <2>2. Picked(p, <<>>)
      BY DEF Picked
    <2>3. Faithful(d[0].s) /\ Picked(p, d[0].found)
      BY <2>1, <2>2
    <2> QED  BY <1>2, <2>3
  <1>4. ASSUME NEW k \in 0..Tries - 1, k \in F
        PROVE  k + 1 \in F
    <2>1. k + 1 \in 0..Tries /\ k + 1 \in 1..Tries /\ (k + 1) - 1 = k
      BY <1>2
    <2>2. PICK was : was = d[k]
      OBVIOUS
    <2>3. Faithful(was.s) /\ Picked(p, was.found)
      BY <1>4, <2>2
    <2>4. PICK found : found = was.found
      OBVIOUS
    <2>5. Len(found) \in Nat
      BY <2>3, <2>4 DEF Picked
    <2>6. PICK need \in Int : need = size - Len(found)
      BY <2>5
    <2>7. PICK b : b = Draws(Times(need, Raw(Word)), was.s)
      OBVIOUS
    <2>8. /\ Faithful(b.s) /\ b.out \in Seq(Values)
          /\ Len(b.out) = IF need > 0 THEN need ELSE 0
      BY <2>3, <2>7, WordsDrawn
    <2>9. PICK us : us = Uniforms(b.out)
      OBVIOUS
    <2>10. us \in Seq(0..Unit - 1) /\ Len(us) = Len(b.out)
      BY <2>8, <2>9, UniformsBelow
    <2>11. ASSUME Len(us) > 0
           PROVE  \E i \in 1..Len(p) : p[i] > 0 /\ \A j \in 1..Len(found) : found[j] # i - 1
      <3>1. Len(found) < size
        BY <2>5, <2>6, <2>8, <2>10, <2>11
      <3> QED  BY <2>3, <2>4, <3>1, SomeLeft
    <2>12. Picked(p, Round(p, found, us, Unit))
      BY <2>3, <2>4, <2>10, <2>11, UnitType, RoundPicks
    <2>13. d[k + 1] = RoundStep(was, p, size)
      BY <1>0, <1>1, <2>1, <2>2
    <2>14. d[k + 1] = [s |-> b.s, found |-> Round(p, found, us, Unit)]
      BY <1>0, <2>4, <2>6, <2>7, <2>9, <2>13 DEF RoundStep
    <2>15. d[k + 1].s = b.s /\ d[k + 1].found = Round(p, found, us, Unit)
      BY <2>14
    <2>16. Faithful(d[k + 1].s) /\ Picked(p, d[k + 1].found)
      BY <2>8, <2>12, <2>15
    <2> QED  BY <2>1, <2>16
  <1>5. F = 0..Tries
    <2> HIDE DEF F
    <2>1. F \in SUBSET (0..Tries)
      BY DEF F
    <2> QED  BY <1>2, <1>3, <1>4, <2>1, UpTo
  <1>6. Picked(p, d[Tries].found)
    BY <1>2, <1>5
  <1> QED  BY <1>0, <1>1, <1>6

\* What was picked is as many different indices as it is long.
LEMMA PickedIsDistinct ==
  ASSUME NEW p \in Seq(Nat), NEW found, Picked(p, found)
  PROVE  /\ Cardinality(Range(found)) = Len(found)
         /\ \A k \in DOMAIN found : p[found[k] + 1] > 0
  <1>1. PICK f \in Nat : f = Len(found)
    BY DEF Picked
  <1>2. DOMAIN found = 1..f /\ found = [k \in 1..f |-> found[k]]
    BY <1>1 DEF Picked
  <1>3. PICK S : S = {found[k] : k \in 1..f}
    OBVIOUS
  <1>4. Range(found) = S
    BY <1>2, <1>3 DEF Range
  <1>5. found \in Bijection(1..f, S)
    <2>1. found \in [1..f -> S]
      BY <1>2, <1>3
    <2>2. \A y \in S : \E k \in 1..f : found[k] = y
      BY <1>3
    <2>3. \A j, k \in 1..f : found[j] = found[k] => j = k
      BY <1>1 DEF Picked
    <2> QED  BY <2>1, <2>2, <2>3 DEF Bijection, Injection, Surjection, IsInjective
  <1>6. IsFiniteSet(1..f) /\ Cardinality(1..f) = f
    BY CardUpTo
  <1>7. Cardinality(S) = f
    BY <1>5, <1>6, FS_Bijection DEF ExistsBijection
  <1>8. \A k \in 1..f : p[found[k] + 1] > 0
    BY <1>1 DEF Picked
  <1> QED  BY <1>1, <1>2, <1>4, <1>7, <1>8

----------------------------------------------------------------------------
(* The colors of an urn.                                                      *)

MarginStep(was, c, j) ==
    IF was.todo <= 0 \/ was.s.val = NoValue THEN was
    ELSE [s |-> hypergeometric(c[j], SumOf(c, j + 1), was.todo, was.s),
          taken |-> Append(was.taken, hypergeometric(c[j], SumOf(c, j + 1), was.todo, was.s).val),
          todo |-> was.todo - hypergeometric(c[j], SumOf(c, j + 1), was.todo, was.s).val]

\* The states of the loop over the colors.
MarginRun(d, m, c, todo, s) ==
    /\ d[0] = [s |-> s, taken |-> <<>>, todo |-> todo]
    /\ \A k \in 1..m : d[k] = MarginStep(d[k - 1], c, k)
    /\ Marginals(c, todo, s) = d[m]

LEMMA MarginalsChain ==
  ASSUME NEW c, Len(c) \in Nat, Len(c) # 0, NEW todo, NEW s
  PROVE  \E d : MarginRun(d, Len(c) - 1, c, todo, s)
  <1> DEFINE Step(f, m) == \A k \in 0..m : f[k] = IF k = 0 THEN [s |-> s, taken |-> <<>>, todo |-> todo] ELSE MarginStep(f[k - 1], c, k)
             T == {m \in 0..(Len(c) - 1) : \E f : Step(f, m)}
  <1>0. (Len(c) - 1) \in Nat
    OBVIOUS
  <1>1. 0 \in T
    <2>1. \E f : Step(f, 0)
      <3>1. Step([k \in 0..0 |-> [s |-> s, taken |-> <<>>, todo |-> todo]], 0)
        OBVIOUS
      <3> QED  BY <3>1
    <2> QED  BY <1>0, <2>1
  <1>2. ASSUME NEW m \in 0..(Len(c) - 1) - 1, m \in T
        PROVE  m + 1 \in T
    <2>1. PICK f : Step(f, m)
      BY <1>2
    <2>2. PICK e : e = [k \in 0..m + 1 |-> IF k = m + 1 THEN MarginStep(f[m], c, m + 1) ELSE f[k]]
      OBVIOUS
    <2>3. m \in Nat /\ m + 1 \in 0..(Len(c) - 1)
      BY <1>0
    <2>4. Step(e, m + 1)
      <3> TAKE k \in 0..m + 1
      <3>1. CASE k = m + 1
        <4>1. m \in 0..m + 1 /\ m # m + 1 /\ k # 0 /\ k - 1 = m
          BY <2>3, <3>1
        <4> QED  BY <2>2, <3>1, <4>1
      <3>2. CASE k = 0
        BY <2>1, <2>2, <2>3, <3>2
      <3>3. CASE k # m + 1 /\ k # 0
        <4>1. k \in 0..m /\ k - 1 \in 0..m + 1 /\ k - 1 # m + 1
          BY <2>3, <3>3
        <4> QED  BY <2>1, <2>2, <3>3, <4>1
      <3> QED  BY <3>1, <3>2, <3>3
    <2> QED  BY <2>3, <2>4
  <1>3. T = 0..(Len(c) - 1)
    <2> HIDE DEF T
    <2>1. T \in SUBSET (0..(Len(c) - 1))
      BY DEF T
    <2> QED  BY <1>0, <1>1, <1>2, <2>1, UpTo
  <1>4. (Len(c) - 1) \in T
    <2> HIDE DEF T
    <2> QED  BY <1>0, <1>3
  <1>5. PICK f : Step(f, (Len(c) - 1))
    BY <1>4
  <1>6. PICK e : e = [k \in 0..(Len(c) - 1) |-> f[k]]
    OBVIOUS
  <1>7. e = [k \in 0..(Len(c) - 1) |-> IF k = 0 THEN [s |-> s, taken |-> <<>>, todo |-> todo] ELSE MarginStep(e[k - 1], c, k)]
    <2>1. ASSUME NEW k \in 0..(Len(c) - 1)
          PROVE  e[k] = IF k = 0 THEN [s |-> s, taken |-> <<>>, todo |-> todo] ELSE MarginStep(e[k - 1], c, k)
      <3>1. CASE k = 0
        BY <1>5, <1>6, <3>1
      <3>2. CASE k # 0
        <4>1. k - 1 \in 0..(Len(c) - 1)
          BY <1>0, <3>2
        <4> QED  BY <1>5, <1>6, <3>2, <4>1
      <3> QED  BY <3>1, <3>2
    <2> QED  BY <1>6, <2>1
  <1>8. PICK d : d = CHOOSE g : g = [k \in 0..(Len(c) - 1) |-> IF k = 0 THEN [s |-> s, taken |-> <<>>, todo |-> todo] ELSE MarginStep(g[k - 1], c, k)]
    OBVIOUS
  <1>9. d = [k \in 0..(Len(c) - 1) |-> IF k = 0 THEN [s |-> s, taken |-> <<>>, todo |-> todo] ELSE MarginStep(d[k - 1], c, k)]
    BY <1>7, <1>8
  <1>10. d[0] = [s |-> s, taken |-> <<>>, todo |-> todo] /\ \A k \in 1..(Len(c) - 1) : d[k] = MarginStep(d[k - 1], c, k)
    <2>1. d[0] = [s |-> s, taken |-> <<>>, todo |-> todo]
      BY <1>0, <1>9
    <2>2. ASSUME NEW k \in 1..(Len(c) - 1)  PROVE d[k] = MarginStep(d[k - 1], c, k)
      <3>1. k \in 0..(Len(c) - 1) /\ k # 0
        BY <1>0
      <3> QED  BY <1>9, <3>1
    <2> QED  BY <2>1, <2>2
  <1>11. Marginals(c, todo, s) = d[Len(c) - 1]
    BY <1>8 DEF Marginals, MarginStep
  <1>12. MarginRun(d, Len(c) - 1, c, todo, s)
    BY <1>10, <1>11 DEF MarginRun
  <1> QED  BY <1>12

\* Every state of a run of a loop is one of a faithful stream.
AllFaithful(d, m) == \A k \in 0..m : Faithful(d[k].s)

LEMMA MarginalsFaithful ==
  ASSUME NEW c \in Seq(Nat), c # <<>>, NEW todo, NEW s, Faithful(s)
  PROVE  /\ Faithful(Marginals(c, todo, s).s)
         /\ \E d : MarginRun(d, Len(c) - 1, c, todo, s) /\ AllFaithful(d, Len(c) - 1)
  <1>1. PICK m \in Nat : m = Len(c) - 1
    OBVIOUS
  <1>0. PICK d : MarginRun(d, m, c, todo, s)
    <2>1. Len(c) \in Nat /\ Len(c) # 0
      OBVIOUS
    <2> QED  BY <1>1, <2>1, MarginalsChain
  <1>2. /\ d[0] = [s |-> s, taken |-> <<>>, todo |-> todo]
        /\ \A k \in 1..m : d[k] = MarginStep(d[k - 1], c, k)
        /\ Marginals(c, todo, s) = d[m]
    BY <1>0 DEF MarginRun
  <1> DEFINE F == {k \in 0..m : Faithful(d[k].s)}
  <1>3. 0 \in F
    <2>1. d[0].s = s
      BY <1>2
    <2>2. Faithful(d[0].s)
      BY <2>1
    <2> QED  BY <2>2
  <1>4. ASSUME NEW k \in 0..m - 1, k \in F  PROVE k + 1 \in F
    <2>1. k + 1 \in 0..m /\ k + 1 \in 1..m /\ (k + 1) - 1 = k
      OBVIOUS
    <2>2. PICK was : was = d[k]
      OBVIOUS
    <2>3. PICK good \in Nat, bad \in Nat : good = c[k + 1] /\ bad = SumOf(c, (k + 1) + 1)
      <3>1. k + 1 \in 1..Len(c) /\ (k + 1) + 1 \in 1..Len(c) + 1
        BY <1>1
      <3>2. SumOf(c, (k + 1) + 1) \in Nat
        BY <3>1, SumType
      <3> QED  BY <3>1, <3>2
    <2>4. PICK t : t = hypergeometric(good, bad, was.todo, was.s)
      OBVIOUS
    <2>5. Faithful(was.s) /\ Faithful(t)
      BY <1>4, <2>2, <2>4, HyperFaithful
    <2>6. d[k + 1] = MarginStep(was, c, k + 1)
      BY <1>2, <2>1, <2>2
    <2>7. d[k + 1] = was \/ d[k + 1].s = t
      BY <2>3, <2>4, <2>6 DEF MarginStep
    <2>8. Faithful(d[k + 1].s)
      BY <2>5, <2>7
    <2> QED  BY <2>1, <2>8
  <1>5. F = 0..m
    <2> HIDE DEF F
    <2>1. F \in SUBSET (0..m)
      BY DEF F
    <2> QED  BY <1>3, <1>4, <2>1, UpTo
  <1>6. AllFaithful(d, m)
    BY <1>5 DEF AllFaithful
  <1>7. Faithful(Marginals(c, todo, s).s)
    BY <1>2, <1>6 DEF AllFaithful
  <1>8. MarginRun(d, Len(c) - 1, c, todo, s) /\ AllFaithful(d, Len(c) - 1)
    BY <1>0, <1>1, <1>6
  <1> QED  BY <1>7, <1>8

LEMMA MaxNat == ASSUME NEW x \in Nat PROVE Max({x, 0}) = x
  BY DEF Max

\* What color i gave, if it was asked.
Part(taken, i) == IF i <= Len(taken) THEN taken[i] ELSE 0

\* The parts of the colors: what is still to draw falls by each of them.
FallsBy(t, d, c, todo) ==
    /\ t[0].todo = todo /\ d = t[Len(c) - 1]
    /\ d.todo \in Nat /\ d.todo <= c[Len(c)]
    /\ d.taken \in Seq(Nat) /\ Len(d.taken) <= Len(c) - 1
    /\ \A i \in 1..Len(c) - 1 : /\ t[i].todo \in Nat
                                /\ t[i - 1].todo = Part(d.taken, i) + t[i].todo
                                /\ Part(d.taken, i) \in 0..c[i]

LEMMA MarginParts ==
  ASSUME NEW c \in Seq(Nat), c # <<>>, NEW todo \in Nat, todo <= SumOf(c, 1),
         NEW s, Faithful(s), Marginals(c, todo, s).s.val # NoValue
  PROVE  \E d : FallsBy(d, Marginals(c, todo, s), c, todo)
  <1>1. PICK m \in Nat : m = Len(c) - 1
    OBVIOUS
  <1>0. PICK d : MarginRun(d, m, c, todo, s) /\ AllFaithful(d, m)
    BY <1>1, MarginalsFaithful
  <1>2. /\ d[0] = [s |-> s, taken |-> <<>>, todo |-> todo]
        /\ \A k \in 1..m : d[k] = MarginStep(d[k - 1], c, k)
        /\ Marginals(c, todo, s) = d[m]
        /\ \A k \in 0..m : Faithful(d[k].s)
    BY <1>0 DEF MarginRun, AllFaithful
  <1> DEFINE Ok(k) == /\ d[k].todo \in Nat /\ d[k].todo <= SumOf(c, k + 1)
                      /\ d[k].taken \in Seq(Nat) /\ Len(d[k].taken) <= k
                      /\ d[k].todo > 0 => Len(d[k].taken) = k
                      /\ \A i \in 1..k : /\ d[i].todo \in Nat
                                         /\ d[i - 1].todo = Part(d[k].taken, i) + d[i].todo
                                         /\ Part(d[k].taken, i) \in 0..c[i]
             F == {k \in 0..m : d[k].s.val = NoValue \/ Ok(k)}
  <1>3. 0 \in F
    <2>1. d[0].todo = todo /\ d[0].taken = <<>>
      BY <1>2
    <2>2. Ok(0)
      BY <2>1
    <2> QED  BY <2>2
  <1>4. ASSUME NEW k \in 0..m - 1, k \in F  PROVE k + 1 \in F
    <2>1. k + 1 \in 0..m /\ k + 1 \in 1..m /\ (k + 1) - 1 = k
      OBVIOUS
    <2>2. PICK was : was = d[k]
      OBVIOUS
    <2>3. d[k + 1] = MarginStep(was, c, k + 1)
      BY <1>2, <2>1, <2>2
    <2>4. PICK good \in Nat, bad \in Nat : good = c[k + 1] /\ bad = SumOf(c, (k + 1) + 1)
      <3>1. k + 1 \in 1..Len(c) /\ (k + 1) + 1 \in 1..Len(c) + 1
        BY <1>1
      <3>2. SumOf(c, (k + 1) + 1) \in Nat
        BY <3>1, SumType
      <3> QED  BY <3>1, <3>2
    <2>5. SumOf(c, k + 1) = good + bad
      <3>1. k + 1 \in 1..Len(c)
        BY <1>1
      <3>2. Len(c) \in Nat
        OBVIOUS
      <3>3. SumOf(c, k + 1) = c[k + 1] + SumOf(c, (k + 1) + 1)
        BY <3>1, <3>2, SumSteps
      <3> QED  BY <2>4, <3>3
    <2>6. CASE was.s.val = NoValue
      <3>1. d[k + 1] = was
        BY <2>3, <2>6 DEF MarginStep
      <3> QED  BY <2>1, <2>6, <3>1
    <2>7. CASE was.s.val # NoValue /\ was.todo <= 0
      <3>1. d[k + 1] = d[k]
        BY <2>2, <2>3, <2>7 DEF MarginStep
      <3>2. Ok(k)
        BY <1>4, <2>2, <2>7
      <3>3. d[k].todo = 0 /\ d[k + 1].todo = 0
        BY <2>2, <2>7, <3>1, <3>2
      <3>4. Part(d[k].taken, k + 1) = 0
        BY <3>2 DEF Part
      <3>5. ASSUME NEW i \in 1..k + 1
            PROVE  /\ d[i].todo \in Nat
                   /\ d[i - 1].todo = Part(d[k].taken, i) + d[i].todo
                   /\ Part(d[k].taken, i) \in 0..c[i]
        <4>1. CASE i = k + 1
          BY <2>1, <2>4, <3>3, <3>4, <4>1
        <4>2. CASE i # k + 1
          <5>1. i \in 1..k
            BY <4>2
          <5> QED  BY <3>2, <5>1
        <4> QED  BY <4>1, <4>2
      <3>6. Ok(k + 1)
        BY <2>4, <3>1, <3>2, <3>3, <3>5, SMTT(30)
      <3> QED  BY <2>1, <3>6
    <2>8. CASE was.s.val # NoValue /\ ~(was.todo <= 0)
      <3>1. Ok(k)
        BY <1>4, <2>2, <2>8
      <3>2. PICK a \in Nat, b \in Seq(Nat) : a = was.todo /\ b = was.taken
        BY <2>2, <3>1
      <3>3. a > 0 /\ Len(b) = k /\ a <= good + bad
        BY <2>2, <2>5, <2>8, <3>1, <3>2
      <3>4. PICK t : t = hypergeometric(c[k + 1], SumOf(c, (k + 1) + 1), was.todo, was.s)
        OBVIOUS
      <3>5. /\ d[k + 1].s = t /\ d[k + 1].taken = Append(b, t.val)
            /\ d[k + 1].todo = a - t.val
        <4>1. d[k + 1] = [s |-> t, taken |-> Append(was.taken, t.val),
                          todo |-> was.todo - t.val]
          BY <2>3, <2>8, <3>4 DEF MarginStep
        <4> QED  BY <3>2, <4>1
      <3>8. t = hypergeometric(good, bad, a, was.s)
        BY <2>4, <3>2, <3>4
      <3>6. CASE t.val = NoValue
        BY <2>1, <3>5, <3>6
      <3>7. CASE t.val # NoValue
        <4>1. Faithful(was.s)
          BY <1>2, <2>2
        <4>2. PICK v : v = t.val
          OBVIOUS
        <4>3. v \in 0..good /\ v <= a /\ a - v <= bad
          BY <3>3, <3>7, <3>8, <4>1, <4>2, HyperResult
        <4>10. v \in Nat /\ a - v \in Nat
          BY <4>3
        <4>4. PICK b2 : b2 = Append(b, v)
          OBVIOUS
        <4>5. b2 \in Seq(Nat) /\ Len(b2) = k + 1 /\ b2[k + 1] = v /\ \A i \in 1..k : b2[i] = b[i]
          BY <3>3, <4>4, <4>10
        <4>6. Part(b2, k + 1) = v /\ \A i \in 1..k : Part(b2, i) = Part(b, i)
          BY <3>3, <4>5 DEF Part
        <4>7. d[k + 1].taken = b2 /\ d[k + 1].todo = a - v
          BY <3>5, <4>2, <4>4
        <4>8. ASSUME NEW i \in 1..k + 1
              PROVE  /\ d[i].todo \in Nat
                     /\ d[i - 1].todo = Part(b2, i) + d[i].todo
                     /\ Part(b2, i) \in 0..c[i]
          <5>1. CASE i = k + 1
            <6>1. d[i - 1].todo = a /\ d[i].todo = a - v /\ c[i] = good /\ Part(b2, i) = v
              BY <2>1, <2>2, <2>4, <3>2, <4>6, <4>7, <5>1
            <6>2. v \in 0..good /\ a = v + (a - v)
              BY <4>3, <4>10
            <6> QED  BY <4>10, <6>1, <6>2
          <5>2. CASE i # k + 1
            <6>1. i \in 1..k
              BY <5>2
            <6>2. Part(b2, i) = Part(d[k].taken, i)
              BY <2>2, <3>2, <4>6, <6>1
            <6> QED  BY <3>1, <6>1, <6>2
          <5> QED  BY <5>1, <5>2
        <4>9. Ok(k + 1)
          <5>1. d[k + 1].todo \in Nat /\ d[k + 1].todo <= SumOf(c, (k + 1) + 1)
            BY <2>4, <4>3, <4>7, <4>10
          <5>2. d[k + 1].taken \in Seq(Nat) /\ Len(d[k + 1].taken) = k + 1
            BY <4>5, <4>7
          <5>3. ASSUME NEW i \in 1..k + 1
                PROVE  /\ d[i].todo \in Nat
                       /\ d[i - 1].todo = Part(d[k + 1].taken, i) + d[i].todo
                       /\ Part(d[k + 1].taken, i) \in 0..c[i]
            BY <4>7, <4>8
          <5>4. Len(d[k + 1].taken) <= k + 1
            BY <5>2
          <5> QED  BY <5>1, <5>2, <5>3, <5>4
        <4> QED  BY <2>1, <4>9
      <3> QED  BY <3>6, <3>7
    <2> QED  BY <2>6, <2>7, <2>8
  <1>5. F = 0..m
    <2> HIDE DEF F
    <2>1. F \in SUBSET (0..m)
      BY DEF F
    <2> QED  BY <1>3, <1>4, <2>1, UpTo
  <1>6. Ok(m)
    <2>1. m \in F
      <3> HIDE DEF F
      <3> QED  BY <1>5
    <2>2. d[m].s.val # NoValue
      BY <1>2
    <2> QED  BY <2>1, <2>2
  <1>7. SumOf(c, m + 1) = c[Len(c)]
    <2>1. m + 1 = Len(c) /\ Len(c) \in 1..Len(c) /\ c[Len(c)] \in Nat
      BY <1>1
    <2>2. SumOf(c, Len(c)) = c[Len(c)] + SumOf(c, Len(c) + 1) /\ SumOf(c, Len(c) + 1) = 0
      BY <2>1, SumSteps
    <2> QED  BY <2>1, <2>2
  <1>8. d[0].todo = todo
    BY <1>2
  <1>9. FallsBy(d, d[m], c, todo)
    <2>1. m = Len(c) - 1 /\ d[m].todo <= c[Len(c)]
      BY <1>1, <1>6, <1>7
    <2> QED  BY <1>6, <1>8, <2>1 DEF FallsBy
  <1> QED  BY <1>2, <1>9

LEMMA SumDifference ==
  ASSUME NEW c \in Seq(Nat), NEW b \in Seq(Nat), Len(b) = Len(c)
  PROVE  SumOf([k \in DOMAIN c |-> c[k] - b[k]], 1) = SumOf(c, 1) - SumOf(b, 1)
  <1>1. PICK n \in Nat : n = Len(c)
    OBVIOUS
  <1>2. PICK e : e = [k \in DOMAIN c |-> c[k] - b[k]]
    OBVIOUS
  <1>3. e \in Seq(Int) /\ Len(e) = n /\ \A k \in 1..n : e[k] = c[k] - b[k]
    <2>1. e \in [1..n -> Int]
      BY <1>1, <1>2
    <2> QED  BY <1>1, <1>2, <2>1
  <1> DEFINE T == {k \in 0..n : SumOf(e, n + 1 - k) = SumOf(c, n + 1 - k) - SumOf(b, n + 1 - k)}
  <1>4. 0 \in T
    <2>1. SumOf(e, n + 1) = 0 /\ SumOf(c, n + 1) = 0 /\ SumOf(b, n + 1) = 0
      BY <1>1, <1>3, SumSteps
    <2>2. n + 1 - 0 = n + 1
      OBVIOUS
    <2> QED  BY <2>1, <2>2
  <1>5. ASSUME NEW k \in 0..n - 1, k \in T  PROVE k + 1 \in T
    <2>1. PICK i \in 1..n : i = n + 1 - (k + 1)
      OBVIOUS
    <2>2. i + 1 = n + 1 - k /\ k + 1 \in 0..n /\ i + 1 \in 1..n + 1
      BY <2>1
    <2>3. SumOf(e, i) = e[i] + SumOf(e, i + 1)
      BY <1>3, SumSteps
    <2>4. SumOf(c, i) = c[i] + SumOf(c, i + 1) /\ SumOf(b, i) = b[i] + SumOf(b, i + 1)
      BY <1>1, SumSteps
    <2>5. SumOf(c, i + 1) \in Nat /\ SumOf(b, i + 1) \in Nat /\ c[i] \in Nat /\ b[i] \in Nat
      BY <1>1, <2>2, SumType, SMTT(30)
    <2>6. SumOf(e, i + 1) = SumOf(c, i + 1) - SumOf(b, i + 1)
      BY <1>5, <2>2
    <2>7. SumOf(e, i) = SumOf(c, i) - SumOf(b, i)
      <3>1. e[i] = c[i] - b[i]
        BY <1>3
      <3>2. PICK x \in Nat, y \in Nat, u \in Nat, v \in Nat :
               x = c[i] /\ y = b[i] /\ u = SumOf(c, i + 1) /\ v = SumOf(b, i + 1)
        BY <2>5
      <3>3. SumOf(e, i) = (x - y) + (u - v) /\ SumOf(c, i) = x + u /\ SumOf(b, i) = y + v
        BY <2>3, <2>4, <2>6, <3>1, <3>2
      <3> QED  BY <3>3
    <2> QED  BY <2>1, <2>2, <2>7
  <1>6. T = 0..n
    <2> HIDE DEF T
    <2>1. T \in SUBSET (0..n)
      BY DEF T
    <2> QED  BY <1>4, <1>5, <2>1, UpTo
  <1>7. n \in T /\ n + 1 - n = 1
    <2> HIDE DEF T
    <2> QED  BY <1>6
  <1> QED  BY <1>2, <1>7

LEMMA SumZeros ==
  ASSUME NEW c \in Seq(Nat)
  PROVE  SumOf([k \in DOMAIN c |-> 0], 1) = 0
  <1>1. PICK e : e = [k \in DOMAIN c |-> c[k] - c[k]]
    OBVIOUS
  <1>2. [k \in DOMAIN c |-> 0] = e
    BY <1>1
  <1>3. SumOf(e, 1) = SumOf(c, 1) - SumOf(c, 1)
    BY <1>1, SumDifference
  <1>4. SumOf(c, 1) \in Nat
    BY SumType
  <1> QED  BY <1>2, <1>3, <1>4

DrawnBy(c, d) == Drawn(c, d.taken, Max({d.todo, 0}))

AddsUp(c, todo, drawn) ==
    /\ drawn \in Seq(Nat) /\ Len(drawn) = Len(c) /\ \A k \in 1..Len(c) : drawn[k] <= c[k]
    /\ SumOf(drawn, 1) = todo

\* The balls drawn are of the urn and are as many as were to be drawn.
LEMMA DrawnAddUp ==
  ASSUME NEW c \in Seq(Nat), c # <<>>, NEW todo \in Nat, todo <= SumOf(c, 1),
         NEW s, Faithful(s), Marginals(c, todo, s).s.val # NoValue
  PROVE  AddsUp(c, todo, DrawnBy(c, Marginals(c, todo, s)))
  <1> DEFINE d == Marginals(c, todo, s)
  <1>0. PICK drawn : drawn = DrawnBy(c, d)
    OBVIOUS
  <1>1. PICK m \in Nat : m = Len(c) - 1
    OBVIOUS
  <1>2. PICK t : /\ t[0].todo = todo /\ d = t[m]
                 /\ d.todo \in Nat /\ d.todo <= c[Len(c)]
                 /\ d.taken \in Seq(Nat) /\ Len(d.taken) <= m
                 /\ \A i \in 1..m : /\ t[i].todo \in Nat
                                    /\ t[i - 1].todo = Part(d.taken, i) + t[i].todo
                                    /\ Part(d.taken, i) \in 0..c[i]
    <2>1. PICK t : FallsBy(t, d, c, todo)
      BY MarginParts
    <2> HIDE DEF d
    <2> QED  BY <1>1, <2>1 DEF FallsBy
  <1> HIDE DEF d
  <1>3. PICK rest \in Nat, taken \in Seq(Nat) :
           rest = d.todo /\ taken = d.taken /\ Len(taken) <= m /\ rest <= c[Len(c)]
    BY <1>2
  <1>4. PICK l, g : /\ l \in Nat /\ l = Len(c) - Len(taken)
                    /\ g = [k \in 1..l |-> IF Len(taken) + k = Len(c) THEN rest ELSE 0]
    <2>1. Len(c) - Len(taken) \in Nat
      BY <1>1, <1>3
    <2> QED  BY <2>1
  <1>5. drawn = taken \o g
    <2>1. Max({d.todo, 0}) = rest
      BY <1>3, MaxNat
    <2>2. drawn = Drawn(c, taken, rest)
      BY <1>0, <1>3, <2>1 DEF DrawnBy
    <2> QED  BY <1>4, <2>2 DEF Drawn
  <1>6. g \in Seq(Nat) /\ Len(g) = l
    <2>1. g \in [1..l -> Nat] /\ l \in Nat
      BY <1>4
    <2> QED  BY <2>1
  <1>7. /\ drawn \in Seq(Nat) /\ Len(drawn) = Len(c)
        /\ \A k \in 1..Len(c) : drawn[k] = IF k <= Len(taken) THEN taken[k] ELSE g[k - Len(taken)]
    <2>1. /\ taken \o g \in Seq(Nat) /\ Len(taken \o g) = Len(taken) + Len(g)
          /\ \A k \in 1..Len(taken) + Len(g) :
               (taken \o g)[k] = IF k <= Len(taken) THEN taken[k] ELSE g[k - Len(taken)]
      BY <1>6, ConcatProperties
    <2>2. Len(taken) + Len(g) = Len(c)
      BY <1>3, <1>4, <1>6
    <2> QED  BY <1>5, <2>1, <2>2
  <1>8. drawn[Len(c)] = rest
    <2>1. Len(c) \in 1..Len(c) /\ ~(Len(c) <= Len(taken))
      BY <1>1, <1>3
    <2>2. Len(c) - Len(taken) \in 1..l /\ Len(taken) + (Len(c) - Len(taken)) = Len(c)
      BY <1>4, <2>1
    <2> QED  BY <1>4, <1>7, <2>1, <2>2
  <1>9. ASSUME NEW k \in 1..m  PROVE drawn[k] = Part(taken, k)
    <2>1. k \in 1..Len(c) /\ k # Len(c)
      BY <1>1
    <2>2. CASE k <= Len(taken)
      BY <1>7, <2>1, <2>2 DEF Part
    <2>3. CASE ~(k <= Len(taken))
      <3>1. k - Len(taken) \in 1..l /\ Len(taken) + (k - Len(taken)) = k
        BY <1>4, <2>1, <2>3
      <3>2. g[k - Len(taken)] = 0
        BY <1>4, <2>1, <3>1
      <3> QED  BY <1>7, <2>1, <2>3, <3>2 DEF Part
    <2> QED  BY <2>2, <2>3
  <1>10. ASSUME NEW k \in 1..Len(c)  PROVE drawn[k] <= c[k]
    <2>1. CASE k = Len(c)
      BY <1>3, <1>8, <2>1
    <2>2. CASE k # Len(c)
      <3>1. k \in 1..m
        BY <1>1, <2>2
      <3>2. Part(taken, k) \in 0..c[k] /\ c[k] \in Nat
        BY <1>2, <1>3, <3>1, SMTT(30)
      <3>3. PICK x : x = drawn[k]
        OBVIOUS
      <3>4. x \in 0..c[k]
        BY <1>9, <3>1, <3>2, <3>3
      <3> QED  BY <3>2, <3>3, <3>4
    <2> QED  BY <2>1, <2>2
  <1> DEFINE T == {k \in 0..m : SumOf(drawn, Len(c) - k) = t[m - k].todo}
  <1>11. 0 \in T
    <2>1. Len(c) \in 1..Len(drawn) /\ Len(drawn) \in Nat
      BY <1>1, <1>7
    <2>2. SumOf(drawn, Len(c)) = drawn[Len(c)] + 0
      BY <1>7, <2>1, SumSteps
    <2>3. Len(c) - 0 = Len(c) /\ m - 0 = m
      BY <1>1
    <2> QED  BY <1>2, <1>3, <1>8, <2>2, <2>3
  <1>12. ASSUME NEW k \in 0..m - 1, k \in T  PROVE k + 1 \in T
    <2>1. PICK i \in 1..m : i = Len(c) - (k + 1)
      <3>1. Len(c) - (k + 1) \in 1..m
        BY <1>1
      <3> QED  BY <3>1
    <2>2. i + 1 = Len(c) - k /\ k + 1 \in 0..m /\ m - k = i /\ m - (k + 1) = i - 1
      BY <1>1, <2>1
    <2>3. i \in 1..Len(drawn) /\ Len(drawn) \in Nat
      BY <1>1, <1>7
    <2>4. SumOf(drawn, i) = drawn[i] + SumOf(drawn, i + 1)
      BY <2>3, SumSteps
    <2>5. SumOf(drawn, i + 1) = t[i].todo
      BY <1>12, <2>2
    <2>6. t[i - 1].todo = drawn[i] + t[i].todo
      BY <1>2, <1>3, <1>9
    <2>7. SumOf(drawn, i) = t[i - 1].todo
      BY <2>4, <2>5, <2>6
    <2> QED  BY <2>1, <2>2, <2>7
  <1>13. T = 0..m
    <2> HIDE DEF T
    <2>1. T \in SUBSET (0..m)
      BY DEF T
    <2> QED  BY <1>11, <1>12, <2>1, UpTo
  <1>14. m \in T /\ Len(c) - m = 1 /\ m - m = 0
    <2> HIDE DEF T
    <2> QED  BY <1>1, <1>13
  <1>15. AddsUp(c, todo, drawn)
    BY <1>2, <1>7, <1>10, <1>14 DEF AddsUp
  <1> QED  BY <1>0, <1>15 DEF d

----------------------------------------------------------------------------
(* What a rejection loop keeps of what it is offered.                          *)

\* What is kept after each element.
Keeping(f, s, T) ==
    /\ f[0] = <<>>
    /\ \A k \in 1..Len(s) : f[k] = IF s[k] \in T THEN Append(f[k - 1], s[k]) ELSE f[k - 1]

LEMMA KeptChain ==
  ASSUME NEW s, Len(s) \in Nat, NEW T
  PROVE  \E f : Keeping(f, s, T) /\ KeptOf(s, T) = f[Len(s)]
  <1> DEFINE Next1(g, k) == IF s[k] \in T THEN Append(g[k - 1], s[k]) ELSE g[k - 1]
             Step(f, m) == \A k \in 0..m : f[k] = IF k = 0 THEN <<>> ELSE Next1(f, k)
             U == {m \in 0..Len(s) : \E f : Step(f, m)}
  <1>0. Len(s) \in Nat
    OBVIOUS
  <1>1. 0 \in U
    <2>1. \E f : Step(f, 0)
      <3>1. Step([k \in 0..0 |-> <<>>], 0)
        OBVIOUS
      <3> QED  BY <3>1
    <2> QED  BY <1>0, <2>1
  <1>2. ASSUME NEW m \in 0..Len(s) - 1, m \in U
        PROVE  m + 1 \in U
    <2>1. PICK f : Step(f, m)
      BY <1>2
    <2>2. PICK e : e = [k \in 0..m + 1 |-> IF k = m + 1
                          THEN IF s[m + 1] \in T THEN Append(f[m], s[m + 1]) ELSE f[m]
                          ELSE f[k]]
      OBVIOUS
    <2>3. m \in Nat /\ m + 1 \in 0..Len(s)
      BY <1>0
    <2>4. Step(e, m + 1)
      <3> TAKE k \in 0..m + 1
      <3>1. CASE k = m + 1
        <4>1. m \in 0..m + 1 /\ m # m + 1 /\ k # 0 /\ k - 1 = m
          BY <2>3, <3>1
        <4>2. e[m] = f[m]
          BY <2>2, <4>1
        <4>3. e[k] = IF s[m + 1] \in T THEN Append(f[m], s[m + 1]) ELSE f[m]
          BY <2>2, <3>1
        <4> QED  BY <3>1, <4>1, <4>2, <4>3
      <3>2. CASE k = 0
        BY <2>1, <2>2, <2>3, <3>2
      <3>3. CASE k # m + 1 /\ k # 0
        <4>1. k \in 0..m /\ k - 1 \in 0..m + 1 /\ k - 1 # m + 1 /\ k \in 0..m + 1
          BY <2>3, <3>3
        <4>2. e[k] = f[k] /\ e[k - 1] = f[k - 1]
          BY <2>2, <3>3, <4>1
        <4>3. f[k] = Next1(f, k)
          BY <2>1, <3>3, <4>1
        <4> QED  BY <3>3, <4>2, <4>3
      <3> QED  BY <3>1, <3>2, <3>3
    <2> QED  BY <2>3, <2>4
  <1>3. U = 0..Len(s)
    <2> HIDE DEF U
    <2>1. U \in SUBSET (0..Len(s))
      BY DEF U
    <2> QED  BY <1>0, <1>1, <1>2, <2>1, UpTo
  <1>4. Len(s) \in U
    <2> HIDE DEF U
    <2> QED  BY <1>0, <1>3
  <1>5. PICK f : Step(f, Len(s))
    BY <1>4
  <1>6. PICK e : e = [k \in 0..Len(s) |-> f[k]]
    OBVIOUS
  <1>7. e = [k \in 0..Len(s) |-> IF k = 0 THEN <<>> ELSE Next1(e, k)]
    <2>1. ASSUME NEW k \in 0..Len(s)
          PROVE  e[k] = IF k = 0 THEN <<>> ELSE Next1(e, k)
      <3>1. CASE k = 0
        BY <1>5, <1>6, <3>1
      <3>2. CASE k # 0
        <4>1. k - 1 \in 0..Len(s)
          BY <1>0, <3>2
        <4>2. e[k] = f[k] /\ e[k - 1] = f[k - 1]
          BY <1>6, <4>1
        <4>3. f[k] = Next1(f, k)
          BY <1>5, <3>2
        <4> QED  BY <3>2, <4>2, <4>3
      <3> QED  BY <3>1, <3>2
    <2> HIDE DEF Next1
    <2> QED  BY <1>6, <2>1
  <1>8. PICK d : d = CHOOSE g : g = [k \in 0..Len(s) |-> IF k = 0 THEN <<>> ELSE Next1(g, k)]
    OBVIOUS
  <1>9. d = [k \in 0..Len(s) |-> IF k = 0 THEN <<>> ELSE Next1(d, k)]
    <2> HIDE DEF Next1
    <2> QED  BY <1>7, <1>8
  <1>10. d[0] = <<>>
    BY <1>0, <1>9
  <1>11. ASSUME NEW k \in 1..Len(s)  PROVE d[k] = Next1(d, k)
    <2>1. k \in 0..Len(s) /\ k # 0
      BY <1>0
    <2> HIDE DEF Next1
    <2> QED  BY <1>9, <2>1
  <1>12. KeptOf(s, T) = d[Len(s)]
    BY <1>8 DEF KeptOf
  <1> QED  BY <1>10, <1>11, <1>12 DEF Keeping

\* q begins with p.
Begins(p, q) == Len(p) <= Len(q) /\ \A k \in 1..Len(p) : q[k] = p[k]

\* What is kept is of T, and only grows.
LEMMA KeepingGrows ==
  ASSUME NEW s, Len(s) \in Nat, NEW T, NEW f, Keeping(f, s, T)
  PROVE  /\ \A k \in 0..Len(s) : f[k] \in Seq(T)
         /\ \A k \in 0..Len(s) : \A i \in 0..k : Begins(f[i], f[k])
  <1>1. PICK n \in Nat : n = Len(s)
    OBVIOUS
  <1> DEFINE U == {k \in 0..n : /\ f[k] \in Seq(T)
                                /\ \A i \in 0..k : Len(f[i]) \in Nat /\ Begins(f[i], f[k])}
  <1>2. 0 \in U
    <2>1. f[0] = <<>>
      BY DEF Keeping
    <2>2. f[0] \in Seq(T) /\ Len(f[0]) \in Nat /\ Begins(f[0], f[0])
      BY <2>1 DEF Begins
    <2> QED  BY <2>2
  <1>3. ASSUME NEW k \in 0..n - 1, k \in U
        PROVE  k + 1 \in U
    <2>1. k + 1 \in 1..n /\ (k + 1) - 1 = k /\ k + 1 \in 0..n
      OBVIOUS
    <2>2. PICK a, b : a = f[k] /\ b = f[k + 1]
      OBVIOUS
    <2>3. b = IF s[k + 1] \in T THEN Append(a, s[k + 1]) ELSE a
      BY <1>1, <2>1, <2>2 DEF Keeping
    <2>4. a \in Seq(T)
      BY <1>3, <2>2
    <2>5. b \in Seq(T) /\ Begins(a, b)
      <3>1. CASE s[k + 1] \in T
        <4>1. PICK x \in T : x = s[k + 1]
          BY <3>1
        <4>2. b = Append(a, x)
          BY <2>3, <3>1, <4>1
        <4>3. b \in Seq(T) /\ Len(b) = Len(a) + 1 /\ \A j \in 1..Len(a) : b[j] = a[j]
          BY <2>4, <4>2
        <4>4. Len(a) \in Nat
          BY <2>4
        <4> QED  BY <4>3, <4>4 DEF Begins
      <3>2. CASE s[k + 1] \notin T
        <4>1. b = a
          BY <2>3, <3>2
        <4> QED  BY <2>4, <4>1 DEF Begins
      <3> QED  BY <3>1, <3>2
    <2>6. ASSUME NEW i \in 0..k + 1  PROVE Len(f[i]) \in Nat /\ Begins(f[i], b)
      <3>1. CASE i = k + 1
        <4>1. f[i] = b
          BY <2>2, <3>1
        <4>2. Begins(b, b) /\ Len(b) \in Nat
          BY <2>5 DEF Begins
        <4> QED  BY <4>1, <4>2
      <3>2. CASE i # k + 1
        <4>1. i \in 0..k
          BY <3>2
        <4>2. PICK c : c = f[i]
          OBVIOUS
        <4>3. Begins(c, a)
          BY <1>3, <2>2, <4>1, <4>2
        <4>4. Len(c) <= Len(a) /\ Len(a) <= Len(b)
          BY <2>5, <4>3 DEF Begins
        <4>5. Len(a) \in Nat /\ Len(b) \in Nat
          BY <2>4, <2>5
        <4>6. Len(c) \in Nat
          BY <1>3, <4>1, <4>2
        <4>7. Len(c) <= Len(b) /\ \A j \in 1..Len(c) : j \in 1..Len(a)
          BY <4>4, <4>5, <4>6
        <4>8. \A j \in 1..Len(c) : b[j] = c[j]
          BY <2>5, <4>3, <4>7 DEF Begins
        <4> QED  BY <4>2, <4>6, <4>7, <4>8 DEF Begins
      <3> QED  BY <3>1, <3>2
    <2> QED  BY <2>1, <2>2, <2>5, <2>6
  <1>4. U = 0..n
    <2> HIDE DEF U
    <2>1. U \in SUBSET (0..n)
      BY DEF U
    <2> QED  BY <1>2, <1>3, <2>1, UpTo
  <1> QED  BY <1>1, <1>4

LEMMA KeptType ==
  ASSUME NEW s, Len(s) \in Nat, NEW T
  PROVE  KeptOf(s, T) \in Seq(T)
  <1>1. PICK f : Keeping(f, s, T) /\ KeptOf(s, T) = f[Len(s)]
    BY KeptChain
  <1>2. Len(s) \in 0..Len(s)
    OBVIOUS
  <1> QED  BY <1>1, <1>2, KeepingGrows

\* Of a beginning of s a beginning is kept of what is kept of s.
LEMMA KeptBegins ==
  ASSUME NEW p, Len(p) \in Nat, NEW s, Len(s) \in Nat, NEW T, Begins(p, s)
  PROVE  Begins(KeptOf(p, T), KeptOf(s, T))
  <1>1. PICK f : Keeping(f, s, T) /\ KeptOf(s, T) = f[Len(s)]
    BY KeptChain
  <1>2. PICK g : Keeping(g, p, T) /\ KeptOf(p, T) = g[Len(p)]
    BY KeptChain
  <1>3. PICK m \in Nat : m = Len(p)
    OBVIOUS
  <1>4. m <= Len(s) /\ \A k \in 1..m : s[k] = p[k]
    BY <1>3 DEF Begins
  <1> DEFINE U == {k \in 0..m : f[k] = g[k]}
  <1>5. 0 \in U
    BY <1>1, <1>2 DEF Keeping
  <1>6. ASSUME NEW k \in 0..m - 1, k \in U
        PROVE  k + 1 \in U
    <2>1. k + 1 \in 1..m /\ (k + 1) - 1 = k /\ k + 1 \in 1..Len(s) /\ k + 1 \in 0..m
      BY <1>4
    <2>2. f[k + 1] = IF s[k + 1] \in T THEN Append(f[k], s[k + 1]) ELSE f[k]
      BY <1>1, <2>1 DEF Keeping
    <2>3. g[k + 1] = IF p[k + 1] \in T THEN Append(g[k], p[k + 1]) ELSE g[k]
      BY <1>2, <1>3, <2>1 DEF Keeping
    <2>4. f[k] = g[k] /\ s[k + 1] = p[k + 1]
      BY <1>4, <1>6, <2>1
    <2> QED  BY <2>1, <2>2, <2>3, <2>4
  <1>7. U = 0..m
    <2> HIDE DEF U
    <2>1. U \in SUBSET (0..m)
      BY DEF U
    <2> QED  BY <1>5, <1>6, <2>1, UpTo
  <1>8. f[m] = g[m]
    BY <1>7
  <1>9. m \in 0..Len(s) /\ Len(s) \in 0..Len(s)
    BY <1>4
  <1>10. Begins(f[m], f[Len(s)])
    BY <1>1, <1>9, KeepingGrows
  <1> QED  BY <1>1, <1>2, <1>3, <1>8, <1>10

\* One more element is kept or not.
LEMMA KeptOneMore ==
  ASSUME NEW V, NEW s \in Seq(V), NEW x \in V, NEW T, NEW s1, s1 = Append(s, x)
  PROVE  KeptOf(s1, T) = IF x \in T THEN Append(KeptOf(s, T), x) ELSE KeptOf(s, T)
  <1>1. PICK n \in Nat : n = Len(s)
    OBVIOUS
  <1>2. Len(s1) = n + 1 /\ s1[n + 1] = x /\ \A k \in 1..n : s1[k] = s[k]
    BY <1>1
  <1>3. PICK f : Keeping(f, s1, T) /\ KeptOf(s1, T) = f[n + 1]
    <2>1. Len(s1) \in Nat
      BY <1>2
    <2>2. \E f : Keeping(f, s1, T) /\ KeptOf(s1, T) = f[Len(s1)]
      BY <2>1, KeptChain
    <2> QED  BY <1>2, <2>2
  <1>4. PICK g : Keeping(g, s, T) /\ KeptOf(s, T) = g[n]
    BY <1>1, KeptChain
  <1> DEFINE U == {k \in 0..n : f[k] = g[k]}
  <1>5. 0 \in U
    BY <1>3, <1>4 DEF Keeping
  <1>6. ASSUME NEW k \in 0..n - 1, k \in U
        PROVE  k + 1 \in U
    <2>1. k + 1 \in 1..n /\ (k + 1) - 1 = k /\ k + 1 \in 1..n + 1 /\ k + 1 \in 0..n
      OBVIOUS
    <2>2. f[k + 1] = IF s1[k + 1] \in T THEN Append(f[k], s1[k + 1]) ELSE f[k]
      BY <1>2, <1>3, <2>1 DEF Keeping
    <2>3. g[k + 1] = IF s[k + 1] \in T THEN Append(g[k], s[k + 1]) ELSE g[k]
      BY <1>1, <1>4, <2>1 DEF Keeping
    <2>4. f[k] = g[k] /\ s1[k + 1] = s[k + 1]
      BY <1>2, <1>6, <2>1
    <2> QED  BY <2>1, <2>2, <2>3, <2>4
  <1>7. U = 0..n
    <2> HIDE DEF U
    <2>1. U \in SUBSET (0..n)
      BY DEF U
    <2> QED  BY <1>5, <1>6, <2>1, UpTo
  <1>8. f[n] = g[n]
    BY <1>7
  <1>9. n + 1 \in 1..n + 1 /\ (n + 1) - 1 = n
    OBVIOUS
  <1>10. f[n + 1] = IF x \in T THEN Append(f[n], x) ELSE f[n]
    BY <1>2, <1>3, <1>9 DEF Keeping
  <1> QED  BY <1>3, <1>4, <1>8, <1>10

----------------------------------------------------------------------------
(* The pieces that words are cut into.                                        *)

LEMMA DivDiv ==
  ASSUME NEW v \in Int, NEW a \in Nat \ {0}, NEW b \in Nat \ {0}
  PROVE  (v \div a) \div b = v \div (a * b)
  <1>1. PICK q, r : q = v \div a /\ r = v % a
    OBVIOUS
  <1>2. q \in Int /\ r \in Int /\ v = a * q + r /\ 0 <= r /\ r < a
    BY <1>1, DivMod
  <1>3. PICK p, t : p = q \div b /\ t = q % b
    OBVIOUS
  <1>4. p \in Int /\ t \in Int /\ q = b * p + t /\ 0 <= t /\ t < b
    BY <1>2, <1>3, DivMod
  <1>5. PICK c \in Nat \ {0} : c = a * b
    <2>1. a * b \in Nat
      OBVIOUS
    <2>2. a * 1 <= a * b
      BY TimesKeepsOrder
    <2> QED  BY <2>1, <2>2
  <1>6. PICK e \in Int : e = a * t + r
    BY <1>2, <1>4
  <1>7. v = c * p + e
    <2>1. PICK bp, cp, at \in Int : bp = b * p /\ cp = c * p /\ at = a * t
      BY <1>4
    <2>2. a * bp = cp
      <3>1. a * (b * p) = (a * b) * p
        BY <1>4
      <3> QED  BY <1>5, <2>1, <3>1
    <2>3. a * (bp + t) = a * bp + a * t
      BY <1>4, <2>1
    <2>4. a * q = cp + at
      BY <1>4, <2>1, <2>2, <2>3
    <2>5. v = cp + at + r /\ e = at + r
      BY <1>2, <1>6, <2>1, <2>4
    <2>6. v = cp + e
      BY <1>2, <2>5
    <2> QED  BY <2>1, <2>6
  <1>8. 0 <= e /\ e < c
    <2>1. a * 0 <= a * t
      BY <1>4, TimesKeepsOrder
    <2>2. a * t <= a * (b - 1)
      BY <1>4, TimesKeepsOrder
    <2>3. a * (b - 1) = a * b - a /\ a * 0 = 0 /\ a * t \in Int
      BY <1>4
    <2> QED  BY <1>2, <1>5, <1>6, <2>1, <2>2, <2>3
  <1>9. v \div c = p
    BY <1>4, <1>6, <1>7, <1>8, DivModUnique
  <1> QED  BY <1>1, <1>3, <1>5, <1>9

PerWord(w) == IF w >= Half THEN 1 ELSE Half \div w

LEMMA PerWordType ==
  ASSUME NEW w \in Widths
  PROVE  /\ w \in 1..Word /\ PerWord(w) \in Nat \ {0} /\ PerWord(w) * w <= Word
         /\ w < Half => PerWord(w) = Half \div w /\ w # Word /\ w # Half
         /\ w >= Half => PerWord(w) = 1 /\ w \in {Word, Half}
  <1>1. Half \in Nat \ {0} /\ Word = 2 * Half /\ Half % 4 = 0 /\ Half >= 4
    BY BitGenAssumption DEF Word
  <1>2. Half \div 2 \in 1..Half - 1 /\ Half \div 4 \in 1..Half - 1
    BY <1>1
  <1>3. w \in 1..Word /\ (w < Half \/ w \in {Word, Half})
    BY <1>1, <1>2 DEF Widths
  <1>4. CASE w < Half
    <2>1. w \in Nat \ {0} /\ PerWord(w) = Half \div w /\ w # Word /\ w # Half
      BY <1>1, <1>3, <1>4 DEF PerWord
    <2>2. PICK n, r : n = Half \div w /\ r = Half % w
      OBVIOUS
    <2>3. n \in Int /\ r \in Int /\ Half = w * n + r /\ 0 <= r /\ r < w
      BY <1>1, <2>1, <2>2, DivMod
    <2>4. n \in Nat
      BY <1>1, <2>1, <2>2, DivBelow
    <2>5. n # 0
      <3>1. CASE n = 0
        <4>1. w * n = 0
          BY <2>1, <3>1
        <4> QED  BY <1>1, <1>4, <2>1, <2>3, <4>1
      <3> QED  BY <3>1
    <2>6. n * w = w * n
      BY <2>1, <2>4
    <2>7. n * w <= Half /\ n * w \in Int
      BY <2>1, <2>3, <2>4, <2>6
    <2>8. n * w <= Word
      BY <1>1, <2>7
    <2> QED  BY <1>1, <1>3, <1>4, <2>1, <2>2, <2>4, <2>5, <2>8
  <1>5. CASE w >= Half
    <2>1. PerWord(w) = 1
      BY <1>5 DEF PerWord
    <2> QED  BY <1>1, <1>3, <1>5, <2>1
  <1> QED  BY <1>1, <1>3, <1>4, <1>5

\* Piece j of a word, and piece k of the words of a from an index on.
PieceOf(w, x, j) == (x \div 2^(j * w)) % 2^w
Piece(w, from, a, k) ==
    PieceOf(w, a[from + ((k - 1) \div PerWord(w)) + 1].val, (k - 1) % PerWord(w))

\* The pieces drawn are v; bcnt of the last word are left, and buf holds them.
Cut(w, from, a, bcnt, buf, v) ==
    /\ a \in Seq(Asked) /\ from \in 0..Len(a) /\ v \in Seq(Nat)
    /\ bcnt \in 0..PerWord(w) - 1
    /\ Len(v) + bcnt = PerWord(w) * (Len(a) - from)
    /\ \A k \in 1..Len(v) : v[k] = Piece(w, from, a, k)
    /\ bcnt > 0 => buf = a[Len(a)].val \div 2^((PerWord(w) - 1 - bcnt) * w)

\* The words that the pieces up to the m-th are cut from.
LEMMA PieceAt ==
  ASSUME NEW n \in Nat \ {0}, NEW l \in Nat, NEW k \in 1..n * l
  PROVE  (k - 1) \div n \in 0..l - 1 /\ (k - 1) % n \in 0..n - 1
  <1>1. PICK c \in Nat : c = n * l
    OBVIOUS
  <1>2. k - 1 \in 0..c - 1 /\ k - 1 \in Int
    BY <1>1
  <1>3. l # 0
    <2>1. CASE l = 0
      <3>1. c = 0
        BY <1>1, <2>1
      <3> QED  BY <1>2, <3>1
    <2> QED  BY <2>1
  <1>4. (k - 1) \div n \in Int /\ (k - 1) \div n >= 0 /\ (k - 1) \div n < l
    BY <1>1, <1>2, <1>3, DivBelowProduct
  <1>5. (k - 1) % n \in Int /\ 0 <= (k - 1) % n /\ (k - 1) % n < n
    BY <1>2, DivMod
  <1> QED  BY <1>4, <1>5

\* A value drawn is a natural number.
LEMMA ValuesAreNat == Values \subseteq Nat
  <1>1. Word \in Nat /\ Word \in 0..Word /\ Half \in 0..Word
    BY BitGenAssumption DEF Word
  <1>2. PICK c \in Nat \ {0} : c = 2^Word
    BY <1>1, PowerType
  <1>3. Words \subseteq 0..c - 1
    BY <1>2, BitGenAssumption DEF Words, Word
  <1>4. PICK h \in Nat \ {0} : h = 2^Half
    BY <1>1, PowerType
  <1>5. ASSUME NEW x \in Words  PROVE x \in Nat /\ x % h \in Nat /\ x \div h \in Nat
    <2>1. x \in Nat
      BY <1>2, <1>3
    <2> QED  BY <2>1, DivBelow
  <1> QED  BY <1>4, <1>5 DEF Values

\* A fresh word is drawn when no piece is left.
LEMMA CutFresh ==
  ASSUME NEW w \in Widths, NEW from, NEW a, NEW buf, NEW v, Cut(w, from, a, 0, buf, v),
         NEW x \in Asked, NEW b, b = Append(a, x), NEW bcnt, bcnt = PerWord(w) - 1,
         NEW y, y = x.val % 2^w, NEW u, u = Append(v, y)
  PROVE  Cut(w, from, b, bcnt, x.val, u)
  <1>1. PICK n \in Nat \ {0} : n = PerWord(w)
    BY PerWordType
  <1>2. PICK e \in Nat \ {0} : e = 2^w
    BY PerWordType, PowerType
  <1>3. x.val \in Nat
    BY ValuesAreNat DEF Asked
  <1>4. y \in Nat
    BY <1>2, <1>3
  <1>5. PICK l \in Nat : l = Len(a) - from
    <2>1. PICK i \in Nat : i = Len(a)
      BY DEF Cut
    <2>2. from \in 0..i
      BY <2>1 DEF Cut
    <2>3. i - from \in Nat
      BY <2>2
    <2> QED  BY <2>1, <2>3
  <1>6. /\ a \in Seq(Asked) /\ from \in 0..Len(a) /\ v \in Seq(Nat) /\ Len(v) = n * l
        /\ \A k \in 1..Len(v) : v[k] = Piece(w, from, a, k)
    <2>1. Len(v) + 0 = n * l
      BY <1>1, <1>5 DEF Cut
    <2>2. a \in Seq(Asked) /\ from \in 0..Len(a) /\ v \in Seq(Nat)
      BY DEF Cut
    <2>3. Len(v) \in Nat /\ n * l \in Int
      BY <2>2
    <2> QED  BY <2>1, <2>2, <2>3 DEF Cut
  <1>7. /\ b \in Seq(Asked) /\ Len(b) = Len(a) + 1 /\ b[Len(a) + 1] = x
        /\ \A i \in 1..Len(a) : b[i] = a[i]
    BY <1>6
  <1>8. /\ u \in Seq(Nat) /\ Len(u) = n * l + 1 /\ u[n * l + 1] = y
        /\ \A k \in 1..n * l : u[k] = v[k]
    <2>1. /\ u \in Seq(Nat) /\ Len(u) = Len(v) + 1 /\ u[Len(v) + 1] = y
          /\ \A k \in 1..Len(v) : u[k] = v[k]
      BY <1>4, <1>6
    <2> QED  BY <1>6, <2>1
  <1>9. PICK c \in Nat : c = n * l
    OBVIOUS
  <1>10. ASSUME NEW k \in 1..c  PROVE u[k] = Piece(w, from, b, k)
    <2>1. PICK i, j : i = (k - 1) \div n /\ j = (k - 1) % n
      OBVIOUS
    <2>2. i \in 0..l - 1
      BY <1>9, <2>1, PieceAt
    <2>3. from + i + 1 \in 1..Len(a)
      BY <1>5, <1>6, <2>2
    <2>4. b[from + i + 1] = a[from + i + 1]
      BY <1>7, <2>3
    <2>5. v[k] = PieceOf(w, a[from + i + 1].val, j)
      BY <1>1, <1>6, <1>9, <2>1 DEF Piece
    <2>6. u[k] = v[k]
      BY <1>8, <1>9
    <2> QED  BY <1>1, <2>1, <2>4, <2>5, <2>6 DEF Piece
  <1>11. u[c + 1] = Piece(w, from, b, c + 1)
    <2>1. c = n * l + 0 /\ (c + 1) - 1 = c /\ 0 < n
      BY <1>9
    <2>2. c \div n = l /\ c % n = 0
      <3>1. PICK r \in Int : r = 0
        OBVIOUS
      <3>2. l \in Int /\ c \in Int /\ c = n * l + r /\ 0 <= r /\ r < n
        BY <1>9, <3>1
      <3>3. c \div n = l /\ c % n = r
        BY <3>2, DivModUnique
      <3> QED  BY <3>1, <3>3
    <2>3. b[from + l + 1] = x
      <3>1. from + l + 1 = Len(a) + 1
        BY <1>5, <1>6
      <3> QED  BY <1>7, <3>1
    <2>4. Piece(w, from, b, c + 1) = PieceOf(w, x.val, 0)
      BY <1>1, <2>1, <2>2, <2>3 DEF Piece
    <2>5. 0 * w = 0 /\ 2^0 = 1
      BY PowersAssumption, PerWordType
    <2>6. x.val \div 1 = x.val
      BY <1>3
    <2>7. PieceOf(w, x.val, 0) = x.val % 2^w
      BY <2>5, <2>6 DEF PieceOf
    <2> QED  BY <1>8, <1>9, <2>4, <2>7
  <1>12. \A k \in 1..Len(u) : u[k] = Piece(w, from, b, k)
    BY <1>8, <1>9, <1>10, <1>11
  <1>13. Len(u) + bcnt = n * (Len(b) - from)
    <2>1. Len(b) - from = l + 1
      BY <1>5, <1>6, <1>7
    <2>2. n * (l + 1) = n * l + n
      OBVIOUS
    <2>3. bcnt = n - 1
      BY <1>1
    <2>4. Len(u) = c + 1
      BY <1>8, <1>9
    <2>5. Len(u) + bcnt = c + n
      <3>1. (c + 1) + (n - 1) = c + n
        OBVIOUS
      <3> QED  BY <2>3, <2>4, <3>1
    <2>6. n * (l + 1) = c + n
      BY <1>9, <2>2
    <2> QED  BY <2>1, <2>5, <2>6
  <1>14. bcnt > 0 => x.val = b[Len(b)].val \div 2^((n - 1 - bcnt) * w)
    <2>1. n - 1 - bcnt = 0 /\ 0 * w = 0 /\ 2^0 = 1
      BY <1>1, PowersAssumption, PerWordType
    <2>2. b[Len(b)] = x
      BY <1>7
    <2>3. x.val \div 1 = x.val
      BY <1>3
    <2> QED  BY <2>1, <2>2, <2>3
  <1>15. bcnt \in 0..n - 1 /\ from \in 0..Len(b)
    <2>1. bcnt \in 0..n - 1
      BY <1>1
    <2>2. PICK i \in Nat : i = Len(a)
      BY <1>6
    <2>3. from \in 0..i /\ Len(b) = i + 1
      BY <1>6, <1>7, <2>2
    <2> QED  BY <2>1, <2>3
  <1> QED  BY <1>1, <1>7, <1>8, <1>12, <1>13, <1>14, <1>15 DEF Cut

\* The next piece is cut from what is left of the last word.
LEMMA CutNext ==
  ASSUME NEW w \in Widths, NEW from, NEW a, NEW bcnt, NEW buf, NEW v,
         Cut(w, from, a, bcnt, buf, v), bcnt # 0,
         NEW z, z = buf \div 2^w, NEW y, y = z % 2^w, NEW u, u = Append(v, y)
  PROVE  Cut(w, from, a, bcnt - 1, z, u) /\ y \in 0..2^w - 1
  <1>1. PICK n \in Nat \ {0} : n = PerWord(w)
    BY PerWordType
  <1>2. w \in 1..Word /\ n * w <= Word /\ w \in Nat
    BY <1>1, PerWordType
  <1>3. /\ a \in Seq(Asked) /\ from \in 0..Len(a) /\ v \in Seq(Nat)
        /\ bcnt \in 1..n - 1
        /\ Len(v) + bcnt = n * (Len(a) - from)
        /\ \A k \in 1..Len(v) : v[k] = Piece(w, from, a, k)
        /\ buf = a[Len(a)].val \div 2^((n - 1 - bcnt) * w)
    BY <1>1 DEF Cut
  <1>4. PICK l \in Nat : l = Len(a) - from
    <2>1. PICK i \in Nat : i = Len(a)
      BY <1>3
    <2>2. from \in 0..i
      BY <1>3, <2>1
    <2>3. i - from \in Nat
      BY <2>2
    <2> QED  BY <2>1, <2>3
  <1>5. PICK m \in Nat : m = Len(v)
    BY <1>3
  <1>6. PICK c \in Nat : c = n * l
    OBVIOUS
  <1>7. m + bcnt = c
    BY <1>3, <1>4, <1>5, <1>6
  <1>8. l >= 1
    <2>1. CASE l = 0
      <3>1. c = 0
        BY <1>6, <2>1
      <3> QED  BY <1>3, <1>7, <3>1
    <2> QED  BY <2>1
  <1>9. PICK j \in 1..n - 1 : j = n - bcnt
    BY <1>3
  <1>10. m = n * (l - 1) + j
    <2>1. n * (l - 1) = n * l - n
      OBVIOUS
    <2> QED  BY <1>3, <1>6, <1>7, <1>9, <2>1
  <1>11. Len(a) \in 1..Len(a) /\ a[Len(a)] \in Asked
    BY <1>3, <1>4, <1>8
  <1>12. PICK x \in Nat : x = a[Len(a)].val
    BY <1>11, ValuesAreNat DEF Asked
  <1>13. z = x \div 2^(j * w)
    <2>1. PICK i \in Nat : i = n - 1 - bcnt /\ j = i + 1
      BY <1>3, <1>9
    <2>2. PICK iw, jw \in Nat : iw = i * w /\ jw = j * w
      BY <1>2
    <2>3. jw = iw + w
      BY <1>2, <2>1, <2>2
    <2>4. jw <= Word
      <3>1. w * j <= w * n
        BY <1>2, TimesKeepsOrder
      <3>2. PICK nw \in Int : nw = n * w
        BY <1>2
      <3>3. w * j = jw /\ w * n = nw
        BY <1>2, <2>2, <3>2
      <3>4. Word \in Int
        BY WidthsDiffer
      <3>5. jw <= nw /\ nw <= Word
        BY <1>2, <3>1, <3>2, <3>3
      <3> QED  BY <3>2, <3>4, <3>5
    <2>5. iw \in 0..Word /\ w \in 0..Word - iw /\ Word \in Nat
      BY <1>2, <2>3, <2>4, WidthsDiffer
    <2>6. 2^jw = 2^iw * 2^w
      BY <2>3, <2>5, PowerSum
    <2>7. PICK p, q \in Nat \ {0} : p = 2^iw /\ q = 2^w
      BY <2>5, PowerType
    <2>8. (x \div p) \div q = x \div (p * q)
      <3>1. x \in Int
        OBVIOUS
      <3> QED  BY <3>1, DivDiv
    <2>9. buf = x \div p
      BY <1>3, <1>12, <2>1, <2>2, <2>7
    <2> QED  BY <2>2, <2>6, <2>7, <2>8, <2>9
  <1>14. PICK e \in Nat \ {0} : e = 2^w
    BY <1>2, PowerType
  <1>15. z \in Int /\ y \in Nat /\ y \in 0..e - 1
    <2>1. j * w \in 0..Word
      <3>1. w * j <= w * n
        BY <1>2, TimesKeepsOrder
      <3>2. w * j = j * w /\ w * n = n * w /\ n * w \in Int /\ j * w \in Nat
        BY <1>2
      <3> QED  BY <1>2, <3>1, <3>2, WidthsDiffer
    <2>2. PICK p \in Nat \ {0} : p = 2^(j * w)
      BY <2>1, PowerType
    <2>3. z \in Int
      BY <1>12, <1>13, <2>2
    <2> QED  BY <1>14, <2>3
  <1>16. /\ u \in Seq(Nat) /\ Len(u) = m + 1 /\ u[m + 1] = y
         /\ \A k \in 1..m : u[k] = v[k]
    BY <1>3, <1>5, <1>15
  <1>17. u[m + 1] = Piece(w, from, a, m + 1)
    <2>1. (m + 1) - 1 = m /\ m = n * (l - 1) + j /\ l - 1 \in Int /\ 0 <= j /\ j < n
      BY <1>10
    <2>2. m \div n = l - 1 /\ m % n = j
      <3>1. PICK q \in Int : q = l - 1
        OBVIOUS
      <3>2. m \in Int /\ j \in Int /\ m = n * q + j /\ 0 <= j /\ j < n
        BY <1>10, <3>1
      <3>3. m \div n = q /\ m % n = j
        BY <3>2, DivModUnique
      <3> QED  BY <3>1, <3>3
    <2>3. from + (l - 1) + 1 = Len(a)
      BY <1>3, <1>4
    <2>4. Piece(w, from, a, m + 1) = PieceOf(w, x, j)
      BY <1>1, <1>12, <2>1, <2>2, <2>3 DEF Piece
    <2> QED  BY <1>13, <1>16, <2>4 DEF PieceOf
  <1>18. \A k \in 1..Len(u) : u[k] = Piece(w, from, a, k)
    BY <1>3, <1>5, <1>16, <1>17
  <1>19. Len(u) + (bcnt - 1) = n * (Len(a) - from)
    <2>1. Len(u) + (bcnt - 1) = c
      <3>1. PICK i \in Nat : i = bcnt
        BY <1>3
      <3>2. (m + 1) + (i - 1) = m + i
        OBVIOUS
      <3> QED  BY <1>7, <1>16, <3>1, <3>2
    <2> QED  BY <1>4, <1>6, <2>1
  <1>20. bcnt - 1 > 0 => z = a[Len(a)].val \div 2^((n - 1 - (bcnt - 1)) * w)
    <2>1. n - 1 - (bcnt - 1) = j
      BY <1>3, <1>9
    <2> QED  BY <1>12, <1>13, <2>1
  <1>21. bcnt - 1 \in 0..n - 1
    BY <1>3
  <1>22. Cut(w, from, a, bcnt - 1, z, u)
    BY <1>1, <1>3, <1>16, <1>18, <1>19, <1>20, <1>21 DEF Cut
  <1> QED  BY <1>14, <1>15, <1>22

----------------------------------------------------------------------------
(* The pieces that a generator gives, one after another.                      *)

\* A draw is below the power of two of its width.
LEMMA AskedFits ==
  ASSUME NEW s, Faithful(s), NEW i \in 1..Len(s.asked)
  PROVE  /\ s.asked[i].width = Word => s.asked[i].val \in 0..2^Word - 1
         /\ s.asked[i].width = Half => s.asked[i].val \in 0..2^Half - 1
  <1>1. PICK a \in Seq(Asked), seed \in Seeds : a = s.asked /\ seed = s.seed
    BY DEF Faithful
  <1>2. FollowsStream(a, seed, i) /\ i \in 1..Len(a)
    BY <1>1 DEF Faithful
  <1>3. Word \in Nat /\ Half \in Nat /\ Half \in 0..Word /\ Word \in 0..Word /\ Half + Half = Word
        /\ Half \in 0..Word - Half /\ Word # Half
    BY BitGenAssumption DEF Word
  <1>4. PICK c, h \in Nat \ {0} : c = 2^Word /\ h = 2^Half
    BY <1>3, PowerType
  <1>5. c = h * h
    BY <1>3, <1>4, PowerSum
  <1>6. ASSUME NEW j \in 1..i  PROVE At(seed, Spent(a, j)) \in 0..c - 1
    <2>1. j \in Nat
      OBVIOUS
    <2>2. Spent(a, j) \in Int
      BY <2>1, WideCounts
    <2>3. Words \subseteq 0..c - 1
      BY <1>4, BitGenAssumption DEF Words, Word
    <2> QED  BY <2>2, <2>3, AtIsWord
  <1>7. i \in 1..i
    OBVIOUS
  <1>8. ASSUME a[i].width = Word  PROVE a[i].val \in 0..c - 1
    BY <1>2, <1>3, <1>6, <1>7, <1>8 DEF FollowsStream
  <1>9. ASSUME a[i].width = Half  PROVE a[i].val \in 0..h - 1
    <2>1. CASE a[i].val = At(seed, Spent(a, i)) % 2^Half
      <3>1. PICK x \in 0..c - 1 : x = At(seed, Spent(a, i))
        BY <1>6, <1>7
      <3>2. a[i].val = x % h
        BY <1>4, <2>1, <3>1
      <3>3. x % h \in 0..h - 1
        BY <1>4
      <3> QED  BY <3>2, <3>3
    <2>2. CASE \E j \in 1..i : a[i].val = At(seed, Spent(a, j)) \div 2^Half
      <3>1. PICK j \in 1..i : a[i].val = At(seed, Spent(a, j)) \div 2^Half
        BY <2>2
      <3>2. PICK x \in 0..c - 1 : x = At(seed, Spent(a, j))
        BY <1>6
      <3>3. a[i].val = x \div h
        BY <1>4, <3>1, <3>2
      <3>4. x \div h \in Int /\ x \div h >= 0 /\ x \div h < h
        BY <1>5, DivBelowProduct
      <3> QED  BY <3>3, <3>4
    <2> QED  BY <1>2, <1>3, <1>9, <2>1, <2>2 DEF FollowsStream
  <1> QED  BY <1>1, <1>4, <1>8, <1>9

\* From s to t the words asked for grow by x, and x is the value drawn.
Asks(w, s, t, x) ==
    /\ x \in Asked /\ x.width = w /\ x.val \in 0..2^w - 1
    /\ t.asked = Append(s.asked, x) /\ t.val = x.val /\ t.bcnt = s.bcnt /\ t.buf = s.buf

LEMMA WordAsked ==
  ASSUME NEW s, Faithful(s), NEW w, NEW t,
         \/ w = Word /\ t = next_u64(s)
         \/ w = Half /\ t = next_u32(s)
  PROVE  \E x : Asks(w, s, t, x)
  <1>1. PICK seed, pos, has, half : /\ seed = s.seed /\ pos = s.pos
                                    /\ has = s.has /\ half = s.half
    OBVIOUS
  <1>2. PICK bcnt, buf, val, a : /\ bcnt = s.bcnt /\ buf = s.buf /\ val = s.val
                                 /\ a = s.asked /\ a \in Seq(Asked)
    BY DEF Faithful
  <1>3. s = State(seed, pos, has, half, bcnt, buf, val, a)
    BY <1>1, <1>2, ShapedState DEF Faithful
  <1>4. Faithful(t)
    BY Draw64Faithful, Draw32Faithful
  <1>5. PICK p1, h1, f1, x, b : /\ x.width = w /\ b = Append(a, x)
                                /\ t = State(seed, p1, h1, f1, bcnt, buf, x.val, b)
    <2>1. CASE w = Word /\ t = next_u64(s)
      <3>1. PICK v, p : v = Stream[seed][pos] /\ p = (pos + 1) % Period
        OBVIOUS
      <3>2. PICK x : x = [width |-> Word, val |-> v]
        OBVIOUS
      <3>3. x.width = w /\ x.val = v
        BY <2>1, <3>2
      <3>4. PICK b : b = Append(a, x)
        OBVIOUS
      <3>5. t = State(seed, p, has, half, bcnt, buf, v, b)
        BY <1>3, <2>1, <3>1, <3>2, <3>4, U64Fields
      <3> QED  BY <3>3, <3>4, <3>5
    <2>2. CASE w = Half /\ t = next_u32(s) /\ has
      <3>1. PICK x : x = [width |-> Half, val |-> half]
        OBVIOUS
      <3>2. x.width = w /\ x.val = half
        BY <2>2, <3>1
      <3>3. PICK b : b = Append(a, x)
        OBVIOUS
      <3>4. has = TRUE
        BY <1>1, <2>2 DEF Faithful
      <3>5. GivesTheHalf(seed, pos, half, bcnt, buf, val, a, b)
        <4>1. b = Append(a, [width |-> Half, val |-> half])
          BY <3>1, <3>3
        <4> QED  BY <4>1, U32Kept
      <3>6. t = State(seed, pos, FALSE, half, bcnt, buf, half, b)
        <4>1. t = next_u32(State(seed, pos, TRUE, half, bcnt, buf, val, a))
          BY <1>3, <2>2, <3>4
        <4> QED  BY <3>5, <4>1 DEF GivesTheHalf
      <3> QED  BY <3>2, <3>3, <3>6
    <2>3. CASE w = Half /\ t = next_u32(s) /\ ~has
      <3>1. PICK v, p : v = Stream[seed][pos] /\ p = (pos + 1) % Period
        OBVIOUS
      <3>2. PICK lo, hi : lo = v % 2^Half /\ hi = v \div 2^Half
        OBVIOUS
      <3>3. PICK x : x = [width |-> Half, val |-> lo]
        OBVIOUS
      <3>4. x.width = w /\ x.val = lo
        BY <2>3, <3>3
      <3>5. PICK b : b = Append(a, x)
        OBVIOUS
      <3>6. has = FALSE
        BY <1>1, <2>3 DEF Faithful
      <3>7. t = State(seed, p, TRUE, hi, bcnt, buf, lo, b)
        <4>1. t = next_u32(State(seed, pos, FALSE, half, bcnt, buf, val, a))
          BY <1>3, <2>3, <3>6
        <4>2. next_u32(State(seed, pos, FALSE, half, bcnt, buf, val, a))
                = State(seed, p, TRUE, hi, bcnt, buf, lo, b)
          BY <3>1, <3>2, <3>3, <3>5 DEF next_u32, State
        <4> QED  BY <4>1, <4>2
      <3> QED  BY <3>4, <3>5, <3>7
    <2> QED  BY <2>1, <2>2, <2>3
  <1>6. t.asked = b /\ t.val = x.val /\ t.bcnt = bcnt /\ t.buf = buf
    BY <1>5 DEF State
  <1>7. PICK n \in Nat : n = Len(a)
    BY <1>2
  <1>8. Len(b) = n + 1 /\ b[n + 1] = x
    <2>1. PICK y : y = x
      OBVIOUS
    <2>2. b = Append(a, y) /\ a \in Seq(Asked \union {y})
      BY <1>2, <1>5, <2>1
    <2>3. Len(b) = Len(a) + 1 /\ b[Len(a) + 1] = y
      BY <2>2
    <2> QED  BY <1>7, <2>1, <2>3
  <1>9. n + 1 \in 1..Len(t.asked) /\ t.asked[n + 1] = x
    BY <1>6, <1>7, <1>8
  <1>10. x \in Asked
    <2>1. t.asked \in Seq(Asked)
      BY <1>4 DEF Faithful
    <2> QED  BY <1>9, <2>1
  <1>11. x.val \in 0..2^w - 1
    <2>1. /\ x.width = Word => x.val \in 0..2^Word - 1
          /\ x.width = Half => x.val \in 0..2^Half - 1
      BY <1>4, <1>9, AskedFits
    <2> QED  BY <1>5, <2>1
  <1> QED  BY <1>2, <1>5, <1>6, <1>10, <1>11 DEF Asks

\* A generator whose call, from a draw on, has given the pieces v.
Drawing(w, from, s, v) == Faithful(s) /\ Cut(w, from, s.asked, s.bcnt, s.buf, v)

LEMMA DrawCuts ==
  ASSUME NEW w \in Widths, NEW from, NEW s, NEW v, Drawing(w, from, s, v),
         NEW t, t = Draw(w, s)
  PROVE  t.val \in 0..2^w - 1 /\ Drawing(w, from, t, Append(v, t.val))
  <1>1. Faithful(s) /\ Faithful(t) /\ Cut(w, from, s.asked, s.bcnt, s.buf, v)
    BY DrawFaithful DEF Drawing
  <1>2. w \in Nat /\ (w < Half \/ w \in {Word, Half})
    <2>1. w \in 1..Word /\ Half \in Nat /\ Word \in Nat
      BY PerWordType, WidthsDiffer
    <2> QED  BY <2>1, PerWordType
  <1>3. PICK e \in Nat \ {0} : e = 2^w
    BY PerWordType, PowerType
  <1>4. CASE w \in {Word, Half}
    <2>1. \/ w = Word /\ t = next_u64(s)
          \/ w = Half /\ t = next_u32(s)
      BY <1>4, WidthsDiffer DEF Draw
    <2>2. PICK x : Asks(w, s, t, x)
      BY <1>1, <2>1, WordAsked
    <2>3. /\ x \in Asked /\ x.val \in 0..e - 1
          /\ t.asked = Append(s.asked, x) /\ t.val = x.val /\ t.bcnt = s.bcnt
      BY <1>3, <2>2 DEF Asks
    <2>4. PerWord(w) = 1
      <3>1. w >= Half
        BY <1>4, BitGenAssumption DEF Word
      <3> QED  BY <3>1, PerWordType
    <2>5. s.bcnt = 0
      BY <1>1, <2>4 DEF Cut
    <2>6. PICK y : y = x.val % 2^w
      OBVIOUS
    <2>7. y = x.val
      <3>1. PICK i \in 0..e - 1 : i = x.val
        BY <2>3
      <3>2. i % e = i
        OBVIOUS
      <3> QED  BY <1>3, <2>6, <3>1, <3>2
    <2>8. PICK a, b, buf, u : a = s.asked /\ b = t.asked /\ buf = s.buf /\ u = Append(v, y)
      OBVIOUS
    <2>9. PICK left : left = PerWord(w) - 1
      OBVIOUS
    <2>10. Cut(w, from, a, 0, buf, v) /\ b = Append(a, x)
      BY <1>1, <2>3, <2>5, <2>8
    <2>11. Cut(w, from, b, left, x.val, u)
      <3>1. x \in Asked
        BY <2>3
      <3>2. Cut(w, from, a, 0, buf, v)
        BY <2>10
      <3>3. b = Append(a, x)
        BY <2>10
      <3>4. u = Append(v, y)
        BY <2>8
      <3> QED  BY <2>6, <2>9, <3>1, <3>2, <3>3, <3>4, CutFresh
    <2>12. left = 0 /\ t.bcnt = 0
      BY <2>3, <2>4, <2>5, <2>9
    <2>13. Cut(w, from, b, 0, t.buf, u)
      BY <2>11, <2>12 DEF Cut
    <2>14. u = Append(v, t.val)
      BY <2>3, <2>7, <2>8
    <2> QED  BY <1>1, <1>3, <2>3, <2>8, <2>12, <2>13, <2>14 DEF Drawing
  <1>5. CASE w < Half
    <2>1. w # Word /\ w # Half /\ PerWord(w) = Half \div w
      BY <1>5, PerWordType
    <2>2. t = buffered(w, s)
      BY <2>1 DEF Draw
    <2>3. CASE s.bcnt = 0
      <3>1. PICK r : r = next_u32(s)
        OBVIOUS
      <3>2. PICK x : Asks(Half, s, r, x)
        BY <1>1, <3>1, WordAsked
      <3>3. x \in Asked /\ r.asked = Append(s.asked, x) /\ r.val = x.val
        BY <3>2 DEF Asks
      <3>4. PICK y, left : y = x.val % 2^w /\ left = (Half \div w) - 1
        OBVIOUS
      <3>5. PICK h : h = x.val
        OBVIOUS
      <3>6. t = Rebuffered(r, h, left, y)
        BY <2>2, <2>3, <3>1, <3>3, <3>4, <3>5 DEF buffered, Rebuffered
      <3>7. Shaped(r)
        BY <1>1, <3>1, Draw32Faithful DEF Faithful
      <3>8. t = State(r.seed, r.pos, r.has, r.half, left, h, y, r.asked)
        BY <3>6, <3>7, RestExcept
      <3>9. t.asked = r.asked /\ t.bcnt = left /\ t.buf = h /\ t.val = y
        BY <3>8 DEF State
      <3>10. PICK a, b, buf, u : a = s.asked /\ b = t.asked /\ buf = s.buf /\ u = Append(v, y)
        OBVIOUS
      <3>11. Cut(w, from, a, 0, buf, v) /\ b = Append(a, x) /\ left = PerWord(w) - 1
        BY <1>1, <2>1, <2>3, <3>3, <3>4, <3>9, <3>10
      <3>12. Cut(w, from, b, left, x.val, u)
        <4>1. x \in Asked
          BY <3>3
        <4>2. Cut(w, from, a, 0, buf, v)
          BY <3>11
        <4>3. b = Append(a, x)
          BY <3>11
        <4>4. u = Append(v, y)
          BY <3>10
        <4>5. left = PerWord(w) - 1
          BY <3>11
        <4>6. y = x.val % 2^w
          BY <3>4
        <4> QED  BY <4>1, <4>2, <4>3, <4>4, <4>5, <4>6, CutFresh
      <3>13. Drawing(w, from, t, u) /\ u = Append(v, t.val)
        BY <1>1, <3>5, <3>9, <3>10, <3>12 DEF Drawing
      <3>14. t.val \in 0..e - 1
        <4>1. x.val \in Nat
          BY <3>3, ValuesAreNat DEF Asked
        <4>2. t.val = x.val % e
          BY <1>3, <3>4, <3>9
        <4> QED  BY <4>1, <4>2
      <3> QED  BY <1>3, <3>13, <3>14
    <2>4. CASE s.bcnt # 0
      <3>1. PICK z : z = s.buf \div 2^w
        OBVIOUS
      <3>2. PICK y, left : y = z % 2^w /\ left = s.bcnt - 1
        OBVIOUS
      <3>3. t = Rebuffered(s, z, left, y)
        BY <2>2, <2>4, <3>1, <3>2 DEF buffered, Rebuffered
      <3>4. Shaped(s)
        BY <1>1 DEF Faithful
      <3>5. t = State(s.seed, s.pos, s.has, s.half, left, z, y, s.asked)
        BY <3>3, <3>4, RestExcept
      <3>6. t.asked = s.asked /\ t.bcnt = left /\ t.buf = z /\ t.val = y
        BY <3>5 DEF State
      <3>7. PICK a, bcnt, buf, u : a = s.asked /\ bcnt = s.bcnt /\ buf = s.buf /\ u = Append(v, y)
        OBVIOUS
      <3>8. Cut(w, from, a, bcnt, buf, v) /\ bcnt # 0 /\ z = buf \div 2^w
        BY <1>1, <2>4, <3>1, <3>7
      <3>9. Cut(w, from, a, bcnt - 1, z, u) /\ y \in 0..2^w - 1
        BY <3>2, <3>7, <3>8, CutNext
      <3>10. Drawing(w, from, t, u) /\ u = Append(v, t.val)
        BY <1>1, <3>2, <3>6, <3>7, <3>9 DEF Drawing
      <3> QED  BY <3>6, <3>9, <3>10
    <2> QED  BY <2>3, <2>4
  <1> QED  BY <1>2, <1>4, <1>5

----------------------------------------------------------------------------
(* What a bounded draw keeps of the pieces.                                   *)

\* The draws of a loop that give a piece of T.
Hits(w, s, T) == {k \in 1..Tries : InARow(w, s)[k].val \in T}

\* The first piece that a loop keeps: those before it are not of T.
LEMMA FirstDrawn ==
  ASSUME NEW w \in Widths, NEW from, NEW s, NEW v, Drawing(w, from, s, v), NEW T,
         NEW K, K = Hits(w, s, T), K # {},
         NEW t, t = InARow(w, s)[Min(K)]
  PROVE  /\ t.val \in T /\ t.val \in 0..2^w - 1
         /\ \E u \in Seq(Nat) : KeptOf(u, T) = KeptOf(v, T) /\ Drawing(w, from, t, Append(u, t.val))
  <1>1. PICK c : c = InARow(w, s)
    OBVIOUS
  <1>2. \A k \in 0..Tries : c[k] = IF k = 0 THEN s ELSE Draw(w, c[k - 1])
    BY <1>1, InARowChain
  <1>3. Tries \in Nat /\ K \subseteq Nat
    BY BitGenAssumption DEF Hits
  <1>4. PICK m : m \in K /\ m = Min(K) /\ \A x \in K : m <= x
    <2>1. PICK i \in K : \A x \in K : i <= x
      BY <1>3, Least
    <2>2. Min(K) \in K /\ \A x \in K : Min(K) <= x
      BY <1>3, <2>1 DEF Min
    <2> QED  BY <2>2
  <1>5. m \in 1..Tries /\ t = c[m] /\ t.val \in T
    BY <1>1, <1>4 DEF Hits
  <1> DEFINE Passed(k, u) == u \in Seq(Nat) /\ KeptOf(u, T) = KeptOf(v, T) /\ Drawing(w, from, c[k], u)
             U == {k \in 0..m - 1 : \E u : Passed(k, u)}
  <1>6. 0 \in U
    <2>1. c[0] = s /\ v \in Seq(Nat)
      BY <1>2, <1>3 DEF Drawing, Cut
    <2>2. Passed(0, v)
      BY <2>1
    <2> HIDE DEF Passed
    <2> QED  BY <1>5, <2>2
  <1>7. ASSUME NEW k \in 0..(m - 1) - 1, k \in U
        PROVE  k + 1 \in U
    <2>1. PICK u : Passed(k, u)
      <3> HIDE DEF Passed
      <3> QED  BY <1>7
    <2>2. /\ k + 1 \in 0..m - 1 /\ k + 1 \in 1..Tries /\ k + 1 \in 0..Tries /\ k + 1 # 0
          /\ (k + 1) - 1 = k /\ ~(m <= k + 1)
      <3>1. PICK i, N \in Nat : i = m /\ N = Tries /\ i <= N
        BY <1>3, <1>5
      <3>2. k \in 0..(i - 1) - 1
        BY <3>1
      <3> QED  BY <3>1, <3>2
    <2>3. PICK r : r = c[k + 1]
      OBVIOUS
    <2>4. r = Draw(w, c[k])
      BY <1>2, <2>2, <2>3
    <2>5. k + 1 \notin K
      BY <1>4, <2>2
    <2>6. r.val \notin T
      BY <1>1, <2>2, <2>3, <2>5 DEF Hits
    <2>7. r.val \in 0..2^w - 1 /\ Drawing(w, from, r, Append(u, r.val))
      <3>1. PICK q : q = c[k]
        OBVIOUS
      <3>2. Drawing(w, from, q, u) /\ r = Draw(w, q)
        BY <2>1, <2>4, <3>1
      <3> QED  BY <3>2, DrawCuts
    <2>8. PICK y, n : y = r.val /\ n = Append(u, r.val)
      OBVIOUS
    <2>9. y \in Nat /\ u \in Seq(Nat) /\ n = Append(u, y)
      <3>1. PICK e \in Nat \ {0} : e = 2^w
        BY PerWordType, PowerType
      <3> QED  BY <2>1, <2>7, <2>8, <3>1
    <2>10. KeptOf(n, T) = IF y \in T THEN Append(KeptOf(u, T), y) ELSE KeptOf(u, T)
      <3>1. y \in Nat
        BY <2>9
      <3>2. u \in Seq(Nat)
        BY <2>9
      <3>3. n = Append(u, y)
        BY <2>9
      <3> QED  BY <3>1, <3>2, <3>3, KeptOneMore
    <2>11. KeptOf(n, T) = KeptOf(v, T)
      BY <2>1, <2>6, <2>8, <2>10
    <2>12. n \in Seq(Nat)
      BY <2>9
    <2>13. Passed(k + 1, n)
      BY <2>3, <2>7, <2>8, <2>11, <2>12
    <2> HIDE DEF Passed
    <2> QED  BY <2>2, <2>13
  <1>8. U = 0..m - 1
    <2> HIDE DEF U
    <2>1. U \in SUBSET (0..m - 1)
      BY DEF U
    <2>2. PICK l \in Nat : l = m - 1
      BY <1>5
    <2> QED  BY <1>6, <1>7, <2>1, <2>2, UpTo
  <1>9. PICK u : Passed(m - 1, u)
    <2>1. m - 1 \in U
      <3> HIDE DEF U
      <3> QED  BY <1>5, <1>8
    <2> HIDE DEF Passed
    <2> QED  BY <2>1
  <1>10. t = Draw(w, c[m - 1])
    BY <1>2, <1>5
  <1>11. t.val \in 0..2^w - 1 /\ Drawing(w, from, t, Append(u, t.val))
    <2>1. PICK q : q = c[m - 1]
      OBVIOUS
    <2>2. Drawing(w, from, q, u) /\ t = Draw(w, q)
      BY <1>9, <1>10, <2>1
    <2> QED  BY <2>2, DrawCuts
  <1> QED  BY <1>5, <1>9, <1>11

LEMMA RowValues ==
  ASSUME NEW w \in Widths, NEW from, NEW s, NEW v, Drawing(w, from, s, v)
  PROVE  \A k \in 1..Tries : InARow(w, s)[k].val \in 0..2^w - 1
  <1>1. PICK c : c = InARow(w, s)
    OBVIOUS
  <1>2. \A k \in 0..Tries : c[k] = IF k = 0 THEN s ELSE Draw(w, c[k - 1])
    BY <1>1, InARowChain
  <1>3. Tries \in Nat
    BY BitGenAssumption
  <1> DEFINE Sound(k) == \E u : Drawing(w, from, c[k], u)
             U == {k \in 0..Tries : Sound(k)}
  <1>4. ASSUME NEW k \in 0..Tries - 1, Sound(k)
        PROVE  c[k + 1].val \in 0..2^w - 1 /\ Sound(k + 1)
    <2>1. PICK u : Drawing(w, from, c[k], u)
      BY <1>4
    <2>2. k + 1 \in 0..Tries /\ k + 1 # 0 /\ (k + 1) - 1 = k
      BY <1>3
    <2>3. PICK q, r : q = c[k] /\ r = c[k + 1]
      OBVIOUS
    <2>4. r = Draw(w, q)
      BY <1>2, <2>2, <2>3
    <2>5. Drawing(w, from, q, u)
      BY <2>1, <2>3
    <2>6. r.val \in 0..2^w - 1 /\ Drawing(w, from, r, Append(u, r.val))
      BY <2>4, <2>5, DrawCuts
    <2> QED  BY <2>3, <2>6
  <1>5. 0 \in U
    <2>1. c[0] = s
      BY <1>2, <1>3
    <2>2. Sound(0)
      BY <2>1
    <2> HIDE DEF Sound
    <2> QED  BY <1>3, <2>2
  <1>6. ASSUME NEW k \in 0..Tries - 1, k \in U  PROVE k + 1 \in U
    <2> HIDE DEF Sound
    <2> QED  BY <1>3, <1>4, <1>6
  <1>7. U = 0..Tries
    <2> HIDE DEF U
    <2>1. U \in SUBSET (0..Tries)
      BY DEF U
    <2> QED  BY <1>3, <1>5, <1>6, <2>1, UpTo
  <1>8. ASSUME NEW k \in 1..Tries  PROVE c[k].val \in 0..2^w - 1
    <2>1. k - 1 \in 0..Tries - 1 /\ k - 1 \in 0..Tries /\ (k - 1) + 1 = k
      BY <1>3
    <2>2. Sound(k - 1)
      <3> HIDE DEF Sound
      <3> QED  BY <1>7, <2>1
    <2> HIDE DEF Sound
    <2> QED  BY <1>4, <2>1, <2>2
  <1> QED  BY <1>1, <1>8

LEMMA DrawingValued ==
  ASSUME NEW w, NEW from, NEW s, NEW v, Drawing(w, from, s, v), NEW y, NEW t, t = Valued(s, y)
  PROVE  Drawing(w, from, t, v) /\ t.val = y
  <1>1. Faithful(t) /\ t.val = y /\ Shaped(s)
    BY WritesFaithful DEF Drawing, Faithful
  <1>2. t = State(s.seed, s.pos, s.has, s.half, s.bcnt, s.buf, y, s.asked)
    BY <1>1, RestExcept
  <1>3. t.asked = s.asked /\ t.bcnt = s.bcnt /\ t.buf = s.buf
    BY <1>2 DEF State
  <1> QED  BY <1>1, <1>3 DEF Drawing

\* The width drawn for a range, the pieces that the range leaves over removed, and the
\* place that a piece has in the range.
DrawWidth(W, rng) == IF W = Word /\ rng < 2^Half THEN Half ELSE W
UsableOf(w, rng) ==
    {x \in 0..2^w - 1 : rng = 2^w - 1 \/ (x * (rng + 1)) % 2^w >= 2^w % (rng + 1)}
InRange(w, rng, x) == IF rng = 2^w - 1 THEN x ELSE (x * (rng + 1)) \div 2^w

LEMMA UsableIs ==
  ASSUME NEW w \in Widths, NEW rng \in 1..2^w - 2, NEW x \in 0..2^w - 1
  PROVE  x \in UsableOf(w, rng) <=> ~RejectedByLemire(w, rng, x)
  <1>1. PICK n \in Nat \ {0} : n = 2^w
    BY PerWordType, PowerType
  <1>2. rng \in 1..n - 2
    BY <1>1
  <1>3. PICK b \in Nat \ {0} : b = rng + 1 /\ b <= n - 1 /\ n - 1 - rng = n - b
    BY <1>2
  <1>4. PICK q, t : q = n \div b /\ t = n % b
    OBVIOUS
  <1>5. q \in Int /\ t \in Int /\ n = b * q + t /\ 0 <= t /\ t < b
    BY <1>4, DivMod
  <1>6. (n - b) % b = t
    <2>1. PICK p \in Int : p = q - 1
      BY <1>5
    <2>2. n - b = b * p + t
      <3>1. b * (q - 1) = b * q - b /\ b * q \in Int
        BY <1>5
      <3> QED  BY <1>5, <2>1, <3>1
    <2>3. (b * p + t) % b = t
      BY <1>5, DivModUnique
    <2> QED  BY <2>2, <2>3
  <1>7. x * b \in Int
    BY <1>1
  <1>8. PICK m \in Int : m = (x * b) % n
    BY <1>7
  <1>9. RejectedByLemire(w, rng, x) <=> m < b /\ m < t
    BY <1>1, <1>3, <1>6, <1>8 DEF RejectedByLemire
  <1>10. x \in UsableOf(w, rng) <=> m >= t
    <2>1. rng # 2^w - 1
      BY <1>1, <1>2
    <2> QED  BY <1>1, <1>3, <1>4, <1>8, <2>1 DEF UsableOf
  <1> QED  BY <1>5, <1>8, <1>9, <1>10

\* One more piece is kept, and answered.
OneKept(W, off, rng, w, from, v, T, t) ==
    \E u \in Seq(Nat), x \in T :
       /\ KeptOf(u, T) = KeptOf(v, T) /\ Drawing(w, from, t, Append(u, x))
       /\ t.val = (off + InRange(w, rng, x)) % 2^W

\* A draw from a range is given up or keeps one piece.
LEMMA BoundedGives ==
  ASSUME NEW W \in Widths, NEW off \in Int, NEW rng, NEW w, w = DrawWidth(W, rng),
         rng \in 1..2^w - 1, NEW from, NEW s, NEW v, Drawing(w, from, s, v),
         NEW T, T = UsableOf(w, rng), NEW t, t = bounded(W, off, rng, s), t.val # NoValue
  PROVE  OneKept(W, off, rng, w, from, v, T, t)
  <1>1. w \in Widths
    BY DEF DrawWidth, Widths
  <1>2. PICK n \in Nat \ {0} : n = 2^w
    BY <1>1, PerWordType, PowerType
  <1>3. rng \in Int /\ rng >= 1 /\ rng <= n - 1
    BY <1>2
  <1>4. PICK r : r = IF rng = 2^w - 1 THEN Draw(w, s) ELSE lemire(w, rng, s)
    OBVIOUS
  <1>5. PICK z : z = (off + r.val) % 2^W
    OBVIOUS
  <1>6. t = IF r.val = NoValue THEN r ELSE Valued(r, z)
    <2>1. rng # 0
      BY <1>3
    <2>2. CASE rng = 2^w - 1
      BY <1>4, <1>5, <2>1, <2>2 DEF bounded, OfVal, Valued, DrawWidth
    <2>3. CASE rng # 2^w - 1
      BY <1>4, <1>5, <2>1, <2>3 DEF bounded, OfVal, Valued, DrawWidth
    <2> QED  BY <2>2, <2>3
  <1>7. r.val # NoValue /\ t = Valued(r, z)
    BY <1>6
  <1>8. \E u \in Seq(Nat), x \in T :
           /\ KeptOf(u, T) = KeptOf(v, T) /\ Drawing(w, from, r, Append(u, x))
           /\ r.val = InRange(w, rng, x)
    <2>1. CASE rng = 2^w - 1
      <3>1. r = Draw(w, s)
        BY <1>4, <2>1
      <3>2. r.val \in 0..2^w - 1 /\ Drawing(w, from, r, Append(v, r.val))
        BY <1>1, <3>1, DrawCuts
      <3>3. r.val \in T /\ InRange(w, rng, r.val) = r.val
        BY <2>1, <3>2 DEF UsableOf, InRange
      <3>4. v \in Seq(Nat)
        BY DEF Drawing, Cut
      <3> QED  BY <3>2, <3>3, <3>4
    <2>2. CASE rng # 2^w - 1
      <3>1. PICK K : K = {k \in 1..Tries : ~RejectedByLemire(w, rng, InARow(w, s)[k].val)}
        OBVIOUS
      <3>2. PICK q : q = Kept(w, s, K)
        OBVIOUS
      <3>3. PICK y : y = Scaled(w, rng, q.val)
        OBVIOUS
      <3>4. r = IF q.val = NoValue THEN q ELSE Valued(q, y)
        BY <1>4, <2>2, <3>1, <3>2, <3>3 DEF lemire, FirstKept, OfVal, Kept, Valued
      <3>5. K # {}
        <4>1. CASE K = {}
          <5>1. PICK p : p = InARow(w, s)[Tries]
            OBVIOUS
          <5>2. Faithful(p)
            <6>1. Faithful(s) /\ Tries \in 0..Tries
              BY BitGenAssumption DEF Drawing
            <6> QED  BY <5>1, <6>1, InARowFaithful
          <5>3. q = Valued(p, NoValue)
            BY <3>2, <4>1, <5>1 DEF Kept
          <5>4. q.val = NoValue
            BY <5>2, <5>3, WritesFaithful
          <5> QED  BY <1>7, <3>4, <5>4
        <4> QED  BY <4>1
      <3>6. q = InARow(w, s)[Min(K)]
        BY <3>2, <3>5 DEF Kept
      <3>7. K = Hits(w, s, T)
        <4>1. rng \in 1..2^w - 2
          BY <1>2, <1>3, <2>2
        <4>2. ASSUME NEW k \in 1..Tries
              PROVE  ~RejectedByLemire(w, rng, InARow(w, s)[k].val) <=> InARow(w, s)[k].val \in T
          <5>1. PICK i : i = InARow(w, s)[k].val
            OBVIOUS
          <5>2. i \in 0..2^w - 1
            BY <1>1, <5>1, RowValues
          <5>3. i \in UsableOf(w, rng) <=> ~RejectedByLemire(w, rng, i)
            BY <1>1, <4>1, <5>2, UsableIs
          <5> QED  BY <5>1, <5>3
        <4> QED  BY <3>1, <4>2 DEF Hits
      <3>8. /\ q.val \in T /\ q.val \in 0..2^w - 1
            /\ \E u \in Seq(Nat) : /\ KeptOf(u, T) = KeptOf(v, T)
                                   /\ Drawing(w, from, q, Append(u, q.val))
        BY <1>1, <3>5, <3>6, <3>7, FirstDrawn
      <3>9. PICK u \in Seq(Nat) : KeptOf(u, T) = KeptOf(v, T) /\ Drawing(w, from, q, Append(u, q.val))
        BY <3>8
      <3>10. PICK x : x = q.val
        OBVIOUS
      <3>11. x # NoValue
        BY <1>2, <3>8, <3>10 DEF NoValue
      <3>12. r = Valued(q, y)
        BY <3>4, <3>10, <3>11
      <3>13. PICK g : g = Append(u, x)
        OBVIOUS
      <3>14. Drawing(w, from, q, g)
        BY <3>9, <3>10, <3>13
      <3>15. Drawing(w, from, r, g) /\ r.val = y
        BY <3>12, <3>14, DrawingValued
      <3>16. y = InRange(w, rng, x)
        BY <2>2, <3>3, <3>10 DEF InRange, Scaled
      <3> QED  BY <3>8, <3>9, <3>10, <3>13, <3>15, <3>16
    <2> QED  BY <2>1, <2>2
  <1>9. PICK u \in Seq(Nat), x \in T :
           /\ KeptOf(u, T) = KeptOf(v, T) /\ Drawing(w, from, r, Append(u, x))
           /\ r.val = InRange(w, rng, x)
    BY <1>8
  <1>10. PICK g : g = Append(u, x)
    OBVIOUS
  <1>11. Drawing(w, from, t, g) /\ t.val = z
    <2>1. Drawing(w, from, r, g)
      BY <1>9, <1>10
    <2> QED  BY <1>7, <2>1, DrawingValued
  <1> QED  BY <1>5, <1>9, <1>10, <1>11 DEF OneKept

----------------------------------------------------------------------------
(* Bounded draws one after another.                                           *)

\* The call has kept j pieces, and the last piece drawn was kept.
KeptSoFar(w, from, T, j, s, v) ==
    /\ Drawing(w, from, s, v) /\ Len(KeptOf(v, T)) = j
    /\ j > 0 => \E u \in Seq(Nat), x \in T : v = Append(u, x) /\ Len(KeptOf(u, T)) = j - 1

\* The answers are the pieces kept, each at its place in the range.
AnswersOf(W, off, w, rng, out, j, kept) ==
    \A k \in 1..j : out[k] = (off + InRange(w, rng, kept[k])) % 2^W

LEMMA PieceKept ==
  ASSUME NEW u, u \in Seq(Nat), NEW x, x \in Nat, NEW T, x \in T
  PROVE  KeptOf(Append(u, x), T) = Append(KeptOf(u, T), x)
  <1>1. PICK g : g = Append(u, x)
    OBVIOUS
  <1>2. PICK V : V = Nat
    OBVIOUS
  <1>3. u \in Seq(V) /\ x \in V
    BY <1>2
  <1>4. KeptOf(g, T) = IF x \in T THEN Append(KeptOf(u, T), x) ELSE KeptOf(u, T)
    BY ONLY <1>1, <1>3, KeptOneMore
  <1> QED  BY <1>1, <1>4

LEMMA NothingKept == ASSUME NEW T PROVE KeptOf(<<>>, T) = <<>>
  <1>1. PICK s : s = <<>>
    OBVIOUS
  <1>2. Len(s) = 0
    BY <1>1
  <1>3. PICK f : Keeping(f, s, T) /\ KeptOf(s, T) = f[Len(s)]
    BY <1>2, KeptChain
  <1> QED  BY <1>1, <1>2, <1>3 DEF Keeping

LEMMA DrawingStarts ==
  ASSUME NEW w \in Widths, NEW s, Faithful(s), s.bcnt = 0, NEW T, NEW from, from = Len(s.asked)
  PROVE  KeptSoFar(w, from, T, 0, s, <<>>)
  <1>1. PICK n \in Nat \ {0} : n = PerWord(w)
    BY PerWordType
  <1>2. PICK a \in Seq(Asked) : a = s.asked
    BY DEF Faithful
  <1>3. PICK l \in Nat : l = Len(a)
    OBVIOUS
  <1>4. from \in 0..Len(a) /\ Len(a) - from = 0
    BY <1>2, <1>3
  <1>5. n * 0 = 0 /\ 0 \in 0..n - 1
    OBVIOUS
  <1>6. PICK v : v = <<>>
    OBVIOUS
  <1>7. Len(v) = 0 /\ v \in Seq(Nat)
    BY <1>6
  <1>8. Cut(w, from, a, 0, s.buf, v)
    BY <1>1, <1>4, <1>5, <1>7 DEF Cut
  <1>9. Drawing(w, from, s, v)
    BY <1>2, <1>8 DEF Drawing
  <1>10. Len(KeptOf(v, T)) = 0
    BY <1>6, NothingKept
  <1> QED  BY <1>6, <1>9, <1>10 DEF KeptSoFar

LEMMA BoundedKeeps ==
  ASSUME NEW W \in Widths, NEW off \in Int, NEW rng, NEW w, w = DrawWidth(W, rng),
         rng \in 1..2^w - 1, NEW from, NEW T, T = UsableOf(w, rng),
         NEW j \in Nat, NEW s, NEW v, KeptSoFar(w, from, T, j, s, v),
         NEW t, t = bounded(W, off, rng, s), t.val # NoValue,
         NEW out, NEW V, out \in Seq(V), Len(out) = j,
         AnswersOf(W, off, w, rng, out, j, KeptOf(v, T)),
         NEW more, more = Append(out, t.val)
  PROVE  \E u : /\ KeptSoFar(w, from, T, j + 1, t, u)
                /\ AnswersOf(W, off, w, rng, more, j + 1, KeptOf(u, T))
  <1>1. Drawing(w, from, s, v) /\ Len(KeptOf(v, T)) = j /\ v \in Seq(Nat)
    BY DEF KeptSoFar, Drawing, Cut
  <1>2. PICK u \in Seq(Nat), x \in T :
            /\ KeptOf(u, T) = KeptOf(v, T) /\ Drawing(w, from, t, Append(u, x))
            /\ t.val = (off + InRange(w, rng, x)) % 2^W
    <2>1. Drawing(w, from, s, v)
      BY <1>1
    <2>2. OneKept(W, off, rng, w, from, v, T, t)
      BY <2>1, BoundedGives
    <2> QED  BY <2>2 DEF OneKept
  <1>3. PICK g : g = Append(u, x)
    OBVIOUS
  <1>4. x \in Nat
    <2>1. w \in Widths
      BY DEF DrawWidth, Widths
    <2>2. PICK n \in Nat \ {0} : n = 2^w
      BY <2>1, PerWordType, PowerType
    <2>3. x \in 0..n - 1
      BY <2>2 DEF UsableOf
    <2> QED  BY <2>3
  <1>5. PICK kv, ku : kv = KeptOf(v, T) /\ ku = KeptOf(g, T)
    OBVIOUS
  <1>6. kv \in Seq(T) /\ Len(kv) = j
    <2>1. Len(v) \in Nat
      BY <1>1
    <2> QED  BY <1>1, <1>5, <2>1, KeptType
  <1>7. ku = Append(kv, x)
    <2>1. u \in Seq(Nat) /\ x \in T
      OBVIOUS
    <2>2. KeptOf(Append(u, x), T) = Append(KeptOf(u, T), x)
      BY <1>4, <2>1, PieceKept
    <2> QED  BY <1>2, <1>3, <1>5, <2>2
  <1>8. Len(ku) = j + 1 /\ ku[j + 1] = x /\ \A k \in 1..j : ku[k] = kv[k]
    BY <1>6, <1>7
  <1>9. KeptSoFar(w, from, T, j + 1, t, g)
    <2>1. Drawing(w, from, t, g)
      BY <1>2, <1>3
    <2>2. Len(KeptOf(u, T)) = (j + 1) - 1
      BY <1>1, <1>2
    <2>3. Len(KeptOf(g, T)) = j + 1
      BY <1>5, <1>8
    <2> QED  BY <1>3, <2>1, <2>2, <2>3 DEF KeptSoFar
  <1>10. PICK y : y = t.val
    OBVIOUS
  <1>11. Len(more) = j + 1 /\ more[j + 1] = y /\ \A k \in 1..j : more[k] = out[k]
    <2>1. more = Append(out, y) /\ out \in Seq(V \union {y})
      BY <1>10
    <2>2. /\ Len(more) = Len(out) + 1 /\ more[Len(out) + 1] = y
          /\ \A k \in 1..Len(out) : more[k] = out[k]
      BY <2>1
    <2> QED  BY <2>2
  <1>12. ASSUME NEW k \in 1..j + 1
         PROVE  more[k] = (off + InRange(w, rng, ku[k])) % 2^W
    <2>1. CASE k = j + 1
      BY <1>2, <1>8, <1>10, <1>11, <2>1
    <2>2. CASE k # j + 1
      <3>1. k \in 1..j
        BY <2>2
      <3>2. out[k] = (off + InRange(w, rng, kv[k])) % 2^W
        BY <1>5, <3>1 DEF AnswersOf
      <3>3. more[k] = out[k] /\ ku[k] = kv[k]
        BY <1>8, <1>11, <3>1
      <3> QED  BY <3>2, <3>3
    <2> QED  BY <2>1, <2>2
  <1>13. AnswersOf(W, off, w, rng, more, j + 1, KeptOf(g, T))
    BY <1>5, <1>12 DEF AnswersOf
  <1> QED  BY <1>9, <1>13

LEMMA DrawsKeep ==
  ASSUME NEW W \in Widths, NEW off \in Int, NEW rng, NEW w, w = DrawWidth(W, rng),
         rng \in 1..2^w - 1, NEW T, T = UsableOf(w, rng),
         NEW s, Faithful(s), s.bcnt = 0, NEW from, from = Len(s.asked),
         NEW n \in Nat, NEW d, d = Draws(Times(n, Bounded(W, off, rng)), s), Complete(d)
  PROVE  /\ Len(d.out) = n
         /\ \E v : /\ KeptSoFar(w, from, T, n, d.s, v)
                   /\ AnswersOf(W, off, w, rng, d.out, n, KeptOf(v, T))
  <1>1. PICK q : q = Bounded(W, off, rng)
    OBVIOUS
  <1>2. PICK asks : asks = Times(n, q)
    OBVIOUS
  <1>3. Len(asks) = n /\ \A k \in 1..n : asks[k] = q
    <2>1. /\ Len(asks) = IF n > 0 THEN n ELSE 0
          /\ \A k \in 1..Len(asks) : asks[k] = q
      BY <1>2, TimesAll
    <2>2. n = 0 \/ n > 0
      OBVIOUS
    <2> QED  BY <2>1, <2>2
  <1>4. PICK e : /\ e[0] = [s |-> s, out |-> <<>>]
                 /\ \A k \in 1..n : e[k] = DrawOne(e[k - 1], asks[k])
                 /\ d = e[n]
    <2>1. Len(asks) \in Nat
      BY <1>3
    <2>2. \E c : /\ c[0] = [s |-> s, out |-> <<>>]
                 /\ \A k \in 1..Len(asks) : c[k] = DrawOne(c[k - 1], asks[k])
                 /\ Draws(asks, s) = c[Len(asks)]
      BY <2>1, DrawsChain
    <2> QED  BY <1>1, <1>2, <1>3, <2>2
  <1>5. w \in Widths
    BY DEF DrawWidth, Widths
  <1> DEFINE Whole(x, k) == (\E V : x.out \in Seq(V)) /\ Len(x.out) = k
             Good(x, k) == \E v : /\ KeptSoFar(w, from, T, k, x.s, v)
                                  /\ AnswersOf(W, off, w, rng, x.out, k, KeptOf(v, T))
             F == {k \in 0..n : Whole(e[k], k) /\ (Complete(e[k]) => Good(e[k], k))}
  <1>6. 0 \in F
    <2>1. e[0].s = s /\ e[0].out = <<>>
      BY <1>4
    <2>2. Whole(e[0], 0)
      <3>1. <<>> \in Seq({}) /\ Len(<<>>) = 0
        OBVIOUS
      <3> QED  BY <2>1, <3>1
    <2>3. Good(e[0], 0)
      <3>1. KeptSoFar(w, from, T, 0, s, <<>>)
        BY <1>5, DrawingStarts
      <3>2. AnswersOf(W, off, w, rng, e[0].out, 0, KeptOf(<<>>, T))
        BY DEF AnswersOf
      <3> QED  BY <2>1, <3>1, <3>2
    <2> HIDE DEF Whole, Good
    <2> QED  BY <2>2, <2>3
  <1>7. ASSUME NEW k \in 0..n - 1, k \in F
        PROVE  k + 1 \in F
    <2>1. k + 1 \in 1..n /\ (k + 1) - 1 = k /\ k + 1 \in 0..n /\ k \in Nat
      OBVIOUS
    <2>2. PICK was, is : was = e[k] /\ is = e[k + 1]
      OBVIOUS
    <2>3. PICK t : t = bounded(W, off, rng, was.s)
      OBVIOUS
    <2>4. is.s = t /\ is.out = Append(was.out, t.val)
      <3>1. is = DrawOne(was, q)
        BY <1>3, <1>4, <2>1, <2>2
      <3>2. Answer(q, was.s) = t
        BY <1>1, <2>3 DEF Answer, Bounded
      <3> QED  BY <3>1, <3>2 DEF DrawOne
    <2>5. PICK V : was.out \in Seq(V)
      BY <1>7, <2>2
    <2>6. PICK out : out = was.out
      OBVIOUS
    <2>7. out \in Seq(V) /\ Len(out) = k
      BY <1>7, <2>2, <2>5, <2>6
    <2>8. PICK y, more : y = t.val /\ more = is.out
      OBVIOUS
    <2>9. more = Append(out, y)
      BY <2>4, <2>6, <2>8
    <2>10. more \in Seq(V \union {y}) /\ Len(more) = k + 1 /\ more[k + 1] = y
           /\ \A i \in 1..k : more[i] = out[i]
      <3>1. out \in Seq(V \union {y})
        BY <2>7
      <3>2. /\ more \in Seq(V \union {y})
            /\ Len(more) = Len(out) + 1 /\ more[Len(out) + 1] = y
            /\ \A i \in 1..Len(out) : more[i] = out[i]
        BY <2>9, <3>1
      <3> QED  BY <2>7, <3>2
    <2>11. Whole(is, k + 1)
      BY <2>8, <2>10
    <2>12. ASSUME Complete(is)  PROVE Good(is, k + 1)
      <3>1. DOMAIN more = 1..k + 1 /\ DOMAIN out = 1..k
        BY <2>1, <2>7, <2>10
      <3>2. y # NoValue
        BY <2>1, <2>8, <2>10, <2>12, <3>1 DEF Complete
      <3>3. Complete(was)
        <4>1. ASSUME NEW i \in DOMAIN out  PROVE out[i] # NoValue
          <5>1. i \in 1..k /\ i \in 1..k + 1
            BY <2>1, <3>1
          <5> QED  BY <2>8, <2>10, <2>12, <3>1, <5>1 DEF Complete
        <4> QED  BY <2>6, <4>1 DEF Complete
      <3>4. Good(was, k)
        <4> HIDE DEF Whole, Good
        <4> QED  BY <1>7, <2>2, <3>3
      <3>5. PICK v : KeptSoFar(w, from, T, k, was.s, v) /\ AnswersOf(W, off, w, rng, out, k, KeptOf(v, T))
        BY <2>6, <3>4
      <3>6. PICK b : b = was.s
        OBVIOUS
      <3>7. \E u : /\ KeptSoFar(w, from, T, k + 1, t, u)
                   /\ AnswersOf(W, off, w, rng, more, k + 1, KeptOf(u, T))
        <4>1. KeptSoFar(w, from, T, k, b, v)
          BY <3>5, <3>6
        <4>2. AnswersOf(W, off, w, rng, out, k, KeptOf(v, T))
          BY <3>5
        <4>3. t = bounded(W, off, rng, b)
          BY <2>3, <3>6
        <4>4. t.val # NoValue /\ more = Append(out, t.val)
          BY <2>8, <2>9, <3>2
        <4>5. k \in Nat
          BY <2>1
        <4>6. out \in Seq(V)
          BY <2>7
        <4>7. Len(out) = k
          BY <2>7
        <4> QED  BY <4>1, <4>2, <4>3, <4>4, <4>5, <4>6, <4>7, BoundedKeeps
      <3> QED  BY <2>4, <2>8, <3>7
    <2> HIDE DEF Whole, Good
    <2> QED  BY <2>1, <2>2, <2>11, <2>12
  <1>8. F = 0..n
    <2> HIDE DEF F
    <2>1. F \in SUBSET (0..n)
      BY DEF F
    <2> QED  BY <1>6, <1>7, <2>1, UpTo
  <1>9. Whole(e[n], n) /\ (Complete(e[n]) => Good(e[n], n))
    <2> HIDE DEF Whole, Good
    <2> QED  BY <1>8
  <1> QED  BY <1>4, <1>9

----------------------------------------------------------------------------
(* What a call drew, cut into pieces.                                         *)

\* b are the l draws of a from an index on.
Drew(a, from, l, b) == b \in Seq(Asked) /\ Len(b) = l /\ \A i \in 1..l : b[i] = a[from + i]

LEMMA DrewIs ==
  ASSUME NEW a \in Seq(Asked), NEW from \in 0..Len(a), NEW l, l = Len(a) - from,
         NEW b, b = SubSeq(a, from + 1, Len(a))
  PROVE  /\ l \in Nat /\ Drew(a, from, l, b)
         /\ l = 0 => b = <<>>
         /\ l > 0 => Drew(a, from, l - 1, Front(b))
  <1>1. PICK m \in Nat : m = Len(a)
    OBVIOUS
  <1>2. from \in 0..m /\ l \in Nat /\ m = from + l
    BY <1>1
  <1>3. CASE from + 1 <= m
    <2>1. from + 1 \in 1..m + 1 /\ m \in from + 1 - 1..m /\ from + 1 \in 1..m
      BY <1>2, <1>3
    <2>2. /\ b \in Seq(Asked) /\ Len(b) = m - (from + 1) + 1
          /\ \A i \in 1..m - (from + 1) + 1 : b[i] = a[(from + 1) + i - 1]
      BY <1>1, <2>1, SubSeqProperties
    <2>3. Len(b) = l
      BY <1>2, <2>2
    <2>4. ASSUME NEW i \in 1..l  PROVE b[i] = a[from + i]
      <3>1. i \in 1..m - (from + 1) + 1 /\ (from + 1) + i - 1 = from + i
        BY <1>2
      <3> QED  BY <2>2, <3>1
    <2>5. PICK f : f = Front(b)
      OBVIOUS
    <2>6. f = SubSeq(b, 1, l - 1)
      BY <2>3, <2>5 DEF Front
    <2>7. l >= 1
      BY <1>2, <1>3
    <2>8. 1 \in 1..l + 1 /\ l - 1 \in 1 - 1..l
      BY <1>2, <2>7
    <2>9. /\ f \in Seq(Asked) /\ Len(f) = (l - 1) - 1 + 1
          /\ \A i \in 1..(l - 1) - 1 + 1 : f[i] = b[1 + i - 1]
      BY <2>2, <2>3, <2>6, <2>8, SubSeqProperties
    <2>10. Len(f) = l - 1
      BY <1>2, <2>9
    <2>11. ASSUME NEW i \in 1..l - 1  PROVE f[i] = a[from + i]
      <3>1. i \in 1..(l - 1) - 1 + 1 /\ 1 + i - 1 = i /\ i \in 1..l
        BY <1>2
      <3> QED  BY <2>4, <2>9, <3>1
    <2> QED  BY <1>2, <2>2, <2>3, <2>4, <2>5, <2>7, <2>9, <2>10, <2>11 DEF Drew
  <1>4. CASE ~(from + 1 <= m)
    <2>1. l = 0
      BY <1>2, <1>4
    <2>2. b = <<>>
      BY <1>1, <1>2, <1>4, <2>1
    <2>3. b \in Seq(Asked) /\ Len(b) = l
      BY <2>1, <2>2
    <2>4. ~(l > 0) /\ \A i \in 1..l : FALSE
      BY <2>1
    <2> QED  BY <1>2, <2>2, <2>3, <2>4 DEF Drew
  <1> QED  BY <1>3, <1>4

CutInto(w, from, a, l, p) ==
    /\ Len(p) = PerWord(w) * l
    /\ \A k \in 1..PerWord(w) * l : p[k] = Piece(w, from, a, k)

LEMMA PiecesAre ==
  ASSUME NEW w \in Widths, NEW a, NEW from \in Nat, NEW l \in Nat, NEW b, Drew(a, from, l, b),
         NEW p, p = Pieces(b, w)
  PROVE  CutInto(w, from, a, l, p)
  <1>1. PICK n \in Nat \ {0} : n = PerWord(w)
    BY PerWordType
  <1>2. b \in Seq(Asked) /\ Len(b) = l /\ \A i \in 1..l : b[i] = a[from + i]
    BY DEF Drew
  <1>3. PICK c \in Nat : c = n * l
    OBVIOUS
  <1>4. CASE l = 0
    <2>1. b = <<>> /\ c = 0
      <3>1. b = <<>>
        BY <1>2, <1>4
      <3>2. n * l = 0
        BY <1>4
      <3> QED  BY <1>3, <3>1, <3>2
    <2>2. p = [k \in 1..1 * Len(b) |->
                 (b[((k - 1) \div 1) + 1].val \div 2^(((k - 1) % 1) * w)) % 2^w]
      BY <2>1 DEF Pieces
    <2>3. 1 * Len(b) = 0
      BY <1>2, <1>4
    <2>4. p = [k \in 1..0 |-> (b[((k - 1) \div 1) + 1].val \div 2^(((k - 1) % 1) * w)) % 2^w]
      BY <2>2, <2>3
    <2>5. Len(p) = 0
      BY <2>4
    <2> QED  BY <1>1, <1>3, <2>1, <2>5 DEF CutInto
  <1>5. CASE l # 0
    <2>1. b # <<>>
      BY <1>2, <1>5
    <2>2. p = [k \in 1..c |-> (b[((k - 1) \div n) + 1].val \div 2^(((k - 1) % n) * w)) % 2^w]
      <3>1. n = IF b = <<>> \/ w >= Half THEN 1 ELSE Half \div w
        BY <1>1, <2>1 DEF PerWord
      <3>2. n * Len(b) = c
        BY <1>2, <1>3
      <3> QED  BY <3>1, <3>2 DEF Pieces
    <2>3. Len(p) = c
      <3>1. PICK S : S = {p[k] : k \in 1..c}
        OBVIOUS
      <3>2. p \in [1..c -> S]
        BY <2>2, <3>1
      <3> QED  BY <3>2
    <2>4. ASSUME NEW k \in 1..c  PROVE p[k] = Piece(w, from, a, k)
      <3>1. PICK i, j : i = (k - 1) \div n /\ j = (k - 1) % n
        OBVIOUS
      <3>2. i \in 0..l - 1
        BY <1>3, <3>1, PieceAt
      <3>3. i + 1 \in 1..l /\ from + (i + 1) = from + i + 1
        BY <3>2
      <3>4. b[i + 1] = a[from + i + 1]
        BY <1>2, <3>3
      <3>5. p[k] = PieceOf(w, b[i + 1].val, j)
        BY <2>2, <3>1 DEF PieceOf
      <3> QED  BY <1>1, <3>1, <3>4, <3>5 DEF Piece
    <2> QED  BY <1>1, <1>3, <2>3, <2>4 DEF CutInto
  <1> QED  BY <1>4, <1>5

\* The pieces kept are kept of what the call drew, and one draw less would not do.
Enclosed(w, T, n, b, kept) ==
    /\ \A k \in 1..n : kept[k] \in T /\ KeptOf(Pieces(b, w), T)[k] = kept[k]
    /\ n > 0 => Len(KeptOf(Pieces(Front(b), w), T)) < n

LEMMA KeptOfDrew ==
  ASSUME NEW w \in Widths, NEW from, NEW T, NEW n \in Nat \ {0}, NEW t, NEW v,
         KeptSoFar(w, from, T, n, t, v),
         NEW b, b = SubSeq(t.asked, from + 1, Len(t.asked))
  PROVE  Enclosed(w, T, n, b, KeptOf(v, T))
  <1>1. PICK c \in Nat \ {0} : c = PerWord(w)
    BY PerWordType
  <1>2. PICK a \in Seq(Asked) : a = t.asked
    BY DEF KeptSoFar, Drawing, Faithful
  <1>3. /\ from \in 0..Len(a) /\ v \in Seq(Nat) /\ t.bcnt \in 0..c - 1
        /\ Len(v) + t.bcnt = c * (Len(a) - from)
        /\ \A k \in 1..Len(v) : v[k] = Piece(w, from, a, k)
    BY <1>1, <1>2 DEF KeptSoFar, Drawing, Cut
  <1>4. PICK l : l = Len(a) - from
    OBVIOUS
  <1>5. /\ l \in Nat /\ Drew(a, from, l, b)
        /\ l > 0 => Drew(a, from, l - 1, Front(b))
    BY <1>2, <1>3, <1>4, DrewIs
  <1>6. PICK u \in Seq(Nat), x \in T : v = Append(u, x) /\ Len(KeptOf(u, T)) = n - 1
    BY DEF KeptSoFar
  <1>7. PICK m \in Nat : m = Len(u)
    BY <1>6
  <1>8. Len(v) = m + 1 /\ \A k \in 1..m : v[k] = u[k]
    <2>1. PICK y : y = x
      OBVIOUS
    <2>2. v = Append(u, y) /\ u \in Seq(Nat \union {y})
      BY <1>6, <2>1
    <2>3. Len(v) = Len(u) + 1 /\ \A k \in 1..Len(u) : v[k] = u[k]
      BY <2>2
    <2> QED  BY <1>7, <2>3
  <1>9. PICK cl \in Nat : cl = c * l
    BY <1>5
  <1>10. m + 1 <= cl /\ cl - c <= m /\ m <= cl
    <2>1. PICK i \in 0..c - 1 : i = t.bcnt
      BY <1>3
    <2>2. (m + 1) + i = cl
      BY <1>3, <1>4, <1>8, <1>9, <2>1
    <2> QED  BY <2>2
  <1>11. l > 0
    <2>1. CASE l = 0
      <3>1. c * 0 = 0
        OBVIOUS
      <3> QED  BY <1>9, <1>10, <2>1, <3>1
    <2> QED  BY <1>5, <2>1
  <1>12. from \in Nat
    <2>1. PICK i \in Nat : i = Len(a)
      OBVIOUS
    <2> QED  BY <1>3, <2>1
  <1>13. PICK p, q, f : p = Pieces(b, w) /\ f = Front(b) /\ q = Pieces(f, w)
    OBVIOUS
  <1>14. Len(p) = cl /\ \A k \in 1..cl : p[k] = Piece(w, from, a, k)
    <2>1. Drew(a, from, l, b) /\ p = Pieces(b, w) /\ l \in Nat
      BY <1>5, <1>13
    <2>2. CutInto(w, from, a, l, p)
      BY <1>12, <2>1, PiecesAre
    <2> QED  BY <1>1, <1>9, <2>2 DEF CutInto
  <1>15. Len(q) = cl - c /\ \A k \in 1..cl - c : q[k] = Piece(w, from, a, k)
    <2>1. PICK h \in Nat : h = l - 1
      BY <1>5, <1>11
    <2>2. Drew(a, from, h, f) /\ q = Pieces(f, w)
      BY <1>5, <1>11, <1>13, <2>1
    <2>3. CutInto(w, from, a, h, q)
      BY <1>12, <2>2, PiecesAre
    <2>4. c * h = cl - c
      <3>1. c * (l - 1) = c * l - c
        BY <1>5
      <3> QED  BY <1>9, <2>1, <3>1
    <2> QED  BY <1>1, <2>3, <2>4 DEF CutInto
  <1>16. Begins(v, p) /\ Len(v) \in Nat /\ Len(p) \in Nat
    <2>1. Len(v) <= Len(p)
      BY <1>8, <1>10, <1>14
    <2>2. ASSUME NEW k \in 1..Len(v)  PROVE p[k] = v[k]
      <3>1. k \in 1..cl
        BY <1>8, <1>10
      <3> QED  BY <1>3, <1>14, <3>1
    <2> QED  BY <1>8, <1>14, <2>1, <2>2 DEF Begins
  <1>17. Begins(q, u) /\ Len(u) \in Nat /\ Len(q) \in Nat
    <2>0. cl - c \in Nat
      <3>1. c * 1 <= c * l
        BY <1>5, <1>11, TimesKeepsOrder
      <3>2. c <= cl
        BY <1>9, <3>1
      <3> QED  BY <3>2
    <2>1. Len(q) <= Len(u)
      BY <1>7, <1>10, <1>15
    <2>2. ASSUME NEW k \in 1..Len(q)  PROVE u[k] = q[k]
      <3>1. k \in 1..cl - c /\ k \in 1..m /\ k \in 1..Len(v)
        BY <1>8, <1>10, <1>15, <2>0
      <3> QED  BY <1>3, <1>8, <1>15, <3>1
    <2> QED  BY <1>7, <1>15, <2>0, <2>1, <2>2 DEF Begins
  <1>18. PICK kv, kp, kq, ku : /\ kv = KeptOf(v, T) /\ kp = KeptOf(p, T)
                               /\ kq = KeptOf(q, T) /\ ku = KeptOf(u, T)
    OBVIOUS
  <1>19. Begins(kv, kp) /\ Begins(kq, ku)
    BY <1>16, <1>17, <1>18, KeptBegins
  <1>20. kv \in Seq(T) /\ Len(kv) = n
    BY <1>16, <1>18, KeptType DEF KeptSoFar
  <1>21. kq \in Seq(T) /\ Len(ku) = n - 1
    BY <1>6, <1>17, <1>18, KeptType
  <1>22. \A k \in 1..n : kv[k] \in T /\ kp[k] = kv[k]
    BY <1>19, <1>20 DEF Begins
  <1>23. Len(kq) < n
    <2>1. Len(kq) <= n - 1 /\ Len(kq) \in Nat
      BY <1>19, <1>21 DEF Begins
    <2> QED  BY <2>1
  <1> QED  BY <1>13, <1>18, <1>22, <1>23 DEF Enclosed

----------------------------------------------------------------------------
(* A call that asks for n values of a range.                                  *)

LEMMA PowerAbove ==
  ASSUME NEW w \in Widths
  PROVE  2^w \in Nat /\ 2^w >= 2 /\ 2^(w - 1) \in Nat \ {0} /\ 2^w = 2 * 2^(w - 1)
  <1>1. w \in 1..Word /\ Word \in Nat
    BY PerWordType, WidthsDiffer
  <1>2. w - 1 \in 0..Word
    BY <1>1
  <1>3. PICK a \in Nat \ {0} : a = 2^(w - 1)
    BY <1>2, PowerType
  <1>4. PICK b : b = 2^w
    OBVIOUS
  <1>5. b = 2 * a
    BY <1>1, <1>3, <1>4, PowersAssumption
  <1>6. b \in Nat /\ b >= 2
    BY <1>5
  <1> QED  BY <1>3, <1>4, <1>5, <1>6

\* A range of one value takes no draw.
LEMMA BoundedOfOne ==
  ASSUME NEW W \in Widths, NEW off \in Int, NEW s, Faithful(s), NEW t, t = bounded(W, off, 0, s)
  PROVE  Faithful(t) /\ t.asked = s.asked /\ t.val = off % 2^W
  <1>1. PICK w : w = IF W = Word /\ 0 < 2^Half THEN Half ELSE W
    OBVIOUS
  <1>2. w \in Widths
    BY <1>1 DEF Widths
  <1>3. 0 # 2^w - 1
    <2>1. PICK n \in Nat : n = 2^w /\ n >= 2
      BY <1>2, PowerAbove
    <2> QED  BY <2>1
  <1>4. PICK r : r = Valued(s, 0)
    OBVIOUS
  <1>5. Faithful(r) /\ r.val = 0 /\ r.asked = s.asked
    <2>1. Shaped(s)
      BY DEF Faithful
    <2>2. r = State(s.seed, s.pos, s.has, s.half, s.bcnt, s.buf, 0, s.asked)
      BY <1>4, <2>1, RestExcept
    <2>3. r.asked = s.asked
      BY <2>2 DEF State
    <2> QED  BY <1>4, <2>3, WritesFaithful
  <1>6. PICK z : z = off % 2^W
    OBVIOUS
  <1>7. t = Valued(r, z)
    <2>1. r.val # NoValue /\ off + r.val = off
      BY <1>5 DEF NoValue
    <2>2. t = OfVal(r, LAMBDA x : (off + x) % 2^W)
      BY <1>1, <1>3, <1>4 DEF bounded, Valued
    <2> QED  BY <1>6, <2>1, <2>2 DEF OfVal, Valued
  <1>8. Shaped(r)
    BY <1>5 DEF Faithful
  <1>9. t = State(r.seed, r.pos, r.has, r.half, r.bcnt, r.buf, z, r.asked)
    BY <1>7, <1>8, RestExcept
  <1>10. t.asked = r.asked
    BY <1>9 DEF State
  <1> QED  BY <1>5, <1>6, <1>7, <1>10, WritesFaithful

LEMMA DrawsNothing ==
  ASSUME NEW W \in Widths, NEW off \in Int, NEW rng, NEW n \in Nat, rng = 0 \/ n = 0,
         NEW s, Faithful(s), NEW d, d = Draws(Times(n, Bounded(W, off, rng)), s)
  PROVE  Len(d.out) = n /\ d.s.asked = s.asked /\ \A k \in 1..n : d.out[k] = off % 2^W
  <1>1. PICK q : q = Bounded(W, off, rng)
    OBVIOUS
  <1>2. PICK asks : asks = Times(n, q)
    OBVIOUS
  <1>3. Len(asks) = n /\ \A k \in 1..n : asks[k] = q
    <2>1. /\ Len(asks) = IF n > 0 THEN n ELSE 0
          /\ \A k \in 1..Len(asks) : asks[k] = q
      BY <1>2, TimesAll
    <2>2. n = 0 \/ n > 0
      OBVIOUS
    <2> QED  BY <2>1, <2>2
  <1>4. PICK e : /\ e[0] = [s |-> s, out |-> <<>>]
                 /\ \A k \in 1..n : e[k] = DrawOne(e[k - 1], asks[k])
                 /\ d = e[n]
    <2>1. Len(asks) \in Nat
      BY <1>3
    <2>2. \E c : /\ c[0] = [s |-> s, out |-> <<>>]
                 /\ \A k \in 1..Len(asks) : c[k] = DrawOne(c[k - 1], asks[k])
                 /\ Draws(asks, s) = c[Len(asks)]
      BY <2>1, DrawsChain
    <2> QED  BY <1>1, <1>2, <1>3, <2>2
  <1>5. PICK z : z = off % 2^W
    OBVIOUS
  <1> DEFINE Good(x, k) == /\ Faithful(x.s) /\ x.s.asked = s.asked
                           /\ x.out \in Seq({z}) /\ Len(x.out) = k
             F == {k \in 0..n : Good(e[k], k)}
  <1>6. 0 \in F
    <2>1. e[0].s = s /\ e[0].out = <<>>
      BY <1>4
    <2>2. <<>> \in Seq({z}) /\ Len(<<>>) = 0
      OBVIOUS
    <2>3. Good(e[0], 0)
      BY <2>1, <2>2
    <2> HIDE DEF Good
    <2> QED  BY <2>3
  <1>7. ASSUME NEW k \in 0..n - 1, k \in F
        PROVE  k + 1 \in F
    <2>1. k + 1 \in 1..n /\ (k + 1) - 1 = k /\ k + 1 \in 0..n /\ rng = 0
      OBVIOUS
    <2>2. PICK was, is : was = e[k] /\ is = e[k + 1]
      OBVIOUS
    <2>3. PICK p, t : p = was.s /\ t = bounded(W, off, 0, p)
      OBVIOUS
    <2>4. is.s = t /\ is.out = Append(was.out, t.val)
      <3>1. is = DrawOne(was, q)
        BY <1>3, <1>4, <2>1, <2>2
      <3>2. Answer(q, was.s) = t
        BY <1>1, <2>1, <2>3 DEF Answer, Bounded
      <3> QED  BY <3>1, <3>2 DEF DrawOne
    <2>5. Good(was, k)
      <3> HIDE DEF Good
      <3> QED  BY <1>7, <2>2
    <2>6. Faithful(p)
      BY <2>3, <2>5
    <2>7. Faithful(t) /\ t.asked = p.asked /\ t.val = z
      BY <1>5, <2>3, <2>6, BoundedOfOne
    <2>8. is.out \in Seq({z}) /\ Len(is.out) = k + 1
      <3>1. PICK out, more : out = was.out /\ more = is.out
        OBVIOUS
      <3>2. out \in Seq({z}) /\ Len(out) = k /\ more = Append(out, z)
        BY <2>4, <2>5, <2>7, <3>1
      <3>3. more \in Seq({z}) /\ Len(more) = Len(out) + 1
        BY <3>2
      <3> QED  BY <3>1, <3>2, <3>3
    <2>9. Good(is, k + 1)
      BY <2>3, <2>4, <2>5, <2>7, <2>8
    <2> HIDE DEF Good
    <2> QED  BY <2>1, <2>2, <2>9
  <1>8. F = 0..n
    <2> HIDE DEF F
    <2>1. F \in SUBSET (0..n)
      BY DEF F
    <2> QED  BY <1>6, <1>7, <2>1, UpTo
  <1>9. Good(e[n], n)
    <2> HIDE DEF Good
    <2> QED  BY <1>8
  <1>10. ASSUME NEW k \in 1..n  PROVE d.out[k] = z
    <2>1. d.out \in Seq({z}) /\ Len(d.out) = n
      BY <1>4, <1>9
    <2> QED  BY <2>1
  <1> QED  BY <1>4, <1>5, <1>9, <1>10

\* What a call with n bounded draws has drawn, b, and what it got, out.
BoundedCall(W, off, rng, n, b, out) ==
    /\ Len(out) = n
    /\ IF rng = 0 \/ n = 0
       THEN b = <<>> /\ \A k \in 1..n : out[k] = off % 2^W
       ELSE LET w == DrawWidth(W, rng)
            IN  \E kept : /\ Enclosed(w, UsableOf(w, rng), n, b, kept)
                          /\ AnswersOf(W, off, w, rng, out, n, kept)

LEMMA BoundedCalls ==
  ASSUME NEW W \in Widths, NEW off \in Int, NEW rng, NEW n \in Nat,
         n > 0 => rng \in 0..2^W - 1, NEW s, Faithful(s), s.bcnt = 0,
         NEW d, d = Draws(Times(n, Bounded(W, off, rng)), s), Complete(d),
         NEW b, b = SubSeq(d.s.asked, Len(s.asked) + 1, Len(d.s.asked))
  PROVE  BoundedCall(W, off, rng, n, b, d.out)
  <1>1. CASE rng = 0 \/ n = 0
    <2>1. Len(d.out) = n /\ d.s.asked = s.asked /\ \A k \in 1..n : d.out[k] = off % 2^W
      BY <1>1, DrawsNothing
    <2>2. b = <<>>
      <3>1. PICK a \in Seq(Asked) : a = s.asked
        BY DEF Faithful
      <3>2. PICK m \in Nat : m = Len(a)
        OBVIOUS
      <3>3. b = SubSeq(a, m + 1, m)
        BY <2>1, <3>1, <3>2
      <3>4. PICK i, j \in Int : i = m + 1 /\ j = m
        OBVIOUS
      <3>5. j < i
        BY <3>4
      <3>6. b = SubSeq(a, i, j)
        BY <3>3, <3>4
      <3> QED  BY <3>4, <3>5, <3>6, SubSeqEmpty
    <2> QED  BY <1>1, <2>1, <2>2 DEF BoundedCall
  <1>2. CASE ~(rng = 0 \/ n = 0)
    <2>1. PICK w : w = DrawWidth(W, rng)
      OBVIOUS
    <2>2. w \in Widths
      BY <2>1 DEF DrawWidth, Widths
    <2>3. rng \in 1..2^w - 1
      <3>1. PICK m, h \in Nat : m = 2^W /\ h = 2^Half
        <4>1. Half \in Widths
          BY DEF Widths
        <4> QED  BY <4>1, PowerAbove
      <3>2. rng \in 1..m - 1
        BY <1>2, <3>1
      <3>3. CASE W = Word /\ rng < h
        BY <2>1, <3>1, <3>2, <3>3 DEF DrawWidth
      <3>4. CASE ~(W = Word /\ rng < h)
        BY <2>1, <3>1, <3>2, <3>4 DEF DrawWidth
      <3> QED  BY <3>3, <3>4
    <2>4. PICK T, from : T = UsableOf(w, rng) /\ from = Len(s.asked)
      OBVIOUS
    <2>5. /\ Len(d.out) = n
          /\ \E v : /\ KeptSoFar(w, from, T, n, d.s, v)
                    /\ AnswersOf(W, off, w, rng, d.out, n, KeptOf(v, T))
      BY <2>1, <2>3, <2>4, DrawsKeep
    <2>6. PICK v : /\ KeptSoFar(w, from, T, n, d.s, v)
                   /\ AnswersOf(W, off, w, rng, d.out, n, KeptOf(v, T))
      BY <2>5
    <2>7. PICK t : t = d.s
      OBVIOUS
    <2>8. Enclosed(w, T, n, b, KeptOf(v, T))
      <3>1. KeptSoFar(w, from, T, n, t, v)
        BY <2>6, <2>7
      <3>2. b = SubSeq(t.asked, from + 1, Len(t.asked))
        BY <2>4, <2>7
      <3>3. n \in Nat \ {0}
        BY <1>2
      <3> QED  BY <2>2, <3>1, <3>2, <3>3, KeptOfDrew
    <2> QED  BY <1>2, <2>1, <2>4, <2>5, <2>6, <2>8 DEF BoundedCall
  <1> QED  BY <1>1, <1>2

----------------------------------------------------------------------------
(* The values that a call returns.                                            *)

\* What IntegersFollowStream says of one call: n values of low..high in W bits.
FollowsDraws(W, low, high, n, out, drew) ==
    LET rng == high - low
        w == DrawWidth(W, rng)
        T == UsableOf(w, rng)
    IN  /\ Len(out) = n /\ \A k \in 1..n : out[k] \in low..high
        /\ IF rng = 0 \/ n = 0 THEN drew = <<>>
           ELSE /\ \A k \in 1..n :
                      out[k] = low + InRange(w, rng, KeptOf(Pieces(drew, w), T)[k])
                /\ Len(KeptOf(Pieces(Front(drew), w), T)) < n

\* A place in the range.
LEMMA InRangeFits ==
  ASSUME NEW w \in Widths, NEW rng \in 1..2^w - 1, NEW x \in UsableOf(w, rng)
  PROVE  InRange(w, rng, x) \in 0..rng
  <1>1. PICK e \in Nat \ {0} : e = 2^w
    BY PerWordType, PowerType
  <1>2. x \in 0..e - 1 /\ rng \in 1..e - 1
    BY <1>1 DEF UsableOf
  <1>3. CASE rng = e - 1
    BY <1>1, <1>2, <1>3 DEF InRange
  <1>4. CASE rng # e - 1
    <2>1. PICK b \in Nat \ {0} : b = rng + 1
      BY <1>2
    <2>2. PICK xb \in Int : xb = x * b
      BY <1>2, <2>1
    <2>3. PICK c \in Int : c = e * b
      BY <2>1
    <2>4. 0 <= xb /\ xb < c
      <3>1. b * 0 <= b * x /\ b * x <= b * (e - 1)
        BY <1>2, <2>1, TimesKeepsOrder
      <3>2. b * 0 = 0 /\ b * x = xb /\ b * (e - 1) = b * e - b
        BY <1>2, <2>1, <2>2
      <3>3. b * e = c
        BY <2>1, <2>3
      <3> QED  BY <2>1, <2>2, <2>3, <3>1, <3>2, <3>3
    <2>5. xb \in 0..c - 1
      BY <2>2, <2>3, <2>4
    <2>6. xb \div e \in Int /\ xb \div e >= 0 /\ xb \div e < b
      BY <2>1, <2>3, <2>5, DivBelowProduct
    <2>7. InRange(w, rng, x) = xb \div e
      BY <1>1, <1>4, <2>1, <2>2 DEF InRange
    <2> QED  BY <2>1, <2>6, <2>7
  <1> QED  BY <1>3, <1>4

\* The values of W bits, counted from off, are made into values of low..low + rng.
Decodes(W, off, rng, n, low, vals, out) ==
    \A k \in 1..n : \A z \in 0..rng : vals[k] = (off + z) % 2^W => out[k] = low + z

LEMMA BoundedFollows ==
  ASSUME NEW W \in Widths, NEW off \in Int, NEW n \in Nat, NEW low \in Int, NEW high \in Int,
         NEW rng, rng = high - low, n > 0 => rng \in 0..2^W - 1,
         NEW b, NEW vals, BoundedCall(W, off, rng, n, b, vals),
         NEW out, Len(out) = n, Decodes(W, off, rng, n, low, vals, out)
  PROVE  FollowsDraws(W, low, high, n, out, b)
  <1>1. CASE rng = 0 \/ n = 0
    <2>1. b = <<>> /\ \A k \in 1..n : vals[k] = off % 2^W
      BY <1>1 DEF BoundedCall
    <2>2. ASSUME NEW k \in 1..n  PROVE out[k] \in low..high
      <3>1. rng = 0 /\ high = low
        BY <1>1
      <3>2. PICK z \in 0..rng : z = 0
        BY <3>1
      <3>3. off + z = off
        BY <3>2
      <3>4. vals[k] = (off + z) % 2^W
        BY <2>1, <3>3
      <3>5. out[k] = low + z
        BY <3>4 DEF Decodes
      <3> QED  BY <3>1, <3>2, <3>5
    <2> QED  BY <1>1, <2>1, <2>2 DEF FollowsDraws
  <1>2. CASE ~(rng = 0 \/ n = 0)
    <2>1. PICK w : w = DrawWidth(W, rng)
      OBVIOUS
    <2>2. w \in Widths
      BY <2>1 DEF DrawWidth, Widths
    <2>3. rng \in 1..2^w - 1
      <3>1. PICK m, h \in Nat : m = 2^W /\ h = 2^Half
        <4>1. Half \in Widths
          BY DEF Widths
        <4> QED  BY <4>1, PowerAbove
      <3>2. rng \in 1..m - 1
        BY <1>2, <3>1
      <3>3. CASE W = Word /\ rng < h
        BY <2>1, <3>1, <3>2, <3>3 DEF DrawWidth
      <3>4. CASE ~(W = Word /\ rng < h)
        BY <2>1, <3>1, <3>2, <3>4 DEF DrawWidth
      <3> QED  BY <3>3, <3>4
    <2>4. PICK T : T = UsableOf(w, rng)
      OBVIOUS
    <2>5. PICK kept : Enclosed(w, T, n, b, kept) /\ AnswersOf(W, off, w, rng, vals, n, kept)
      BY <1>2, <2>1, <2>4 DEF BoundedCall
    <2>6. PICK q : q = KeptOf(Pieces(b, w), T)
      OBVIOUS
    <2>7. ASSUME NEW k \in 1..n
          PROVE  out[k] = low + InRange(w, rng, q[k]) /\ out[k] \in low..high
      <3>1. PICK x : x = kept[k]
        OBVIOUS
      <3>2. x \in T /\ q[k] = x
        BY <2>5, <2>6, <3>1 DEF Enclosed
      <3>3. x \in UsableOf(w, rng)
        BY <2>4, <3>2
      <3>4. InRange(w, rng, x) \in 0..rng
        BY <2>2, <2>3, <3>3, InRangeFits
      <3>5. PICK z \in 0..rng : z = InRange(w, rng, x)
        BY <3>4
      <3>6. vals[k] = (off + z) % 2^W
        BY <2>5, <3>1, <3>5 DEF AnswersOf
      <3>7. out[k] = low + z
        BY <3>6 DEF Decodes
      <3> QED  BY <3>2, <3>5, <3>7
    <2>8. Len(KeptOf(Pieces(Front(b), w), T)) < n
      BY <1>2, <2>5 DEF Enclosed
    <2> QED  BY <1>2, <2>1, <2>4, <2>6, <2>7, <2>8 DEF FollowsDraws
  <1> QED  BY <1>1, <1>2

\* An unsigned or signed value comes back from its bits.
LEMMA AsDtypeGives ==
  ASSUME NEW dt \in [width : Widths, signed : BOOLEAN],
         NEW v \in Int, v >= Bounds(dt)[1], v <= Bounds(dt)[2],
         NEW x, x = v % 2^dt.width
  PROVE  AsDtype(dt, x) = v
  <1>1. PICK w \in Widths : w = dt.width
    OBVIOUS
  <1>2. PICK m, h \in Nat : m = 2^w /\ h = 2^(w - 1) /\ m = 2 * h /\ h > 0
    BY PowerAbove
  <1>3. x = v % m
    BY <1>1, <1>2
  <1>4. CASE dt.signed
    <2>1. -h <= v /\ v <= h - 1
      BY <1>1, <1>2, <1>4 DEF Bounds
    <2>2. AsDtype(dt, x) = IF x >= h THEN x - m ELSE x
      BY <1>1, <1>2, <1>4 DEF AsDtype
    <2>3. CASE v >= 0
      <3>1. m * 0 + v = v
        BY <1>2
      <3>2. (m * 0 + v) % m = v
        <4>1. m \in Nat \ {0} /\ 0 \in Int /\ 0 <= v /\ v < m
          BY <1>2, <2>1, <2>3
        <4> QED  BY <4>1, DivModUnique
      <3>3. x = v
        BY <1>3, <3>1, <3>2
      <3> QED  BY <1>2, <2>1, <2>2, <3>3
    <2>4. CASE v < 0
      <3>1. PICK r \in Int : r = v + m
        BY <1>2
      <3>2. m * (-1) + r = v
        BY <1>2, <3>1
      <3>3. m \in Nat \ {0} /\ -1 \in Int /\ 0 <= r /\ r < m
        BY <1>2, <2>1, <2>4, <3>1
      <3>4. (m * (-1) + r) % m = r
        BY <3>3, DivModUnique
      <3>5. x = r
        BY <1>3, <3>2, <3>4
      <3> QED  BY <1>2, <2>1, <2>2, <3>1, <3>5
    <2> QED  BY <2>3, <2>4
  <1>5. CASE ~dt.signed
    <2>1. 0 <= v /\ v <= m - 1
      BY <1>1, <1>2, <1>5 DEF Bounds
    <2>2. AsDtype(dt, x) = x
      BY <1>5 DEF AsDtype
    <2>3. m * 0 + v = v
      BY <1>2
    <2>4. m \in Nat \ {0} /\ 0 \in Int /\ 0 <= v /\ v < m
      BY <1>2, <2>1
    <2>5. (m * 0 + v) % m = v
      BY <2>4, DivModUnique
    <2> QED  BY <1>3, <2>2, <2>3, <2>5
  <1> QED  BY <1>4, <1>5

\* Whole numbers apart do not change a remainder.
LEMMA ModPlus ==
  ASSUME NEW m \in Nat \ {0}, NEW a \in Int, NEW z \in Int
  PROVE  ((a % m) + z) % m = (a + z) % m
  <1>1. PICK q, r : q = a \div m /\ r = a % m
    OBVIOUS
  <1>2. q \in Int /\ r \in Int /\ a = m * q + r
    BY <1>1, DivMod
  <1>3. PICK y \in Int : y = r + z
    BY <1>2
  <1>4. PICK p, t : p = y \div m /\ t = y % m
    OBVIOUS
  <1>5. p \in Int /\ t \in Int /\ y = m * p + t /\ 0 <= t /\ t < m
    BY <1>3, <1>4, DivMod
  <1>6. PICK u \in Int : u = q + p
    BY <1>2, <1>5
  <1>7. a + z = m * u + t
    <2>1. m * (q + p) = m * q + m * p
      BY <1>2, <1>5
    <2>2. PICK mq, mp, mu \in Int : mq = m * q /\ mp = m * p /\ mu = m * u
      BY <1>2, <1>5
    <2>3. mu = mq + mp
      BY <1>6, <2>1, <2>2
    <2>4. a = mq + r /\ r + z = mp + t
      BY <1>2, <1>3, <1>5, <2>2
    <2>5. a + z = mu + t
      BY <1>2, <1>5, <2>2, <2>3, <2>4
    <2> QED  BY <2>2, <2>5
  <1>8. (m * u + t) % m = t
    BY <1>5, <1>6, DivModUnique
  <1> QED  BY <1>1, <1>3, <1>4, <1>7, <1>8

\* Of a sequence of T everything is kept.
LEMMA KeptAll ==
  ASSUME NEW s, Len(s) \in Nat, NEW T, \A k \in 1..Len(s) : s[k] \in T
  PROVE  Len(KeptOf(s, T)) = Len(s) /\ \A k \in 1..Len(s) : KeptOf(s, T)[k] = s[k]
  <1>1. PICK n \in Nat : n = Len(s)
    OBVIOUS
  <1>2. PICK f : Keeping(f, s, T) /\ KeptOf(s, T) = f[n]
    BY <1>1, KeptChain
  <1> DEFINE Good(a, k) == /\ a \in Seq(T) /\ Len(a) = k
                           /\ \A i \in 1..k : a[i] = s[i]
             U == {k \in 0..n : Good(f[k], k)}
  <1>3. 0 \in U
    <2>1. PICK a : a = f[0] /\ a = <<>>
      BY <1>2 DEF Keeping
    <2>2. Good(a, 0)
      BY <2>1
    <2>3. a = f[0]
      BY <2>1
    <2> HIDE DEF Good
    <2>4. Good(f[0], 0)
      BY <2>2, <2>3
    <2> QED  BY <2>4
  <1>4. ASSUME NEW k \in 0..n - 1, k \in U
        PROVE  k + 1 \in U
    <2>1. k + 1 \in 1..n /\ (k + 1) - 1 = k /\ k + 1 \in 0..n
      OBVIOUS
    <2>2. PICK x \in T : x = s[k + 1]
      BY <1>1, <2>1
    <2>3. PICK a, b : a = f[k] /\ b = f[k + 1]
      OBVIOUS
    <2>4. b = Append(a, x)
      BY <1>1, <1>2, <2>1, <2>2, <2>3 DEF Keeping
    <2>5. Good(a, k)
      <3> HIDE DEF Good
      <3> QED  BY <1>4, <2>3
    <2>6. b \in Seq(T) /\ Len(b) = k + 1 /\ b[k + 1] = x /\ \A i \in 1..k : b[i] = a[i]
      BY <2>4, <2>5
    <2>7. ASSUME NEW i \in 1..k + 1  PROVE b[i] = s[i]
      <3>1. i \in 1..k \/ i = k + 1
        OBVIOUS
      <3> QED  BY <2>2, <2>5, <2>6, <3>1
    <2>8. Good(b, k + 1)
      BY <2>6, <2>7
    <2> HIDE DEF Good
    <2> QED  BY <2>1, <2>3, <2>8
  <1>5. U = 0..n
    <2> HIDE DEF U
    <2>1. U \in SUBSET (0..n)
      BY DEF U
    <2> QED  BY <1>3, <1>4, <2>1, UpTo
  <1>6. Good(f[n], n)
    <2> HIDE DEF Good
    <2> QED  BY <1>5
  <1> QED  BY <1>1, <1>2, <1>6

\* A half word asked for as a value of its full range is the next 32-bit draw.
LEMMA WholeHalf ==
  ASSUME NEW s, Faithful(s), NEW t, t = bounded(Half, 0, 2^Half - 1, s)
  PROVE  Faithful(t) /\ \E x \in Asked : /\ x.val \in 0..2^Half - 1
                                         /\ t.asked = Append(s.asked, x) /\ t.val = x.val
  <1>1. PICK h \in Nat : h = 2^Half /\ h >= 2
    <2>1. Half \in Widths
      BY DEF Widths
    <2> QED  BY <2>1, PowerAbove
  <1>2. PICK r : r = next_u32(s)
    OBVIOUS
  <1>3. PICK x : Asks(Half, s, r, x)
    BY <1>2, WordAsked
  <1>4. x \in Asked /\ x.val \in 0..h - 1 /\ r.asked = Append(s.asked, x) /\ r.val = x.val
    BY <1>1, <1>3 DEF Asks
  <1>5. Faithful(r)
    BY <1>2, Draw32Faithful
  <1>6. PICK v \in Int : v = x.val /\ 0 <= v /\ v < h
    BY <1>4
  <1>7. (0 + v) % h = v
    <2>1. h * 0 + v = v /\ 0 + v = v
      OBVIOUS
    <2>2. h \in Nat \ {0} /\ 0 \in Int
      BY <1>1
    <2>3. (h * 0 + v) % h = v
      BY <1>6, <2>2, DivModUnique
    <2> QED  BY <2>1, <2>3
  <1>8. Draw(Half, s) = r
    BY <1>2, WidthsDiffer DEF Draw
  <1>9. t = OfVal(r, LAMBDA y : (0 + y) % 2^Half)
    <2>1. PICK w, g : w = (IF Half = Word /\ g < 2^Half THEN Half ELSE Half) /\ g = 2^Half - 1
      OBVIOUS
    <2>2. w = Half /\ g # 0 /\ g = 2^w - 1
      BY <1>1, <2>1
    <2>3. t = OfVal(CASE g = 0 -> [s EXCEPT !.val = 0]
                      [] g = 2^w - 1 -> Draw(w, s)
                      [] OTHER -> lemire(w, g, s), LAMBDA y : (0 + y) % 2^Half)
      BY <2>1 DEF bounded
    <2>4. t = OfVal(Draw(w, s), LAMBDA y : (0 + y) % 2^Half)
      BY <2>2, <2>3
    <2> QED  BY <1>8, <2>2, <2>4
  <1>10. t = Valued(r, v)
    <2>1. r.val = v /\ r.val # NoValue
      BY <1>4, <1>6 DEF NoValue
    <2>2. (0 + v) % 2^Half = v
      BY <1>1, <1>7
    <2> QED  BY <1>9, <2>1, <2>2 DEF OfVal, Valued
  <1>11. Faithful(t) /\ t.val = v
    BY <1>5, <1>10, WritesFaithful
  <1>12. t.asked = r.asked
    <2>1. Shaped(r)
      BY <1>5 DEF Faithful
    <2>2. t = State(r.seed, r.pos, r.has, r.half, r.bcnt, r.buf, v, r.asked)
      BY <1>10, <2>1, RestExcept
    <2> QED  BY <2>2 DEF State
  <1> QED  BY <1>1, <1>4, <1>6, <1>11, <1>12

\* What m half words in a row draw, b, and give, vals.
HalvesDrawn(m, b, vals) ==
    /\ b \in Seq(Asked) /\ Len(b) = m
    /\ \A k \in 1..m : vals[k] = b[k].val /\ vals[k] \in 0..2^Half - 1

LEMMA WholeHalves ==
  ASSUME NEW m \in Nat, NEW s, Faithful(s), NEW q, q = Bounded(Half, 0, 2^Half - 1),
         NEW d, d = Draws(Times(m, q), s),
         NEW b, b = SubSeq(d.s.asked, Len(s.asked) + 1, Len(d.s.asked))
  PROVE  HalvesDrawn(m, b, d.out)
  <1>1. PICK asks : asks = Times(m, q)
    OBVIOUS
  <1>2. Len(asks) = m /\ \A k \in 1..m : asks[k] = q
    <2>1. /\ Len(asks) = IF m > 0 THEN m ELSE 0
          /\ \A k \in 1..Len(asks) : asks[k] = q
      BY <1>1, TimesAll
    <2>2. m = 0 \/ m > 0
      OBVIOUS
    <2> QED  BY <2>1, <2>2
  <1>3. PICK e : /\ e[0] = [s |-> s, out |-> <<>>]
                 /\ \A k \in 1..m : e[k] = DrawOne(e[k - 1], asks[k])
                 /\ d = e[m]
    <2>1. Len(asks) \in Nat
      BY <1>2
    <2>2. \E c : /\ c[0] = [s |-> s, out |-> <<>>]
                 /\ \A k \in 1..Len(asks) : c[k] = DrawOne(c[k - 1], asks[k])
                 /\ Draws(asks, s) = c[Len(asks)]
      BY <2>1, DrawsChain
    <2> QED  BY <1>1, <1>2, <2>2
  <1>4. PICK from \in Nat : from = Len(s.asked)
    <2>1. PICK a \in Seq(Asked) : a = s.asked
      BY DEF Faithful
    <2>2. PICK i \in Nat : i = Len(a)
      OBVIOUS
    <2> QED  BY <2>1, <2>2
  <1>5. PICK V : V = 0..2^Half - 1
    OBVIOUS
  <1> DEFINE Good(x, k) == /\ Faithful(x.s) /\ Len(x.s.asked) = from + k
                           /\ x.out \in Seq(V) /\ Len(x.out) = k
                           /\ \A i \in 1..k : x.out[i] = x.s.asked[from + i].val
             F == {k \in 0..m : Good(e[k], k)}
  <1>6. 0 \in F
    <2>1. e[0].s = s /\ e[0].out = <<>>
      BY <1>3
    <2>2. <<>> \in Seq(V) /\ Len(<<>>) = 0 /\ from + 0 = from
      OBVIOUS
    <2>3. Good(e[0], 0)
      BY <1>4, <2>1, <2>2
    <2> HIDE DEF Good
    <2> QED  BY <2>3
  <1>7. ASSUME NEW k \in 0..m - 1, k \in F
        PROVE  k + 1 \in F
    <2>1. k + 1 \in 1..m /\ (k + 1) - 1 = k /\ k + 1 \in 0..m
      OBVIOUS
    <2>2. PICK was, is : was = e[k] /\ is = e[k + 1]
      OBVIOUS
    <2>3. PICK p, t : p = was.s /\ t = bounded(Half, 0, 2^Half - 1, p)
      OBVIOUS
    <2>4. is.s = t /\ is.out = Append(was.out, t.val)
      <3>1. is = DrawOne(was, q)
        BY <1>2, <1>3, <2>1, <2>2
      <3>2. Answer(q, was.s) = t
        BY <2>3 DEF Answer, Bounded
      <3> QED  BY <3>1, <3>2 DEF DrawOne
    <2>5. Good(was, k)
      <3> HIDE DEF Good
      <3> QED  BY <1>7, <2>2
    <2>6. Faithful(p)
      BY <2>3, <2>5
    <2>7. Faithful(t)
      BY <2>3, <2>6, WholeHalf
    <2>8. PICK x \in Asked : /\ x.val \in 0..2^Half - 1
                             /\ t.asked = Append(p.asked, x) /\ t.val = x.val
      BY <2>3, <2>6, WholeHalf
    <2>9. PICK y \in V : y = x.val
      BY <1>5, <2>8
    <2>10. PICK a, c \in Seq(Asked) : a = p.asked /\ c = t.asked
      BY <2>6, <2>7 DEF Faithful
    <2>11. Len(a) = from + k
      BY <2>3, <2>5, <2>10
    <2>12. c = Append(a, x)
      BY <2>8, <2>10
    <2>13. Len(c) = Len(a) + 1 /\ c[Len(a) + 1] = x /\ \A i \in 1..Len(a) : c[i] = a[i]
      BY <2>12
    <2>14. PICK out, more : out = was.out /\ more = is.out
      OBVIOUS
    <2>15. out \in Seq(V) /\ Len(out) = k /\ more = Append(out, y)
      BY <2>4, <2>5, <2>8, <2>9, <2>14
    <2>16. /\ more \in Seq(V) /\ Len(more) = k + 1 /\ more[k + 1] = y
           /\ \A i \in 1..k : more[i] = out[i]
      BY <2>15
    <2>17. ASSUME NEW i \in 1..k + 1  PROVE more[i] = c[from + i].val
      <3>1. CASE i = k + 1
        <4>1. from + i = Len(a) + 1
          BY <2>11, <3>1
        <4> QED  BY <2>9, <2>13, <2>16, <3>1, <4>1
      <3>2. CASE i # k + 1
        <4>1. i \in 1..k /\ from + i \in 1..from + k
          BY <3>2
        <4>2. more[i] = out[i] /\ c[from + i] = a[from + i]
          BY <2>11, <2>13, <2>16, <4>1
        <4>3. out[i] = a[from + i].val
          BY <2>3, <2>5, <2>10, <2>14, <4>1
        <4> QED  BY <4>2, <4>3
      <3> QED  BY <3>1, <3>2
    <2>18. Len(c) = from + (k + 1)
      BY <2>11, <2>13
    <2>19. Good(is, k + 1)
      BY <2>4, <2>7, <2>10, <2>14, <2>16, <2>17, <2>18
    <2> HIDE DEF Good
    <2> QED  BY <2>1, <2>2, <2>19
  <1>8. F = 0..m
    <2> HIDE DEF F
    <2>1. F \in SUBSET (0..m)
      BY DEF F
    <2> QED  BY <1>6, <1>7, <2>1, UpTo
  <1>9. Good(d, m)
    <2> HIDE DEF Good
    <2> QED  BY <1>3, <1>8
  <1>10. PICK a \in Seq(Asked) : a = d.s.asked
    BY <1>9 DEF Faithful
  <1>11. Drew(a, from, m, b)
    <2>1. Len(a) = from + m
      BY <1>9, <1>10
    <2>2. PICK len \in Nat : len = Len(a)
      OBVIOUS
    <2>3. from \in 0..Len(a) /\ m = Len(a) - from
      BY <2>1, <2>2
    <2>4. b = SubSeq(a, from + 1, Len(a))
      BY <1>4, <1>10
    <2> QED  BY <2>3, <2>4, DrewIs
  <1>12. ASSUME NEW k \in 1..m  PROVE d.out[k] = b[k].val /\ d.out[k] \in 0..2^Half - 1
    <2>1. d.out[k] = a[from + k].val /\ b[k] = a[from + k]
      BY <1>9, <1>10, <1>11 DEF Drew
    <2>2. d.out \in Seq(V) /\ Len(d.out) = m
      BY <1>9
    <2>3. PICK out : out = d.out
      OBVIOUS
    <2>4. out \in Seq(V) /\ Len(out) = m
      BY <2>2, <2>3
    <2>5. out[k] \in V
      BY <2>4
    <2> QED  BY <1>5, <2>1, <2>3, <2>5
  <1>13. b \in Seq(Asked) /\ Len(b) = m
    BY <1>11 DEF Drew
  <1> QED  BY <1>12, <1>13 DEF HalvesDrawn

\* What `integers` returns for a range that its dtype holds.
LEMMA IntegersFollow ==
  ASSUME NEW dt \in [width : Widths, signed : BOOLEAN], NEW W, W = dt.width,
         NEW low \in Int, NEW high \in Int, NEW n \in Nat,
         n > 0 => low >= Bounds(dt)[1] /\ high - 1 <= Bounds(dt)[2] /\ low < high,
         NEW s, Faithful(s), s.bcnt = 0,
         NEW d, d = Draws(Times(n, Bounded(W, low % 2^W, high - 1 - low)), s), Complete(d),
         NEW b, b = SubSeq(d.s.asked, Len(s.asked) + 1, Len(d.s.asked)),
         NEW out, out = [k \in 1..n |-> AsDtype(dt, d.out[k])]
  PROVE  FollowsDraws(W, low, high - 1, n, out, b)
  <1>1. W \in Widths
    OBVIOUS
  <1>2. PICK m, h \in Nat : m = 2^W /\ h = 2^(W - 1) /\ m = 2 * h /\ h > 0
    BY <1>1, PowerAbove
  <1>3. PICK off, rng, last1 \in Int : off = low % 2^W /\ rng = high - 1 - low /\ last1 = high - 1
    <2>1. low % m \in Int
      BY <1>2, DivMod
    <2> QED  BY <1>2, <2>1
  <1>4. rng = last1 - low
    BY <1>3
  <1>5. n > 0 => rng \in 0..2^W - 1
    <2> SUFFICES ASSUME n > 0  PROVE rng \in 0..m - 1
      BY <1>2
    <2>1. m = 2 * h /\ h \in Nat /\ rng = high - 1 - low
      BY <1>2, <1>3
    <2>2. low < high /\ high - 1 - low <= m - 1
      <3>1. CASE dt.signed
        <4>1. -h <= low /\ high - 1 <= h - 1 /\ low < high
          BY <1>2, <3>1 DEF Bounds
        <4>2. high - 1 - low <= m - 1
          BY <2>1, <4>1
        <4> QED  BY <4>1, <4>2
      <3>2. CASE ~dt.signed
        <4>1. 0 <= low /\ high - 1 <= m - 1 /\ low < high
          BY <1>2, <3>2 DEF Bounds
        <4> QED  BY <4>1
      <3> QED  BY <3>1, <3>2
    <2> QED  BY <2>1, <2>2
  <1>6. PICK vals : vals = d.out
    OBVIOUS
  <1>7. BoundedCall(W, off, rng, n, b, vals)
    <2>1. d = Draws(Times(n, Bounded(W, off, rng)), s)
      BY <1>3
    <2> QED  BY <1>1, <1>3, <1>5, <1>6, <2>1, BoundedCalls
  <1>8. Decodes(W, off, rng, n, low, vals, out)
    <2> SUFFICES ASSUME NEW k \in 1..n, NEW z \in 0..rng, vals[k] = (off + z) % 2^W
                 PROVE  out[k] = low + z
      BY DEF Decodes
    <2>1. PICK x, v \in Int : x = (off + z) % m /\ v = low + z
      <3>1. (off + z) % m \in Int
        <4>1. off \in Int /\ z \in Int
          BY <1>3
        <4>2. PICK sum \in Int : sum = off + z
          BY <4>1
        <4>3. m \in Nat \ {0}
          BY <1>2
        <4>4. sum % m \in Int
          BY <4>2, <4>3, DivMod
        <4> QED  BY <4>2, <4>4
      <3> QED  BY <1>3, <3>1
    <2>2. x = v % 2^dt.width
      <3>1. m \in Nat \ {0} /\ z \in Int
        BY <1>2
      <3>2. ((low % m) + z) % m = (low + z) % m
        BY <3>1, ModPlus
      <3> QED  BY <1>2, <1>3, <2>1, <3>2
    <2>3. low >= Bounds(dt)[1] /\ high - 1 <= Bounds(dt)[2]
      OBVIOUS
    <2>4. low <= v /\ v <= high - 1
      BY <1>3, <2>1
    <2>5. v >= Bounds(dt)[1] /\ v <= Bounds(dt)[2]
      <3>1. PICK lo, hi \in Int : lo = Bounds(dt)[1] /\ hi = Bounds(dt)[2]
        <4>1. CASE dt.signed
          BY <1>2, <4>1 DEF Bounds
        <4>2. CASE ~dt.signed
          BY <1>2, <4>2 DEF Bounds
        <4> QED  BY <4>1, <4>2
      <3> QED  BY <2>3, <2>4, <3>1
    <2>6. AsDtype(dt, x) = v
      BY <2>2, <2>5, AsDtypeGives
    <2>7. vals[k] = x
      BY <1>2, <2>1
    <2> QED  BY <1>6, <2>1, <2>6, <2>7
  <1>9. Len(out) = n
    <2>1. PICK S : S = {out[k] : k \in 1..n}
      OBVIOUS
    <2>2. out \in [1..n -> S]
      BY <2>1
    <2> QED  BY <2>2
  <1>10. FollowsDraws(W, low, last1, n, out, b)
    BY <1>1, <1>3, <1>4, <1>5, <1>7, <1>8, <1>9, BoundedFollows
  <1> QED  BY <1>3, <1>10

\* What a choice with replacement returns.
LEMMA ChoiceFollow ==
  ASSUME NEW pop \in Nat, pop <= 2^(Word - 1) - 1, NEW n \in Nat, n > 0 => pop > 0,
         NEW s, Faithful(s), s.bcnt = 0,
         NEW d, d = Draws(Times(n, Bounded(Word, 0, pop - 1)), s), Complete(d),
         NEW b, b = SubSeq(d.s.asked, Len(s.asked) + 1, Len(d.s.asked))
  PROVE  FollowsDraws(Word, 0, pop - 1, n, d.out, b)
  <1>1. PICK W \in Widths : W = Word
    BY DEF Widths
  <1>2. PICK m, h \in Nat : m = 2^W /\ h = 2^(W - 1) /\ m = 2 * h /\ h > 0
    BY PowerAbove
  <1>3. pop <= h - 1
    BY <1>1, <1>2
  <1>4. PICK off, low, rng, high \in Int : off = 0 /\ low = 0 /\ rng = pop - 1 /\ high = pop - 1
    OBVIOUS
  <1>5. n > 0 => rng \in 0..2^W - 1
    BY <1>2, <1>3, <1>4
  <1>6. PICK vals : vals = d.out
    OBVIOUS
  <1>7. BoundedCall(W, off, rng, n, b, vals)
    <2>1. d = Draws(Times(n, Bounded(W, off, rng)), s)
      BY <1>1, <1>4
    <2> QED  BY <1>5, <1>6, <2>1, BoundedCalls
  <1>8. Len(vals) = n
    BY <1>7 DEF BoundedCall
  <1>9. Decodes(W, off, rng, n, low, vals, vals)
    <2> SUFFICES ASSUME NEW k \in 1..n, NEW z \in 0..rng, vals[k] = (off + z) % 2^W
                 PROVE  vals[k] = low + z
      BY DEF Decodes
    <2>1. m \in Nat \ {0} /\ 0 \in Int /\ z \in Int /\ 0 <= z /\ z < m
      BY <1>2, <1>3, <1>4
    <2>2. (m * 0 + z) % m = z
      BY <2>1, DivModUnique
    <2>3. m * 0 + z = off + z
      BY <1>2, <1>4, <2>1
    <2>4. (off + z) % m = z
      BY <2>2, <2>3
    <2>5. vals[k] = z
      BY <1>2, <2>4
    <2> QED  BY <1>4, <2>1, <2>5
  <1>10. rng = high - low
    BY <1>4
  <1>11. FollowsDraws(W, low, high, n, vals, b)
    BY <1>4, <1>5, <1>7, <1>8, <1>9, <1>10, BoundedFollows
  <1> QED  BY <1>1, <1>4, <1>6, <1>11

\* What `bytes` returns: a byte is a piece of a half word.
LEMMA BytesFollow ==
  ASSUME NEW n \in Nat, NEW m, m = (n + 3) \div 4, NEW v, v = Half \div 4,
         NEW b, NEW vals, HalvesDrawn(m, b, vals),
         NEW out, out = [k \in 1..n |-> Bytes(vals[((k - 1) \div 4) + 1], k - 1)]
  PROVE  FollowsDraws(v, 0, 2^v - 1, n, out, b)
  <1>1. /\ v \in Widths /\ v \in Nat \ {0} /\ Half = 4 * v /\ v < Half /\ v # Word
        /\ PerWord(v) = 4
    <2>1. Half \in Nat \ {0} /\ Word = 2 * Half /\ Half % 4 = 0
      BY BitGenAssumption DEF Word
    <2>2. v \in Nat \ {0} /\ Half = 4 * v
      BY <2>1
    <2>3. v < Half /\ v # Word
      BY <2>1, <2>2
    <2>4. (v * 4 + 0) \div v = 4
      BY <2>2, DivModUnique
    <2>5. Half \div v = 4
      <3>1. v * 4 + 0 = Half
        BY <2>2
      <3> QED  BY <2>4, <3>1
    <2>6. PerWord(v) = 4
      BY <2>1, <2>2, <2>3, <2>5 DEF PerWord
    <2>7. v \in Widths
      BY DEF Widths
    <2> QED  BY <2>2, <2>3, <2>6, <2>7
  <1>2. PICK e \in Nat : e = 2^v /\ e >= 2
    BY <1>1, PowerAbove
  <1>3. m \in Nat /\ 4 * m <= n + 3 /\ n <= 4 * m
    OBVIOUS
  <1>4. b \in Seq(Asked) /\ Len(b) = m /\ \A k \in 1..m : vals[k] = b[k].val
    BY DEF HalvesDrawn
  <1>5. PICK cl \in Nat : cl = 4 * m
    BY <1>3
  <1>6. PICK p : p = Pieces(b, v)
    OBVIOUS
  <1>7. Len(p) = cl /\ \A k \in 1..cl : p[k] = Piece(v, 0, b, k)
    <2>1. Drew(b, 0, m, b)
      <3>1. \A i \in 1..m : 0 + i = i
        BY <1>3
      <3> QED  BY <1>4, <3>1 DEF Drew
    <2>2. CutInto(v, 0, b, m, p)
      <3>1. 0 \in Nat
        OBVIOUS
      <3> QED  BY <1>1, <1>3, <1>6, <2>1, <3>1, PiecesAre
    <2> QED  BY <1>1, <1>5, <2>2 DEF CutInto
  <1>8. ASSUME NEW k \in 1..cl  PROVE Piece(v, 0, b, k) \in 0..e - 1
    <2>1. PICK i, j : i = (k - 1) \div 4 /\ j = (k - 1) % 4
      OBVIOUS
    <2>2. i \in 0..m - 1 /\ j \in 0..3
      BY <1>3, <1>5, <2>1
    <2>3. PICK x \in Nat : x = b[i + 1].val
      <3>1. i + 1 \in 1..m
        BY <1>3, <2>2
      <3>2. b[i + 1] \in Asked
        BY <1>4, <3>1
      <3>3. b[i + 1].val \in Values
        BY <3>2 DEF Asked
      <3> QED  BY <3>3, ValuesAreNat
    <2>4. PICK g \in Nat \ {0} : g = 2^(j * v)
      <3>1. j * v \in 0..Word
        <4>1. j = 0 \/ j = 1 \/ j = 2 \/ j = 3
          BY <2>2
        <4>2. Word = 8 * v
          BY <1>1 DEF Word
        <4> QED  BY <1>1, <4>1, <4>2
      <3> QED  BY <3>1, PowerType
    <2>5. (x \div g) % e \in 0..e - 1
      <3>0. x \in Int /\ g \in Nat \ {0}
        OBVIOUS
      <3>1. PICK q \in Int : q = x \div g
        <4>1. x \div g \in Int
          BY <3>0, DivMod
        <4> QED  BY <4>1
      <3>2. e \in Nat \ {0}
        BY <1>2
      <3>3. q % e \in Int /\ 0 <= q % e /\ q % e < e
        BY <3>2, DivMod
      <3> QED  BY <3>1, <3>2, <3>3
    <2>6. Piece(v, 0, b, k) = (x \div g) % e
      <3>1. 0 + i + 1 = i + 1
        BY <2>2
      <3>2. Piece(v, 0, b, k) = PieceOf(v, b[0 + i + 1].val, j)
        BY <1>1, <2>1 DEF Piece
      <3> QED  BY <1>2, <2>3, <2>4, <3>1, <3>2 DEF PieceOf
    <2> QED  BY <2>5, <2>6
  <1>9. ASSUME NEW k \in 1..n  PROVE k \in 1..cl /\ out[k] = p[k]
    <2>1. k \in 1..cl
      BY <1>3, <1>5
    <2>2. PICK i, j : i = (k - 1) \div 4 /\ j = (k - 1) % 4
      OBVIOUS
    <2>3. i \in 0..m - 1
      BY <1>3, <1>5, <2>1, <2>2
    <2>4. i + 1 \in 1..m /\ 0 + i + 1 = i + 1
      BY <1>3, <2>3
    <2>5. PICK x : x = vals[i + 1]
      OBVIOUS
    <2>6. b[i + 1].val = x
      BY <1>4, <2>4, <2>5
    <2>7. out[k] = (x \div 2^(j * v)) % 2^v
      <3>1. out[k] = Bytes(x, k - 1)
        BY <2>2, <2>5
      <3> QED  BY <2>2, <3>1 DEF Bytes
    <2>8. p[k] = PieceOf(v, b[0 + i + 1].val, j)
      BY <1>1, <1>7, <2>1, <2>2 DEF Piece
    <2> QED  BY <2>1, <2>4, <2>6, <2>7, <2>8 DEF PieceOf
  <1>10. PICK rng \in Nat : rng = e - 1
    BY <1>2
  <1>11. rng # 0 /\ rng = 2^v - 1 /\ 2^v - 1 - 0 = rng
    BY <1>2, <1>10
  <1>12. PICK T : T = 0..e - 1
    OBVIOUS
  <1>13. UsableOf(v, rng) = T
    BY <1>2, <1>11, <1>12 DEF UsableOf
  <1>14. DrawWidth(v, rng) = v
    BY <1>1 DEF DrawWidth
  <1>15. \A k \in 1..cl : KeptOf(p, T)[k] = p[k]
    <2>1. Len(p) \in Nat /\ \A k \in 1..Len(p) : p[k] \in T
      BY <1>5, <1>7, <1>8, <1>12
    <2> QED  BY <1>7, <2>1, KeptAll
  <1>16. ASSUME NEW k \in 1..n
         PROVE  out[k] = 0 + InRange(v, rng, KeptOf(p, T)[k]) /\ out[k] \in 0..rng
    <2>1. PICK x \in 0..e - 1 : x = p[k]
      BY <1>7, <1>8, <1>9
    <2>2. out[k] = x /\ KeptOf(p, T)[k] = x
      BY <1>9, <1>15, <2>1
    <2>3. InRange(v, rng, x) = x
      BY <1>11 DEF InRange
    <2>4. 0 + x = x
      OBVIOUS
    <2> QED  BY <1>10, <2>2, <2>3, <2>4
  <1>17. Len(out) = n
    <2>1. PICK S : S = {out[k] : k \in 1..n}
      OBVIOUS
    <2>2. out \in [1..n -> S]
      BY <2>1
    <2> QED  BY <2>2
  <1>18. CASE n = 0
    <2>1. m = 0
      BY <1>3, <1>18
    <2>2. b = <<>>
      BY <1>4, <2>1
    <2>3. Len(out) = n /\ \A k \in 1..n : out[k] \in 0..2^v - 1
      BY <1>17, <1>18
    <2> QED  BY <1>18, <2>2, <2>3 DEF FollowsDraws
  <1>19. CASE n # 0
    <2>1. PICK l \in Nat : l = m - 1
      BY <1>3, <1>19
    <2>2. PICK f : f = Front(b)
      OBVIOUS
    <2>3. Drew(b, 0, l, f)
      <3>1. f = SubSeq(b, 1, l)
        BY <1>4, <2>1, <2>2 DEF Front
      <3>2. 1 \in 1..m + 1 /\ l \in 1 - 1..m
        BY <1>3, <2>1
      <3>3. /\ f \in Seq(Asked) /\ Len(f) = l - 1 + 1
            /\ \A i \in 1..l - 1 + 1 : f[i] = b[1 + i - 1]
        BY <1>4, <3>1, <3>2, SubSeqProperties
      <3>4. Len(f) = l
        BY <2>1, <3>3
      <3>5. ASSUME NEW i \in 1..l  PROVE f[i] = b[0 + i]
        <4>1. i \in 1..l - 1 + 1 /\ 1 + i - 1 = 0 + i
          BY <2>1
        <4> QED  BY <3>3, <4>1
      <3> QED  BY <3>3, <3>4, <3>5 DEF Drew
    <2>4. PICK q : q = Pieces(f, v)
      OBVIOUS
    <2>5. PICK ql \in Nat : ql = 4 * l /\ ql < n /\ ql <= cl
      BY <1>3, <1>5, <2>1
    <2>6. Len(q) = ql /\ \A k \in 1..ql : q[k] = Piece(v, 0, b, k)
      <3>1. CutInto(v, 0, b, l, q)
        <4>1. 0 \in Nat
          OBVIOUS
        <4> QED  BY <1>1, <2>3, <2>4, <4>1, PiecesAre
      <3> QED  BY <1>1, <2>5, <3>1 DEF CutInto
    <2>7. Len(KeptOf(q, T)) < n
      <3>1. Len(q) \in Nat
        BY <2>5, <2>6
      <3>2. ASSUME NEW k \in 1..Len(q)  PROVE q[k] \in T
        <4>1. k \in 1..ql /\ k \in 1..cl
          BY <2>5, <2>6
        <4> QED  BY <1>8, <1>12, <2>6, <4>1
      <3>3. Len(KeptOf(q, T)) = Len(q)
        BY <3>1, <3>2, KeptAll
      <3> QED  BY <2>5, <2>6, <3>3
    <2>8. \A k \in 1..n : out[k] \in 0..2^v - 1
      BY <1>11, <1>16
    <2>9. \A k \in 1..n : out[k] = 0 + InRange(v, rng, KeptOf(Pieces(b, v), T)[k])
      BY <1>6, <1>16
    <2>10. Len(KeptOf(Pieces(Front(b), v), T)) < n
      BY <2>2, <2>4, <2>7
    <2> QED  BY <1>11, <1>13, <1>14, <1>17, <1>19, <2>8, <2>9, <2>10 DEF FollowsDraws
  <1> QED  BY <1>18, <1>19

----------------------------------------------------------------------------
(* The calls of a generator.                                                  *)

\* Between calls an object has no piece of a word left over.
Object(x) == x = [kind |-> x.kind, s |-> x.s] /\ Faithful(x.s) /\ x.s.bcnt = 0

Objects == /\ obj = [o \in Objs |-> obj[o]]
           /\ \A o \in Objs : obj[o] # None => Object(obj[o])

\* A call `integers` has returned what it drew.
Returned(l) == FollowsDraws(l.args.width, l.args.low, l.args.high, l.args.n, l.out, l.drew)

LastSound == /\ last.op = "integers" => last.args.width \in Int /\ Returned(last)
             /\ UrnsAddUp
             /\ WeightedAreDistinct

\* What an object has drawn when it comes to t.
DrewFrom(s, t) == SubSeq(t.asked, Len(s.asked) + 1, Len(t.asked))

\* A call that draws from the object's stream, and what its result is known to be.
Answers(o) ==
    \E t, op, args, out :
       /\ Call(o, t, op, args, out)
       /\ Faithful(t)
       /\ op = "integers" =>
            /\ args.width \in Int
            /\ FollowsDraws(args.width, args.low, args.high, args.n, out, DrewFrom(obj[o].s, t))
       /\ op = "urn" => /\ SumOf(out, 1) = args.n
                        /\ \A k \in DOMAIN out : out[k] \in 0..args.colors[k]
       /\ op = "weighted" => /\ Len(out) = args.size
                             /\ Cardinality(Range(out)) = args.size
                             /\ \A k \in DOMAIN out : args.p[out[k] + 1] > 0

LEMMA CallKeeps ==
  ASSUME Objects, NEW o \in Objs, obj[o] # None, Answers(o)
  PROVE  Objects' /\ LastSound'
  <1>1. PICK t, op, args, out :
           /\ Call(o, t, op, args, out)
           /\ Faithful(t)
           /\ op = "integers" =>
                /\ args.width \in Int
                /\ FollowsDraws(args.width, args.low, args.high, args.n, out,
                                DrewFrom(obj[o].s, t))
           /\ op = "urn" => /\ SumOf(out, 1) = args.n
                            /\ \A k \in DOMAIN out : out[k] \in 0..args.colors[k]
           /\ op = "weighted" => /\ Len(out) = args.size
                                 /\ Cardinality(Range(out)) = args.size
                                 /\ \A k \in DOMAIN out : args.p[out[k] + 1] > 0
    BY DEF Answers
  <1>2. PICK u : u = Unbuffered(t, 0, 0, 0)
    OBVIOUS
  <1>3. Faithful(u)
    BY <1>1, <1>2, WritesFaithful
  <1>4. PICK x : x = [obj[o] EXCEPT !.s = u]
    OBVIOUS
  <1>5. obj' = [obj EXCEPT ![o] = x]
    BY <1>1, <1>2, <1>4 DEF Call, Unbuffered
  <1>6. Object(x)
    <2>1. PICK kind, s : obj[o] = [kind |-> kind, s |-> s]
      BY DEF Objects, Object
    <2>2. x = [kind |-> kind, s |-> u]
      BY <1>4, <2>1
    <2>3. x.s = u /\ x = [kind |-> x.kind, s |-> x.s]
      BY <2>2
    <2>4. Faithful(x.s)
      BY <1>3, <2>3
    <2>5. u.bcnt = 0
      <3>1. Shaped(t)
        BY <1>1 DEF Faithful
      <3>2. u = State(t.seed, t.pos, t.has, t.half, 0, 0, 0, t.asked)
        BY <1>2, <3>1, RestExcept
      <3> QED  BY <3>2 DEF State
    <2> QED  BY <2>3, <2>4, <2>5 DEF Object
  <1>7. Objects'
    <2>1. obj' = [p \in Objs |-> obj'[p]]
      BY <1>5 DEF Objects
    <2>2. ASSUME NEW p \in Objs, obj'[p] # None
          PROVE  Object(obj'[p])
      <3>1. CASE p = o
        <4>1. obj'[p] = x
          BY <1>5, <3>1 DEF Objects
        <4> QED  BY <1>6, <4>1
      <3>2. CASE p # o
        <4>1. obj'[p] = obj[p]
          BY <1>5, <3>2 DEF Objects
        <4>2. Object(obj[p])
          BY <2>2, <4>1 DEF Objects
        <4> QED  BY <4>1, <4>2
      <3> QED  BY <3>1, <3>2
    <2> QED  BY <2>1, <2>2 DEF Objects
  <1>8. PICK drew : /\ last' = [op |-> op, args |-> args, out |-> out, drew |-> drew]
                    /\ drew = DrewFrom(obj[o].s, t)
    BY <1>1 DEF Call, DrewFrom
  <1>9. last'.op = op /\ last'.args = args /\ last'.out = out /\ last'.drew = drew
    BY <1>8
  <1>10. (last.op = "integers" => last.args.width \in Int /\ Returned(last))'
    BY <1>1, <1>8, <1>9 DEF Returned
  <1>11. (UrnsAddUp /\ WeightedAreDistinct)'
    BY <1>1, <1>9 DEF UrnsAddUp, WeightedAreDistinct
  <1>12. LastSound'
    BY <1>10, <1>11 DEF LastSound
  <1> QED  BY <1>7, <1>12

LEMMA TimesAsks ==
  ASSUME NEW n \in Int, NEW q, q.ask \in {"raw", "bounded", "interval"}
  PROVE  /\ Len(Times(n, q)) \in Nat
         /\ \A k \in 1..Len(Times(n, q)) :
              Times(n, q)[k].ask \in {"raw", "bounded", "interval"}
  <1>1. /\ Len(Times(n, q)) = IF n > 0 THEN n ELSE 0
        /\ \A k \in 1..Len(Times(n, q)) : Times(n, q)[k] = q
    BY TimesAll
  <1> QED  BY <1>1

\* One question, asked n times.
LEMMA TimesFaithful ==
  ASSUME NEW n \in Int, NEW q, q.ask \in {"raw", "bounded", "interval"}, NEW s, Faithful(s)
  PROVE  Faithful(Draws(Times(n, q), s).s)
  <1>1. PICK asks : asks = Times(n, q)
    OBVIOUS
  <1>2. /\ Len(asks) \in Nat
        /\ \A k \in 1..Len(asks) : asks[k].ask \in {"raw", "bounded", "interval"}
    BY <1>1, TimesAsks
  <1>3. Faithful(Draws(asks, s).s)
    BY <1>2, DrawsFaithful
  <1> QED  BY <1>1, <1>3

LEMMA AskKinds ==
  /\ \A w : Raw(w).ask = "raw"
  /\ \A w, off, rng : Bounded(w, off, rng).ask = "bounded"
  /\ \A max : Interval(max).ask = "interval"
  BY DEF Raw, Bounded, Interval

LEMMA RandomRawAnswers ==
  ASSUME Objects, NEW o \in Objs, obj[o] # None, NEW n \in Counts, random_raw(o, n)
  PROVE  Answers(o)
  <1>1. n \in Int
    BY GeneratorAssumption
  <1>2. PICK s : s = obj[o].s
    OBVIOUS
  <1>3. Faithful(s)
    BY <1>2 DEF Objects, Object
  <1>4. PICK q : q = Raw(Word)
    OBVIOUS
  <1>5. PICK d : d = Draws(Times(n, q), s) /\ Call(o, d.s, "random", <<>>, d.out)
    BY <1>2, <1>4 DEF random_raw
  <1>6. Faithful(d.s)
    BY <1>1, <1>3, <1>4, <1>5, AskKinds, TimesFaithful
  <1> QED  BY <1>5, <1>6 DEF Answers

LEMMA RandomAnswers ==
  ASSUME Objects, NEW o \in Objs, obj[o] # None, NEW n \in Counts, random(o, n)
  PROVE  Answers(o)
  <1>1. n \in Int
    BY GeneratorAssumption
  <1>2. PICK s : s = obj[o].s
    OBVIOUS
  <1>3. Faithful(s)
    BY <1>2 DEF Objects, Object
  <1>4. PICK q1, q2 : q1 = Raw(Word) /\ q2 = Raw(Half)
    OBVIOUS
  <1>5. PICK q, d, out :
           q \in {q1, q2} /\ d = Draws(Times(n, q), s) /\ Call(o, d.s, "random", <<>>, out)
    BY <1>2, <1>4 DEF random
  <1>6. Faithful(d.s)
    BY <1>1, <1>3, <1>4, <1>5, AskKinds, TimesFaithful
  <1> QED  BY <1>5, <1>6 DEF Answers

LEMMA IntegersAnswers ==
  ASSUME Objects, NEW o \in Objs, obj[o] # None, NEW n \in Counts, NEW dt \in Dtypes,
         NEW low \in Int, NEW high \in Int, integers(o, dt, low, high, n)
  PROVE  Answers(o)
  <1>1. n \in Nat /\ n \in Int /\ dt.width \in Int /\ dt \in [width : Widths, signed : BOOLEAN]
    BY GeneratorAssumption, BitGenAssumption DEF Widths, Word
  <1>2. PICK s : s = obj[o].s
    OBVIOUS
  <1>3. Faithful(s) /\ s.bcnt = 0
    BY <1>2 DEF Objects, Object
  <1>4. PICK W, q : W = dt.width /\ q = Bounded(W, low % 2^W, high - 1 - low)
    OBVIOUS
  <1>5. PICK args : args = [width |-> W, low |-> low, high |-> high - 1, n |-> n]
    OBVIOUS
  <1>6. PICK d, out : /\ d = Draws(Times(n, q), s) /\ Complete(d)
                      /\ out = [k \in 1..n |-> AsDtype(dt, d.out[k])]
                      /\ Call(o, d.s, "integers", args, out)
    <2>1. PICK d : d = Draws(Times(n, q), s)
      OBVIOUS
    <2>2. PICK out : out = [k \in 1..n |-> AsDtype(dt, d.out[k])]
      OBVIOUS
    <2>3. Complete(d) /\ Call(o, d.s, "integers", args, out)
      BY <1>2, <1>4, <1>5, <2>1, <2>2 DEF integers
    <2> QED  BY <2>1, <2>2, <2>3
  <1>7. Faithful(d.s)
    BY <1>1, <1>3, <1>4, <1>6, AskKinds, TimesFaithful
  <1>8. args.width \in Int /\ args.width = W /\ args.low = low
        /\ args.high = high - 1 /\ args.n = n
    BY <1>1, <1>4, <1>5
  <1>9. PICK b : b = DrewFrom(s, d.s)
    OBVIOUS
  <1>10. FollowsDraws(W, low, high - 1, n, out, b)
    <2>1. n > 0 => low >= Bounds(dt)[1] /\ high - 1 <= Bounds(dt)[2] /\ low < high
      BY DEF integers
    <2>2. d = Draws(Times(n, Bounded(W, low % 2^W, high - 1 - low)), s)
      BY <1>4, <1>6
    <2>3. b = SubSeq(d.s.asked, Len(s.asked) + 1, Len(d.s.asked))
      BY <1>9 DEF DrewFrom
    <2> QED  BY <1>1, <1>3, <1>4, <1>6, <2>1, <2>2, <2>3, IntegersFollow
  <1>11. FollowsDraws(args.width, args.low, args.high, args.n, out, DrewFrom(obj[o].s, d.s))
    BY <1>2, <1>8, <1>9, <1>10
  <1> QED  BY <1>6, <1>7, <1>8, <1>11 DEF Answers

LEMMA BytesAnswers ==
  ASSUME Objects, NEW o \in Objs, obj[o] # None, NEW n \in Counts, bytes(o, n)
  PROVE  Answers(o)
  <1>1. n \in Nat /\ (n + 3) \div 4 \in Nat /\ Half \div 4 \in Int
    BY GeneratorAssumption, BitGenAssumption
  <1>2. PICK s : s = obj[o].s
    OBVIOUS
  <1>3. Faithful(s)
    BY <1>2 DEF Objects, Object
  <1>4. PICK q, m, v : /\ q = Bounded(Half, 0, 2^Half - 1) /\ m = (n + 3) \div 4
                       /\ v = Half \div 4
    OBVIOUS
  <1>5. PICK args : args = [width |-> v, low |-> 0, high |-> 2^v - 1, n |-> n]
    OBVIOUS
  <1>6. PICK d, out : /\ d = Draws(Times(m, q), s)
                      /\ out = [k \in 1..n |-> Bytes(d.out[((k - 1) \div 4) + 1], k - 1)]
                      /\ Call(o, d.s, "integers", args, out)
    <2>1. PICK d : d = Draws(Times(m, q), s)
      OBVIOUS
    <2>2. PICK out : out = [k \in 1..n |-> Bytes(d.out[((k - 1) \div 4) + 1], k - 1)]
      OBVIOUS
    <2>3. Call(o, d.s, "integers", args, out)
      BY <1>2, <1>4, <1>5, <2>1, <2>2 DEF bytes
    <2> QED  BY <2>1, <2>2, <2>3
  <1>7. Faithful(d.s)
    <2>1. q.ask \in {"raw", "bounded", "interval"}
      BY <1>4, AskKinds
    <2>2. m \in Int
      BY <1>1, <1>4
    <2>3. Faithful(Draws(Times(m, q), s).s)
      BY <1>3, <2>1, <2>2, TimesFaithful
    <2> QED  BY <1>6, <2>3
  <1>8. args.width \in Int /\ args.width = v /\ args.low = 0
        /\ args.high = 2^v - 1 /\ args.n = n
    BY <1>1, <1>4, <1>5
  <1>9. PICK b, vals : b = DrewFrom(s, d.s) /\ vals = d.out
    OBVIOUS
  <1>10. HalvesDrawn(m, b, vals)
    <2>1. b = SubSeq(d.s.asked, Len(s.asked) + 1, Len(d.s.asked))
      BY <1>9 DEF DrewFrom
    <2>2. m \in Nat
      BY <1>1, <1>4
    <2>3. HalvesDrawn(m, b, d.out)
      BY <1>3, <1>4, <1>6, <2>1, <2>2, WholeHalves
    <2> QED  BY <1>9, <2>3
  <1>11. FollowsDraws(v, 0, 2^v - 1, n, out, b)
    <2>1. out = [k \in 1..n |-> Bytes(vals[((k - 1) \div 4) + 1], k - 1)]
      BY <1>6, <1>9
    <2> QED  BY <1>1, <1>4, <1>10, <2>1, BytesFollow
  <1>12. FollowsDraws(args.width, args.low, args.high, args.n, out, DrewFrom(obj[o].s, d.s))
    BY <1>2, <1>8, <1>9, <1>11
  <1> QED  BY <1>6, <1>7, <1>8, <1>12 DEF Answers

LEMMA MaxType == ASSUME NEW x \in Int PROVE Max({x, 0}) \in Nat
  <1>1. CASE x >= 0
    BY <1>1, MaxNat
  <1>2. CASE x < 0
    <2>1. \A y \in {x, 0} : 0 >= y
      BY <1>2
    <2>2. \A m \in {x, 0} : (\A y \in {x, 0} : m >= y) => m = 0
      BY <1>2
    <2> QED  BY <2>1, <2>2 DEF Max
  <1> QED  BY <1>1, <1>2

LEMMA SwapsLen ==
  ASSUME NEW n \in Int, NEW first \in Int
  PROVE  SwapLimits(n, first) \in Seq(Int) /\ Len(SwapLimits(n, first)) \in Nat
  <1>1. PICK m \in Nat : m = Max({n - first, 0})
    BY MaxType
  <1>2. SwapLimits(n, first) = [k \in 1..m |-> n - k]
    BY <1>1 DEF SwapLimits
  <1>3. [k \in 1..m |-> n - k] \in [1..m -> Int]
    OBVIOUS
  <1>4. SwapLimits(n, first) \in Seq(Int)
    BY <1>2, <1>3
  <1> QED  BY <1>4

LEMMA ChoiceLimitsType ==
  ASSUME NEW pop \in Nat, NEW size \in Nat, NEW shuffled \in BOOLEAN
  PROVE  ChoiceLimits(pop, size, shuffled) \in Seq(Int)
  <1>1. PICK a : a = FloydLimits(pop, size)
    OBVIOUS
  <1>2. a \in Seq(Int)
    <2>1. a \in [1..size -> Int]
      BY <1>1 DEF FloydLimits
    <2> QED  BY <2>1
  <1>3. PICK b : b = IF shuffled THEN SwapLimits(size, 1) ELSE <<>>
    OBVIOUS
  <1>4. b \in Seq(Int)
    BY <1>3, SwapsLen
  <1>5. a \o b \in Seq(Int)
    BY <1>2, <1>4
  <1>6. PICK first \in Int : first = Max({pop - size, 1})
    <2>1. Max({pop - size, 1}) \in {pop - size, 1}
      <3>1. pop - size \in Int
        OBVIOUS
      <3>2. \E m \in {pop - size, 1} : \A y \in {pop - size, 1} : m >= y
        <4>1. CASE pop - size >= 1
          BY <3>1, <4>1
        <4>2. CASE pop - size < 1
          BY <3>1, <4>2
        <4> QED  BY <3>1, <4>1, <4>2
      <3> QED  BY <3>2 DEF Max
    <2> QED  BY <2>1
  <1>7. SwapLimits(pop, first) \in Seq(Int)
    BY <1>6, SwapsLen
  <1>8. \/ ChoiceLimits(pop, size, shuffled) = <<>>
        \/ ChoiceLimits(pop, size, shuffled) = SwapLimits(pop, first)
        \/ ChoiceLimits(pop, size, shuffled) = a \o b
    BY <1>1, <1>3, <1>6, SMTT(30) DEF ChoiceLimits
  <1>9. <<>> \in Seq(Int)
    OBVIOUS
  <1> QED  BY <1>5, <1>7, <1>8, <1>9

LEMMA ShuffleAnswers ==
  ASSUME Objects, NEW o \in Objs, obj[o] # None, NEW n \in Counts, NEW rows \in 1..2,
         shuffle(o, n, rows)
  PROVE  Answers(o)
  <1>1. n \in Int
    BY GeneratorAssumption
  <1>2. PICK s : s = obj[o].s
    OBVIOUS
  <1>3. Faithful(s)
    BY <1>2 DEF Objects, Object
  <1>4. PICK limits, m : limits = SwapLimits(n, 1) /\ m = Len(limits) /\ m \in Nat
    <2>1. Len(SwapLimits(n, 1)) \in Nat
      BY <1>1, SwapsLen
    <2> QED  BY <2>1
  <1>5. PICK len \in Nat : len = rows * m
    BY <1>4
  <1>6. PICK asks : asks = [k \in 1..len |-> Interval(limits[((k - 1) % m) + 1])]
    OBVIOUS
  <1>7. PICK d, args, out : d = Draws(asks, s) /\ Call(o, d.s, "shuffle", args, out)
    BY <1>2, <1>4, <1>5, <1>6 DEF shuffle
  <1>8. Len(asks) \in Nat
        /\ \A k \in 1..Len(asks) : asks[k].ask \in {"raw", "bounded", "interval"}
    <2>1. asks \in [1..len -> {asks[k] : k \in 1..len}]
      BY <1>6
    <2>2. Len(asks) = len
      BY <2>1
    <2>3. ASSUME NEW k \in 1..len  PROVE asks[k].ask = "interval"
      BY <1>6, AskKinds
    <2> QED  BY <2>2, <2>3
  <1>9. Faithful(d.s)
    BY <1>3, <1>7, <1>8, DrawsFaithful
  <1> QED  BY <1>7, <1>9 DEF Answers

LEMMA ChoiceAnswers ==
  ASSUME Objects, NEW o \in Objs, obj[o] # None, NEW pop \in Populations, NEW size \in Counts,
         choice(o, pop, size)
  PROVE  Answers(o)
  <1>1. /\ pop \in Nat /\ size \in Nat /\ Word \in Int /\ size \in Int
        /\ pop <= 2^(Word - 1) - 1
    <2>1. Word \in Widths
      BY DEF Widths
    <2>2. PICK h \in Nat : h = 2^(Word - 1)
      BY <2>1, PowerAbove
    <2>3. pop \in 0..h - 1
      BY <2>2, GeneratorAssumption
    <2> QED  BY <2>2, <2>3, GeneratorAssumption, WidthsDiffer
  <1>2. PICK s : s = obj[o].s
    OBVIOUS
  <1>3. Faithful(s) /\ s.bcnt = 0
    BY <1>2 DEF Objects, Object
  <1>4. PICK q, given : /\ q = Bounded(Word, 0, pop - 1)
                        /\ given = [width |-> Word, low |-> 0, high |-> pop - 1, n |-> size]
    OBVIOUS
  <1>5. CASE \E d \in {Draws(Times(size, q), s)} : /\ size > 0 => pop > 0
                                                   /\ Complete(d)
                                                   /\ Call(o, d.s, "integers", given, d.out)
    <2>1. PICK d : /\ d = Draws(Times(size, q), s)
                   /\ size > 0 => pop > 0
                   /\ Complete(d)
                   /\ Call(o, d.s, "integers", given, d.out)
      BY <1>5
    <2>2. Faithful(d.s)
      BY <1>1, <1>3, <1>4, <2>1, AskKinds, TimesFaithful
    <2>3. given.width \in Int /\ given.width = Word /\ given.low = 0
          /\ given.high = pop - 1 /\ given.n = size
      BY <1>1, <1>4
    <2>4. PICK b, out : b = DrewFrom(s, d.s) /\ out = d.out
      OBVIOUS
    <2>5. FollowsDraws(Word, 0, pop - 1, size, d.out, b)
      <3>1. d = Draws(Times(size, Bounded(Word, 0, pop - 1)), s)
        BY <1>4, <2>1
      <3>2. b = SubSeq(d.s.asked, Len(s.asked) + 1, Len(d.s.asked))
        BY <2>4 DEF DrewFrom
      <3> QED  BY <1>1, <1>3, <2>1, <3>1, <3>2, ChoiceFollow
    <2>6. FollowsDraws(given.width, given.low, given.high, given.n, out,
                       DrewFrom(obj[o].s, d.s))
      BY <1>2, <2>3, <2>4, <2>5
    <2>7. Call(o, d.s, "integers", given, out)
      BY <2>1, <2>4
    <2> QED  BY <2>2, <2>3, <2>6, <2>7 DEF Answers
  <1>6. CASE \E shuffled \in BOOLEAN : \E limits \in {ChoiceLimits(pop, size, shuffled)} :
               \E d \in {Draws([k \in DOMAIN limits |-> Bounded(Word, 0, limits[k])], s)} :
                  \E args, out : Call(o, d.s, "choice", args, out)
    <2>0. PICK shuffled \in BOOLEAN : \E limits \in {ChoiceLimits(pop, size, shuffled)} :
               \E d \in {Draws([k \in DOMAIN limits |-> Bounded(Word, 0, limits[k])], s)} :
                  \E args, out : Call(o, d.s, "choice", args, out)
      BY <1>6
    <2>1. PICK limits \in {ChoiceLimits(pop, size, shuffled)} :
               \E d \in {Draws([k \in DOMAIN limits |-> Bounded(Word, 0, limits[k])], s)} :
                  \E args, out : Call(o, d.s, "choice", args, out)
      BY <2>0
    <2>2. limits \in Seq(Int)
      BY <1>1, <2>1, ChoiceLimitsType
    <2>3. PICK n \in Nat : n = Len(limits) /\ DOMAIN limits = 1..n
      BY <2>2
    <2>4. PICK asks : asks = [k \in 1..n |-> Bounded(Word, 0, limits[k])]
      OBVIOUS
    <2>5. PICK d : d = Draws(asks, s) /\ \E args, out : Call(o, d.s, "choice", args, out)
      BY <2>1, <2>3, <2>4
    <2>6. Len(asks) \in Nat
          /\ \A k \in 1..Len(asks) : asks[k].ask \in {"raw", "bounded", "interval"}
      <3>1. asks \in [1..n -> {asks[k] : k \in 1..n}]
        BY <2>4
      <3>2. Len(asks) = n
        BY <3>1
      <3>3. ASSUME NEW k \in 1..n  PROVE asks[k].ask = "bounded"
        BY <2>4, AskKinds
      <3> QED  BY <3>2, <3>3
    <2>7. Faithful(d.s)
      BY <1>3, <2>5, <2>6, DrawsFaithful
    <2> QED  BY <2>5, <2>7 DEF Answers
  <1> QED  BY <1>2, <1>4, <1>5, <1>6 DEF choice

LEMMA WeightedAnswers ==
  ASSUME Objects, NEW o \in Objs, obj[o] # None, NEW p \in Weights, NEW size \in Counts,
         weighted_choice(o, p, size)
  PROVE  Answers(o)
  <1>1. size \in Nat
    BY GeneratorAssumption
  <1>2. PICK s : s = obj[o].s
    OBVIOUS
  <1>3. Faithful(s)
    BY <1>2 DEF Objects, Object
  <1>4. PICK q : q = Raw(Word)
    OBVIOUS
  <1>5. CASE \E d \in {Draws(Times(size, q), s)} : \E out : Call(o, d.s, "random", <<>>, out)
    <2>1. PICK d, out : d = Draws(Times(size, q), s) /\ Call(o, d.s, "random", <<>>, out)
      BY <1>5
    <2>2. Faithful(d.s)
      BY <1>1, <1>3, <1>4, <2>1, AskKinds, TimesFaithful
    <2> QED  BY <2>1, <2>2 DEF Answers
  <1>6. CASE \E r \in {Rounds(p, size, s)} :
               /\ Enough(p, size)
               /\ Len(r.found) = size
               /\ Call(o, r.s, "weighted", [p |-> p, size |-> size], r.found)
    <2>1. PICK r : /\ r = Rounds(p, size, s)
                   /\ Enough(p, size)
                   /\ Len(r.found) = size
                   /\ Call(o, r.s, "weighted", [p |-> p, size |-> size], r.found)
      BY <1>6
    <2>2. Faithful(r.s)
      BY <1>1, <1>3, <2>1, RoundsFaithful
    <2>3. p \in Seq(Nat)
      BY GeneratorAssumption
    <2>4. PICK found : found = r.found
      OBVIOUS
    <2>5. Picked(p, found)
      BY <1>1, <1>3, <2>1, <2>3, <2>4, RoundsPick
    <2>6. /\ Cardinality(Range(found)) = size
          /\ \A k \in DOMAIN found : p[found[k] + 1] > 0
      BY <2>1, <2>3, <2>4, <2>5, PickedIsDistinct
    <2>7. PICK args : args = [p |-> p, size |-> size]
      OBVIOUS
    <2>8. args.p = p /\ args.size = size
      BY <2>7
    <2>9. /\ Len(found) = args.size
          /\ Cardinality(Range(found)) = args.size
          /\ \A k \in DOMAIN found : args.p[found[k] + 1] > 0
      BY <2>1, <2>4, <2>6, <2>8
    <2>10. Call(o, r.s, "weighted", args, found)
      BY <2>1, <2>4, <2>7
    <2> QED  BY <2>2, <2>9, <2>10 DEF Answers
  <1> QED  BY <1>2, <1>4, <1>5, <1>6 DEF weighted_choice, Enough

LEMMA MarginalsAnswers ==
  ASSUME Objects, NEW o \in Objs, obj[o] # None, NEW u \in Urns, marginals(o, u[1], u[2])
  PROVE  Answers(o)
  <1>1. PICK c \in Seq(Nat), n \in Nat : c = u[1] /\ n = u[2] /\ c # <<>>
    BY GeneratorAssumption
  <1>2. PICK s : s = obj[o].s
    OBVIOUS
  <1>3. Faithful(s)
    BY <1>2 DEF Objects, Object
  <1>4. PICK total \in Nat : total = SumOf(c, 1)
    BY <1>1, SumType
  <1>5. PICK todo \in Int : todo = IF n > total \div 2 THEN total - n ELSE n
    BY <1>4
  <1>6. PICK args : args = [colors |-> c, n |-> n]
    OBVIOUS
  <1>7. args.n = n /\ args.colors = c
    BY <1>6
  <1>8. n <= total
    BY <1>1, <1>4 DEF marginals
  <1>9. todo \in Nat /\ todo <= total
    BY <1>5, <1>8
  <1>10. CASE total = 0 \/ n = 0
    <2>1. PICK zeros : zeros = [k \in DOMAIN c |-> 0]
      OBVIOUS
    <2>2. Call(o, s, "urn", args, zeros)
      BY <1>1, <1>2, <1>4, <1>6, <1>10, <2>1 DEF marginals, Call
    <2>3. SumOf(zeros, 1) = 0 /\ n = 0
      BY <1>8, <1>10, <2>1, SumZeros
    <2>4. \A k \in DOMAIN zeros : zeros[k] \in 0..c[k]
      BY <2>1
    <2> QED  BY <1>3, <1>7, <2>2, <2>3, <2>4 DEF Answers
  <1>11. CASE ~(total = 0 \/ n = 0)
    <2>1. PICK d : d = Marginals(c, todo, s)
      OBVIOUS
    <2>2. PICK drawn : drawn = DrawnBy(c, d)
      OBVIOUS
    <2>3. PICK out : out = IF n > total \div 2 THEN [k \in DOMAIN c |-> c[k] - drawn[k]] ELSE drawn
      OBVIOUS
    <2>4. d.s.val # NoValue /\ Call(o, d.s, "urn", args, out)
      BY <1>1, <1>2, <1>4, <1>5, <1>6, <1>11, <2>1, <2>2, <2>3
         DEF marginals, DrawnBy
    <2>5. Faithful(d.s)
      BY <1>1, <1>3, <2>1, MarginalsFaithful
    <2>6. /\ drawn \in Seq(Nat) /\ Len(drawn) = Len(c) /\ \A k \in 1..Len(c) : drawn[k] <= c[k]
          /\ SumOf(drawn, 1) = todo
      <3>1. todo <= SumOf(c, 1) /\ Marginals(c, todo, s).s.val # NoValue
        BY <1>4, <1>9, <2>1, <2>4
      <3>2. AddsUp(c, todo, DrawnBy(c, Marginals(c, todo, s)))
        BY <1>1, <1>3, <1>9, <3>1, DrawnAddUp
      <3> QED  BY <2>1, <2>2, <3>2 DEF AddsUp
    <2>7. SumOf(out, 1) = n
      <3>1. SumOf([k \in DOMAIN c |-> c[k] - drawn[k]], 1) = total - todo
        BY <1>4, <2>6, SumDifference
      <3> QED  BY <1>4, <1>5, <2>3, <2>6, <3>1
    <2>8. ASSUME NEW k \in DOMAIN out  PROVE out[k] \in 0..c[k]
      <3>1. k \in 1..Len(c)
        BY <2>3, <2>6
      <3>2. PICK a \in Nat, b \in Nat : a = c[k] /\ b = drawn[k] /\ b <= a
        BY <2>6, <3>1
      <3>3. out[k] = a - b \/ out[k] = b
        BY <2>3, <3>1, <3>2
      <3> QED  BY <3>2, <3>3
    <2> QED  BY <1>7, <2>4, <2>5, <2>7, <2>8 DEF Answers
  <1> QED  BY <1>10, <1>11

----------------------------------------------------------------------------
(* The theorems.                                                              *)

Inv == Objects /\ LastSound

LEMMA GenerateAnswers ==
  ASSUME Objects, NEW o \in Objs, obj[o] # None, Generate(o)
  PROVE  Answers(o)
  <1>1. CASE \E n \in Counts : random(o, n)
    BY <1>1, RandomAnswers
  <1>2. CASE \E n \in Counts : bytes(o, n)
    BY <1>2, BytesAnswers
  <1>3. CASE \E n \in Counts, dt \in Dtypes, r \in Ranges : integers(o, dt, r[1], r[2], n)
    <2>1. PICK n \in Counts, dt \in Dtypes, r \in Ranges : integers(o, dt, r[1], r[2], n)
      BY <1>3
    <2>2. PICK low, high \in Int : low = r[1] /\ high = r[2]
      BY GeneratorAssumption
    <2>3. integers(o, dt, low, high, n)
      BY <2>1, <2>2
    <2> QED  BY <2>3, IntegersAnswers
  <1>4. CASE \E n \in Counts, rows \in 1..2 : shuffle(o, n, rows)
    BY <1>4, ShuffleAnswers
  <1>5. CASE \E pop \in Populations, size \in Counts : choice(o, pop, size)
    BY <1>5, ChoiceAnswers
  <1>6. CASE \E p \in Weights, size \in Counts : weighted_choice(o, p, size)
    BY <1>6, WeightedAnswers
  <1>7. CASE \E u \in Urns : marginals(o, u[1], u[2])
    BY <1>7, MarginalsAnswers
  <1> QED  BY <1>1, <1>2, <1>3, <1>4, <1>5, <1>6, <1>7 DEF Generate

LEMMA MakeKeeps ==
  ASSUME Objects, NEW o \in Objs, NEW kind, NEW s, Faithful(s), s.bcnt = 0, Make(o, kind, s)
  PROVE  Objects' /\ LastSound'
  <1>1. PICK x : x = [kind |-> kind, s |-> s]
    OBVIOUS
  <1>2. Object(x)
    <2>1. x = [kind |-> x.kind, s |-> x.s] /\ x.s = s
      BY <1>1
    <2>2. Faithful(x.s) /\ x.s.bcnt = 0
      BY <2>1
    <2> QED  BY <2>1, <2>2 DEF Object
  <1>3. obj' = [obj EXCEPT ![o] = x] /\ last' = [op |-> "new"]
    BY <1>1 DEF Make
  <1>4. obj' = [p \in Objs |-> obj'[p]]
    BY <1>3 DEF Objects
  <1>5. ASSUME NEW p \in Objs, obj'[p] # None
        PROVE  Object(obj'[p])
    <2>1. CASE p = o
      <3>1. obj'[p] = x
        BY <1>3, <2>1 DEF Objects
      <3> QED  BY <1>2, <3>1
    <2>2. CASE p # o
      <3>1. obj'[p] = obj[p]
        BY <1>3, <2>2 DEF Objects
      <3>2. Object(obj[p])
        BY <1>5, <3>1 DEF Objects
      <3> QED  BY <3>1, <3>2
    <2> QED  BY <2>1, <2>2
  <1>6. Objects'
    BY <1>4, <1>5 DEF Objects
  <1>7. last'.op = "new"
    BY <1>3
  <1>8. LastSound'
    BY <1>7 DEF LastSound, UrnsAddUp, WeightedAreDistinct
  <1> QED  BY <1>6, <1>8

LEMMA InitInv == Init => Inv
  <1> SUFFICES ASSUME Init  PROVE Inv
    OBVIOUS
  <1>1. Objects
    BY DEF Init, Objects
  <1>2. last.op = "none"
    BY DEF Init
  <1>3. LastSound
    BY <1>2 DEF LastSound, UrnsAddUp, WeightedAreDistinct
  <1> QED  BY <1>1, <1>3 DEF Inv

LEMMA NextInv == Inv /\ [Next]_vars => Inv'
  <1> SUFFICES ASSUME Objects, LastSound, [Next]_vars  PROVE Objects' /\ LastSound'
    BY DEF Inv
  <1>1. ASSUME NEW o \in Objs, NEW seed \in Seeds, NewBits(o, seed) \/ DefaultRng(o, seed)
        PROVE  Objects' /\ LastSound'
    <2>1. Faithful(Seeded(seed))
      BY SeededIsFaithful
    <2>2. PICK s : s = Seeded(seed)
      OBVIOUS
    <2>3. PICK kind : Make(o, kind, s)
      BY <1>1, <2>2 DEF NewBits, DefaultRng
    <2>4. s.bcnt = 0
      BY <2>2 DEF Seeded
    <2> QED  BY <2>1, <2>2, <2>3, <2>4, MakeKeeps
  <1>2. ASSUME NEW o \in Objs, NEW b \in Objs, NewGenerator(o, b)
        PROVE  Objects' /\ LastSound'
    <2>1. PICK s : s = obj[b].s
      OBVIOUS
    <2>2. Faithful(s) /\ s.bcnt = 0
      BY <1>2, <2>1 DEF NewGenerator, Objects, Object
    <2>3. Make(o, "gen", s)
      BY <1>2, <2>1 DEF NewGenerator, Make
    <2> QED  BY <2>2, <2>3, MakeKeeps
  <1>3. ASSUME NEW o \in Objs, NEW n \in Counts, obj[o] # None, random_raw(o, n)
        PROVE  Objects' /\ LastSound'
    BY <1>3, RandomRawAnswers, CallKeeps
  <1>4. ASSUME NEW o \in Objs, obj[o] # None, Generate(o)
        PROVE  Objects' /\ LastSound'
    BY <1>4, GenerateAnswers, CallKeeps
  <1>5. CASE UNCHANGED vars
    BY <1>5 DEF vars, Objects, LastSound, UrnsAddUp, WeightedAreDistinct, Returned
  <1> QED  BY <1>1, <1>2, <1>3, <1>4, <1>5 DEF Next

LEMMA InvHolds == Spec => []Inv
  BY InitInv, NextInv, PTL DEF Spec

\* For every stream, period and seed, and every number and kind of calls: what an object
\* has answered is settled by its seed and the widths asked, also if it is a copy.
THEOREM AnswersReplayTheStream == Spec => []ReplaysStream
  <1>1. Inv => ReplaysStream
    <2> SUFFICES ASSUME Inv, NEW o \in Objs, obj[o] # None
                 PROVE  \A i \in DOMAIN obj[o].s.asked :
                           FollowsStream(obj[o].s.asked, obj[o].s.seed, i)
      BY DEF ReplaysStream
    <2>1. PICK s : s = obj[o].s
      OBVIOUS
    <2>2. Faithful(s)
      BY <2>1 DEF Inv, Objects, Object
    <2>3. s.asked \in Seq(Asked)
      BY <2>2 DEF Faithful
    <2>4. DOMAIN s.asked = 1..Len(s.asked)
      BY <2>3
    <2>5. \A i \in DOMAIN s.asked : FollowsStream(s.asked, s.seed, i)
      BY <2>2, <2>4 DEF Faithful
    <2> QED  BY <2>1, <2>5
  <1> QED  BY <1>1, InvHolds, PTL

\* Multivariate hypergeometric draws add up to the sample asked for and take no ball that
\* is not there, for every urn and sample.
THEOREM UrnsAlwaysAddUp == Spec => []UrnsAddUp
  <1>1. Inv => UrnsAddUp
    BY DEF Inv, LastSound
  <1> QED  BY <1>1, InvHolds, PTL

\* A choice with weights and without replacement returns different indices, all of a
\* weight above 0, for every stream, weights and size.
THEOREM WeightedChoicesDiffer == Spec => []WeightedAreDistinct
  <1>1. Inv => WeightedAreDistinct
    BY DEF Inv, LastSound
  <1> QED  BY <1>1, InvHolds, PTL

\* What `integers`, `bytes` and a choice with replacement return are, in their order, the
\* pieces of the words they drew that the range does not leave over, and they draw no word
\* more than that takes: for every stream, width, range and number, and whatever was
\* drawn before.
THEOREM IntegersFollowTheDraws == Spec => []IntegersFollowStream
  <1>1. Inv => IntegersFollowStream
    <2> SUFFICES ASSUME Inv, last.op = "integers"  PROVE IntegersFollowStream
      BY DEF IntegersFollowStream
    <2>1. FollowsDraws(last.args.width, last.args.low, last.args.high, last.args.n,
                       last.out, last.drew)
      BY DEF Inv, LastSound, Returned
    <2> QED  BY <2>1 DEF IntegersFollowStream, FollowsDraws, DrawWidth, UsableOf, InRange
  <1> QED  BY <1>1, InvHolds, PTL

\* Of the words of w bits each value of a range gets the same number, at every width and
\* for every range: Lemire's rejection leaves no bias.
THEOREM IntegersAreUniform == Spec => []Uniform
  <1>1. Inv => Uniform
    <2> SUFFICES ASSUME Inv, last.op = "integers",
                        NEW rng, rng = last.args.high - last.args.low,
                        NEW w, w = (IF last.args.width = Word THEN Half ELSE last.args.width),
                        rng \in 1..2^w - 2,
                        NEW v \in 0..rng
                 PROVE  Cardinality({x \in 0..2^w - 1 : ~RejectedByLemire(w, rng, x)
                                                        /\ Scaled(w, rng, x) = v})
                          = 2^w \div (rng + 1)
      BY DEF Uniform
    <2>1. w \in Int
      BY WidthsDiffer DEF Inv, LastSound
    <2>2. PICK n \in Int : n = 2^w
      BY <2>1
    <2>3. rng \in Int /\ 1 <= rng /\ rng <= n - 2
      BY <2>2
    <2>4. PICK b \in Nat \ {0} : b = rng + 1 /\ b <= n /\ rng = b - 1
      BY <2>3
    <2>5. n \in Nat \ {0} /\ v \in 0..b - 1
      BY <2>3, <2>4
    <2>6. Cardinality({x \in 0..n - 1 :
              ~((x * b) % n < b /\ (x * b) % n < (n - b) % b) /\ (x * b) \div n = v})
            = n \div b
      BY <2>4, <2>5, LemireIsEven
    <2>7. n - 1 - rng = n - b
      BY <2>3, <2>4
    <2>8. ASSUME NEW x
          PROVE  /\ RejectedByLemire(w, rng, x) <=> (x * b) % n < b /\ (x * b) % n < (n - b) % b
                 /\ Scaled(w, rng, x) = (x * b) \div n
      BY <2>2, <2>4, <2>7 DEF RejectedByLemire, Scaled
    <2>9. {x \in 0..2^w - 1 : ~RejectedByLemire(w, rng, x) /\ Scaled(w, rng, x) = v}
            = {x \in 0..n - 1 :
                 ~((x * b) % n < b /\ (x * b) % n < (n - b) % b) /\ (x * b) \div n = v}
      BY <2>2, <2>8
    <2> QED  BY <2>2, <2>4, <2>6, <2>9
  <1> QED  BY <1>1, InvHolds, PTL
============================================================================
