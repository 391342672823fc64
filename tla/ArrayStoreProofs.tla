-------------------------- MODULE ArrayStoreProofs --------------------------
(***************************************************************************)
(* Proofs about ArrayStore, for any number of Python objects and buffers,   *)
(* any element values, any array length and any part of the API: types,     *)
(* bounds and bases; and, without `+a`, that only arrays the view contract  *)
(* lets share memory share it, and that a call reaches no others.           *)
(***************************************************************************)
EXTENDS ArrayStore, WellFoundedInduction, TLAPS

\* The largest of a set that has one.
LEMMA MaxIs ==
    ASSUME NEW S \in SUBSET Int, NEW m \in S, \A x \in S : x <= m
    PROVE  Max(S) = m
  <1> DEFINE top(x) == \A y \in S : x >= y
  <1>1. m \in Int /\ \A y \in S : y \in Int /\ m >= y
    OBVIOUS
  <1>2. top(m) /\ Max(S) = CHOOSE x \in S : top(x)
    BY <1>1 DEF Max
  <1>3. Max(S) \in S /\ top(Max(S))
    <2> HIDE DEF top
    <2>1. QED
      BY <1>2
  <1>4. Max(S) \in Int /\ m >= Max(S)
    BY <1>1, <1>3
  <1>5. Max(S) >= m
    <2> HIDE DEF Max
    <2>1. QED
      BY <1>3
  <1>6. QED
    BY <1>4, <1>5

\* A set of integers with an upper bound has a largest element (the smallest
\* distance to the bound is well founded).
LEMMA MaxExists ==
    ASSUME NEW n \in Int, NEW S \in SUBSET Int, S # {}, \A x \in S : x <= n
    PROVE  Max(S) \in S /\ \A x \in S : x <= Max(S)
  <1> DEFINE T == {n - x : x \in S}
  <1>0. \A x \in S : x \in Int /\ x <= n /\ n - x \in Nat
    OBVIOUS
  <1>1. T \subseteq Nat /\ T # {}
    BY <1>0
  <1>2. PICK d \in T : \A e \in T : <<e, d>> \notin OpToRel(<, Nat)
    BY <1>1, WFMin, NatLessThanWellFounded
  <1>3. \A e \in T : ~(e < d)
    BY <1>1, <1>2, Zenon DEF OpToRel
  <1>4. PICK m \in S : d = n - m
    OBVIOUS
  <1>5. \A x \in S : x <= m
    <2> TAKE x \in S
    <2>1. n - x \in T /\ ~(n - x < n - m)
      BY <1>3, <1>4
    <2>2. QED
      BY <1>0, <2>1
  <1>6. Max(S) = m
    BY <1>5, MaxIs
  <1>7. QED
    BY <1>5, <1>6

\* Assign keeps the cells of a buffer and writes only values it was given.
LEMMA AssignType ==
    ASSUME NEW V, NEW n \in Nat, NEW buf \in [1..n -> V],
           NEW m \in Nat, NEW cells, DOMAIN cells = 1..m, NEW vals \in [1..m -> V]
    PROVE  Assign(buf, cells, vals) \in [1..n -> V]
  <1> DEFINE hits(c) == {i \in 1..m : cells[i] = c}
  <1>1. Assign(buf, cells, vals)
        = [c \in 1..n |-> IF hits(c) = {} THEN buf[c] ELSE vals[Max(hits(c))]]
    BY DEF Assign
  <1>2. \A c : hits(c) # {} => Max(hits(c)) \in 1..m
    <2> SUFFICES ASSUME NEW c, hits(c) # {}
                 PROVE  Max(hits(c)) \in 1..m
      OBVIOUS
    <2>1. hits(c) \in SUBSET (1..m) /\ hits(c) \in SUBSET Int /\ m \in Int
      OBVIOUS
    <2>2. \A x \in hits(c) : x <= m
      BY <2>1
    <2> HIDE DEF hits
    <2>3. Max(hits(c)) \in hits(c)
      BY <2>1, <2>2, MaxExists
    <2>4. QED
      BY <2>1, <2>3
  <1> HIDE DEF hits
  <1>3. QED
    BY <1>1, <1>2

\* Assign changes only cells of the window.
LEMMA AssignOutside ==
    ASSUME NEW buf, NEW cells, NEW vals, NEW c \in DOMAIN buf,
           \A i \in DOMAIN cells : cells[i] # c
    PROVE  Assign(buf, cells, vals)[c] = buf[c]
  BY DEF Assign

\* A slice of an axis selects at least one and at most n of its positions.
LEMMA SliceFacts ==
    ASSUME NEW n \in Nat, NEW s \in Slices(n)
    PROVE  \E m \in 1..n : s \in [1..m -> 1..n]
  BY DEF Slices

-----------------------------------------------------------------------------
(* The inductive invariant, as predicates of the four components of a state *)
(* so that it can be stated of what a call is about to install.             *)

\* A window runs through the buffer in one direction (or stands still).
Rising(w) == \A i, j \in DOMAIN w : i <= j => w[i] <= w[j]
Falling(w) == \A i, j \in DOMAIN w : i <= j => w[j] <= w[i]
Monotone(w) == Rising(w) \/ Falling(w)

\* The array h, if there is one, is non-empty, sees cells of its buffer only,
\* and has a base that is an array without a base.
GoodArray(h, A, M) ==
    A[h].buf # NoBuffer =>
        /\ A[h].win \in Windows
        /\ Monotone(A[h].win)
        /\ \A i \in DOMAIN A[h].win : A[h].win[i] \in DOMAIN M[A[h].buf]
        /\ A[h].base # NoHandle =>
              /\ A[h].base # h
              /\ A[A[h].base].buf # NoBuffer
              /\ A[A[h].base].base = NoHandle

Good(n, A, M, K) ==
    /\ n \subseteq Handles
    /\ \A h \in n : A[h].buf # NoBuffer
    /\ A \in [Handles -> ArrayRec]
    /\ M \in [Buffers -> Contents]
    /\ K \in [Handles -> SUBSET Handles]
    /\ \A h \in Handles : GoodArray(h, A, M)

\* Arrays on one buffer are kin.
Kindred(A, K) ==
    \A g, h \in Handles : A[g].buf # NoBuffer /\ A[g].buf = A[h].buf => h \in K[g]

\* Kin and bases are on one buffer.
Family(A, K) ==
    \A g \in Handles : A[g].buf # NoBuffer =>
        /\ \A h \in K[g] : A[h].buf = A[g].buf
        /\ A[g].base # NoHandle => A[A[g].base].buf = A[g].buf

\* Between calls nothing unreachable is left.
Tidy(n, A, M) ==
    /\ \A h \in Handles : A[h].buf # NoBuffer => h \in n \/ \E g \in n : A[g].base = h
    /\ \A h \in Handles : A[h].buf = NoBuffer => A[h] = Dead
    /\ \A b \in Buffers : (\A h \in Handles : A[h].buf # b) => M[b] = <<>>

StoreInv == Good(named, arr, mem, kin)
KinInv == Kindred(arr, kin)
FamilyInv == Family(arr, kin)
TidyInv == Tidy(named, arr, mem)

\* Dropping unreachable arrays and buffers keeps what is left well formed: a
\* named array keeps its base, and a base has none.
LEMMA BecomeStep ==
    ASSUME NEW n, NEW A, NEW M, NEW K, Good(n, A, M, K), Become(n, A, M, K)
    PROVE  StoreInv' /\ (Kindred(A, K) => KinInv')
  <1> USE ArrayStoreAssumption
  <1> DEFINE keep == {h \in Handles : /\ A[h].buf # NoBuffer
                                      /\ h \in n \/ \E g \in n : A[g].base = h}
  <1>1. /\ named' = n
        /\ arr' = [h \in Handles |-> IF h \in keep THEN A[h] ELSE Dead]
        /\ mem' = [b \in Buffers |-> IF \E h \in keep : A[h].buf = b THEN M[b] ELSE <<>>]
        /\ kin' = [h \in Handles |-> IF h \in keep THEN K[h] \cap keep ELSE {}]
    BY DEF Become
  <1>2. n \subseteq keep
    BY DEF Good
  <1>3. \A h \in keep : A[h].base # NoHandle => A[h].base \in keep
    <2> SUFFICES ASSUME NEW h \in keep, A[h].base # NoHandle
                 PROVE  A[h].base \in keep
      OBVIOUS
    <2>1. GoodArray(h, A, M) /\ A[h] \in ArrayRec
      BY DEF Good
    <2>2. h \in n
      BY <2>1 DEF Good, GoodArray
    <2>3. A[h].base \in Handles /\ A[A[h].base].buf # NoBuffer
      BY <2>1 DEF GoodArray, ArrayRec
    <2>4. QED
      BY <2>2, <2>3
  <1> HIDE DEF keep
  <1>4. /\ keep \subseteq Handles
        /\ \A h \in keep : A[h].buf \in Buffers
    BY DEF keep, Good, ArrayRec
  <1>5. Dead \in ArrayRec /\ <<>> \in Contents
    BY DEF Dead, ArrayRec, Contents
  <1>6. arr' \in [Handles -> ArrayRec]
    BY <1>1, <1>5 DEF Good
  <1>7. mem' \in [Buffers -> Contents]
    BY <1>1, <1>5 DEF Good
  <1>8. kin' \in [Handles -> SUBSET Handles]
    BY <1>1 DEF Good
  <1>9. \A h \in Handles : arr'[h].buf # NoBuffer =>
                              h \in keep /\ arr'[h] = A[h] /\ mem'[A[h].buf] = M[A[h].buf]
    BY <1>1, <1>4 DEF Dead
  <1>10. \A h \in keep : arr'[h] = A[h]
    BY <1>1, <1>4
  <1>11. ASSUME NEW h \in Handles
         PROVE  GoodArray(h, arr', mem')
    <2> SUFFICES ASSUME arr'[h].buf # NoBuffer
                 PROVE  GoodArray(h, arr', mem')
      BY DEF GoodArray
    <2>1. h \in keep /\ arr'[h] = A[h] /\ mem'[A[h].buf] = M[A[h].buf]
      BY <1>9
    <2>2. GoodArray(h, A, M) /\ A[h].buf # NoBuffer
      BY <2>1, <1>4 DEF Good
    <2>3. A[h].base # NoHandle => arr'[A[h].base] = A[A[h].base]
      BY <1>3, <1>10, <2>1
    <2>4. QED
      BY <2>1, <2>2, <2>3 DEF GoodArray
  <1>12. \A h \in n : arr'[h].buf # NoBuffer
    BY <1>2, <1>10 DEF Good
  <1>13. StoreInv'
    BY <1>1, <1>6, <1>7, <1>8, <1>11, <1>12 DEF StoreInv, Good
  <1>14. ASSUME Kindred(A, K)
         PROVE  KinInv'
    <2> SUFFICES ASSUME NEW g \in Handles, NEW h \in Handles,
                        arr'[g].buf # NoBuffer, arr'[g].buf = arr'[h].buf
                 PROVE  h \in kin'[g]
      BY DEF KinInv, Kindred
    <2>1. g \in keep /\ h \in keep /\ arr'[g] = A[g] /\ arr'[h] = A[h]
      BY <1>9
    <2>2. h \in K[g]
      BY <1>14, <2>1 DEF Kindred
    <2>3. QED
      BY <1>1, <2>1, <2>2
  <1>15. QED
    BY <1>13, <1>14

\* What a call leaves of what it installs.
LEMMA BecomeLeaves ==
    ASSUME NEW n, NEW A, NEW M, NEW K, Good(n, A, M, K), Become(n, A, M, K)
    PROVE  /\ TidyInv'
           /\ Family(A, K) => FamilyInv'
           /\ Tidy(n, A, M) => arr' = A /\ mem' = M
  <1> USE ArrayStoreAssumption
  <1> DEFINE keep == {h \in Handles : /\ A[h].buf # NoBuffer
                                      /\ h \in n \/ \E g \in n : A[g].base = h}
  <1>1. /\ named' = n
        /\ arr' = [h \in Handles |-> IF h \in keep THEN A[h] ELSE Dead]
        /\ mem' = [b \in Buffers |-> IF \E h \in keep : A[h].buf = b THEN M[b] ELSE <<>>]
        /\ kin' = [h \in Handles |-> IF h \in keep THEN K[h] \cap keep ELSE {}]
    BY DEF Become
  <1>2. /\ n \subseteq keep /\ keep \subseteq Handles
        /\ \A h \in keep : A[h].buf # NoBuffer /\ (h \in n \/ \E g \in n : A[g].base = h)
    BY DEF Good
  <1>3. \A h \in keep : A[h].base # NoHandle => A[h].base \in keep
    <2> SUFFICES ASSUME NEW h \in keep, A[h].base # NoHandle
                 PROVE  A[h].base \in keep
      OBVIOUS
    <2>1. GoodArray(h, A, M) /\ A[h] \in ArrayRec
      BY DEF Good
    <2>2. h \in n
      BY <2>1 DEF Good, GoodArray
    <2>3. A[h].base \in Handles /\ A[A[h].base].buf # NoBuffer
      BY <2>1 DEF GoodArray, ArrayRec
    <2>4. QED
      BY <2>2, <2>3
  <1>4. Tidy(n, A, M) => keep = {h \in Handles : A[h].buf # NoBuffer}
    BY DEF Tidy
  <1> HIDE DEF keep
  <1>5. \A h \in keep : arr'[h] = A[h]
    BY <1>1, <1>2
  <1>6. \A h \in Handles \ keep : arr'[h] = Dead
    BY <1>1
  <1>7. TidyInv'
    <2>1. \A h \in Handles : arr'[h].buf # NoBuffer => h \in keep
      BY <1>6 DEF Dead
    <2>2. ASSUME NEW h \in keep
          PROVE  h \in n \/ \E g \in n : arr'[g].base = h
      BY <1>2, <1>5
    <2>3. \A h \in Handles : arr'[h].buf = NoBuffer => arr'[h] = Dead
      BY <1>2, <1>5, <1>6
    <2>4. ASSUME NEW b \in Buffers, \A h \in Handles : arr'[h].buf # b
          PROVE  mem'[b] = <<>>
      BY <1>1, <1>2, <1>5, <2>4
    <2>5. QED
      BY <1>1, <2>1, <2>2, <2>3, <2>4 DEF TidyInv, Tidy
  <1>8. ASSUME Family(A, K)
        PROVE  FamilyInv'
    <2> SUFFICES ASSUME NEW g \in Handles, arr'[g].buf # NoBuffer
                 PROVE  /\ \A h \in kin'[g] : arr'[h].buf = arr'[g].buf
                        /\ arr'[g].base # NoHandle => arr'[arr'[g].base].buf = arr'[g].buf
      BY DEF FamilyInv, Family
    <2>1. g \in keep /\ arr'[g] = A[g] /\ A[g].buf # NoBuffer
      BY <1>2, <1>5, <1>6 DEF Dead
    <2>2. kin'[g] \subseteq K[g] \cap keep
      BY <1>1, <2>1
    <2>3. QED
      BY <1>3, <1>5, <1>8, <2>1, <2>2 DEF Family
  <1>9. ASSUME Tidy(n, A, M)
        PROVE  arr' = A /\ mem' = M
    <2>1. keep = {h \in Handles : A[h].buf # NoBuffer}
      BY <1>4, <1>9
    <2>2. A \in [Handles -> ArrayRec] /\ M \in [Buffers -> Contents]
      BY DEF Good
    <2>3. \A h \in Handles : arr'[h] = A[h]
      BY <1>5, <1>6, <1>9, <2>1 DEF Tidy
    <2>4. \A b \in Buffers : mem'[b] = M[b]
      BY <1>1, <1>9, <2>1, ArrayStoreAssumption DEF Tidy
    <2>5. QED
      BY <1>1, <2>2, <2>3, <2>4
  <1>10. QED
    BY <1>7, <1>8, <1>9

\* What a call installs is well formed, and as tidy and as close as the store.
Fit(n, A, M, K) ==
    /\ Good(n, A, M, K)
    /\ TidyInv => Tidy(n, A, M)
    /\ FamilyInv => Family(A, K)

-----------------------------------------------------------------------------
(* What the calls install.                                                  *)

\* A named array is alive, with a window of 1 to MaxLen cells in its buffer.
LEMMA NamedFacts ==
    ASSUME StoreInv, NEW h \in named
    PROVE  /\ h \in Handles /\ arr[h] \in ArrayRec
           /\ arr[h].buf \in Buffers /\ arr[h].buf # NoBuffer /\ GoodArray(h, arr, mem)
           /\ arr[h].win \in Windows /\ Monotone(arr[h].win)
           /\ Len(arr[h].win) \in 1..MaxLen /\ DOMAIN arr[h].win = 1..Len(arr[h].win)
           /\ arr[h].win \in [1..Len(arr[h].win) -> 1..MaxLen]
           /\ \A i \in 1..Len(arr[h].win) : arr[h].win[i] \in DOMAIN mem[arr[h].buf]
           /\ mem[arr[h].buf] \in Contents
  <1> USE ArrayStoreAssumption
  <1>1. /\ h \in Handles /\ arr[h] \in ArrayRec /\ arr[h].buf # NoBuffer
        /\ GoodArray(h, arr, mem)
    BY DEF StoreInv, Good
  <1>2. arr[h].buf \in Buffers
    BY <1>1 DEF ArrayRec
  <1>3. arr[h].win \in Windows /\ Monotone(arr[h].win)
    BY <1>1 DEF GoodArray
  <1>4. PICK n \in Lengths : arr[h].win \in [1..n -> 1..MaxLen]
    BY <1>3 DEF Windows
  <1>5. n \in 1..MaxLen /\ n \in Nat /\ DOMAIN arr[h].win = 1..n
    BY <1>4 DEF Lengths
  <1>6. Len(arr[h].win) = n
    BY <1>5
  <1>7. \A i \in 1..n : arr[h].win[i] \in DOMAIN mem[arr[h].buf]
    BY <1>1, <1>5 DEF GoodArray
  <1>8. mem[arr[h].buf] \in Contents
    BY <1>2 DEF StoreInv, Good
  <1>9. QED
    BY <1>1, <1>2, <1>3, <1>4, <1>5, <1>6, <1>7, <1>8

\* A buffer holds up to MaxLen elements.
LEMMA ContentsFacts ==
    ASSUME NEW c \in Contents
    PROVE  /\ Len(c) \in 0..MaxLen /\ DOMAIN c = 1..Len(c)
           /\ c \in [1..Len(c) -> Vals]
  <1>1. PICK n \in 0..MaxLen : c \in [1..n -> Vals]
    BY DEF Contents
  <1>2. DOMAIN c = 1..n /\ n \in Nat
    BY <1>1
  <1>3. Len(c) = n
    BY <1>2
  <1>4. QED
    BY <1>1, <1>2, <1>3

\* Reading an array gives one value per element.
LEMMA ContentFacts ==
    ASSUME StoreInv, NEW h \in named
    PROVE  Content(h) \in [1..Len(arr[h].win) -> Vals]
  <1>1. \A i \in 1..Len(arr[h].win) : mem[arr[h].buf][arr[h].win[i]] \in Vals
    BY NamedFacts, ContentsFacts
  <1>2. QED
    BY <1>1, NamedFacts DEF Content

\* A sequence of 1 to MaxLen values fills a buffer.
LEMMA FillsBuffer ==
    ASSUME NEW n \in Lengths, NEW c \in [1..n -> Vals]
    PROVE  c \in Contents /\ Len(c) = n /\ n \in Nat /\ DOMAIN c = 1..n
  <1>1. n \in 1..MaxLen /\ n \in Nat
    BY ArrayStoreAssumption DEF Lengths
  <1>2. DOMAIN c = 1..n
    OBVIOUS
  <1>3. Len(c) = n
    BY <1>1, <1>2
  <1>4. c \in Contents
    BY <1>1 DEF Contents
  <1>5. QED
    BY <1>1, <1>2, <1>3, <1>4

\* The window of a fresh array of n elements.
LEMMA WholeFacts ==
    ASSUME NEW n \in Lengths
    PROVE  /\ Whole(n) \in Windows /\ Monotone(Whole(n))
           /\ DOMAIN Whole(n) = 1..n /\ \A i \in 1..n : Whole(n)[i] = i
  <1>1. n \in 1..MaxLen /\ n \in Nat /\ MaxLen \in Nat
    BY ArrayStoreAssumption DEF Lengths
  <1>2. Whole(n) \in [1..n -> 1..MaxLen]
    BY <1>1 DEF Whole
  <1>3. QED
    BY <1>1, <1>2 DEF Windows, Whole, Monotone, Rising

\* Writing through a window keeps the size of the buffer.
LEMMA WriteFacts ==
    ASSUME NEW d \in Contents, NEW m \in Nat, NEW cells, DOMAIN cells = 1..m,
           NEW vals \in [1..m -> Vals]
    PROVE  Assign(d, cells, vals) \in Contents /\ DOMAIN Assign(d, cells, vals) = DOMAIN d
  <1>1. PICK n \in 0..MaxLen : d \in [1..n -> Vals]
    BY DEF Contents
  <1>2. n \in Nat
    BY <1>1
  <1>3. Assign(d, cells, vals) \in [1..n -> Vals]
    BY <1>1, <1>2, AssignType
  <1>4. QED
    BY <1>1, <1>3 DEF Contents

-----------------------------------------------------------------------------
(* One lemma per way a call changes the store.                              *)

\* A new array that owns a free buffer.
LEMMA OwnFits ==
    ASSUME StoreInv, NEW h \in Handles, h \notin Live, NEW b \in FreeBuffers,
           NEW c \in Contents, NEW w \in Windows, Monotone(w),
           \A i \in DOMAIN w : w[i] \in DOMAIN c,
           NEW A, A = [arr EXCEPT ![h] = [buf |-> b, win |-> w, base |-> NoHandle,
                                          ro |-> FALSE]],
           NEW M, M = [mem EXCEPT ![b] = c],
           NEW K, K = [kin EXCEPT ![h] = {h}]
    PROVE  Fit(named \cup {h}, A, M, K) /\ (KinInv => Kindred(A, K))
  <1> USE ArrayStoreAssumption
  <1> DEFINE new == [buf |-> b, win |-> w, base |-> NoHandle, ro |-> FALSE]
             n == named \cup {h}
  <1>2. b \in Buffers /\ b # NoBuffer /\ \A g \in Handles : arr[g].buf # b
    BY DEF FreeBuffers, Sharers
  <1>3. new \in ArrayRec
    BY <1>2 DEF ArrayRec
  <1>4. /\ A \in [Handles -> ArrayRec] /\ A[h] = new
        /\ \A g \in Handles \ {h} : A[g] = arr[g]
        /\ M \in [Buffers -> Contents] /\ M[b] = c
        /\ \A q \in Buffers \ {b} : M[q] = mem[q]
        /\ K \in [Handles -> SUBSET Handles] /\ K[h] = {h}
        /\ \A g \in Handles \ {h} : K[g] = kin[g]
    BY <1>2, <1>3 DEF StoreInv, Good
  <1>5. n \subseteq Handles /\ \A g \in n : A[g].buf # NoBuffer
    BY <1>2, <1>4 DEF StoreInv, Good
  <1> HIDE DEF n
  <1>6. ASSUME NEW g \in Handles
        PROVE  GoodArray(g, A, M)
    <2>1. CASE g = h
      BY <1>4, <2>1 DEF GoodArray
    <2>2. CASE g # h
      <3>1. GoodArray(g, arr, mem) /\ arr[g] \in ArrayRec /\ A[g] = arr[g]
        BY <1>4, <2>2 DEF StoreInv, Good
      <3>2. arr[g].buf # NoBuffer => M[arr[g].buf] = mem[arr[g].buf]
        BY <1>2, <1>4, <3>1 DEF ArrayRec
      <3>3. (arr[g].buf # NoBuffer /\ arr[g].base # NoHandle) =>
               arr[g].base \in Handles \ {h}
        BY <3>1 DEF GoodArray, ArrayRec, Live
      <3>4. QED
        BY <1>4, <3>1, <3>2, <3>3 DEF GoodArray
    <2>3. QED
      BY <2>1, <2>2
  <1>7. Good(n, A, M, K)
    BY <1>4, <1>5, <1>6 DEF Good
  <1>8. KinInv => Kindred(A, K)
    BY <1>2, <1>4 DEF KinInv, Kindred
  <1>9. TidyInv => Tidy(n, A, M)
    <2> SUFFICES ASSUME TidyInv
                 PROVE  Tidy(n, A, M)
      OBVIOUS
    <2>1. \A x \in Handles : A[x].buf # NoBuffer => x \in n \/ \E g \in n : A[g].base = x
      BY <1>4 DEF TidyInv, Tidy, StoreInv, Good, Live, n
    <2>2. \A x \in Handles : A[x].buf = NoBuffer => A[x] = Dead
      BY <1>2, <1>4 DEF TidyInv, Tidy
    <2>3. ASSUME NEW q \in Buffers, \A x \in Handles : A[x].buf # q
          PROVE  M[q] = <<>>
      <3>1. q # b
        BY <1>4, <2>3
      <3>2. \A x \in Handles : arr[x].buf # q
        BY <1>4, <2>3, NoBuffer \notin Buffers DEF Live
      <3>3. QED
        BY <1>4, <3>1, <3>2 DEF TidyInv, Tidy
    <2>4. QED
      BY <2>1, <2>2, <2>3 DEF Tidy
  <1>10. FamilyInv => Family(A, K)
    <2> SUFFICES ASSUME FamilyInv, NEW g \in Handles, A[g].buf # NoBuffer
                 PROVE  /\ \A x \in K[g] : A[x].buf = A[g].buf
                        /\ A[g].base # NoHandle => A[A[g].base].buf = A[g].buf
      BY DEF Family
    <2>1. CASE g = h
      BY <1>4, <2>1
    <2>2. CASE g # h
      <3>1. /\ \A x \in kin[g] : arr[x].buf = arr[g].buf
            /\ arr[g].base # NoHandle => arr[arr[g].base].buf = arr[g].buf
            /\ arr[g].buf # NoBuffer
        BY <1>4, <2>2 DEF FamilyInv, Family
      <3>2. GoodArray(g, arr, mem) /\ arr[g] \in ArrayRec /\ kin[g] \subseteq Handles
        BY DEF StoreInv, Good
      <3>3. arr[g].base # NoHandle => arr[g].base \in Handles \ {h}
        BY <3>1, <3>2 DEF GoodArray, ArrayRec, Live
      <3>4. \A x \in kin[g] : x \in Handles \ {h}
        BY <3>1, <3>2 DEF Live
      <3>5. QED
        BY <1>4, <2>2, <3>1, <3>3, <3>4
    <2>3. QED
      BY <2>1, <2>2
  <1>11. QED
    BY <1>7, <1>8, <1>9, <1>10 DEF Fit, n

LEMMA OwnStep ==
    ASSUME StoreInv, NEW h \in Handles, h \notin Live, NEW b \in FreeBuffers,
           NEW c \in Contents, NEW w \in Windows, Monotone(w),
           \A i \in DOMAIN w : w[i] \in DOMAIN c,
           Own(h, b, c, w)
    PROVE  StoreInv' /\ (KinInv => KinInv')
  BY OwnFits, BecomeStep DEF Own, Fit

\* A fresh contiguous array.
LEMMA OwnWholeStep ==
    ASSUME StoreInv, NEW h \in Handles, h \notin Live, NEW b \in FreeBuffers,
           NEW n \in Lengths, NEW c \in [1..n -> Vals],
           Own(h, b, c, Whole(n))
    PROVE  StoreInv' /\ (KinInv => KinInv')
  <1>1. \A i \in DOMAIN Whole(n) : Whole(n)[i] \in DOMAIN c
    BY WholeFacts
  <1>2. QED
    BY <1>1, WholeFacts, FillsBuffer, OwnStep

\* The kin when h becomes an array on the buffer of g: kin of its kin, or of nobody.
KinOrNone(h, g, K) == K \in {KinJoins(h, g), [kin EXCEPT ![h] = {h}]}

\* A new array on the buffer of g, based on nothing or on the root of g.
LEMMA AliasFits ==
    ASSUME StoreInv, NEW h \in Handles, h \notin Live, NEW g \in named,
           NEW w \in Windows, Monotone(w),
           \A i \in DOMAIN w : w[i] \in DOMAIN mem[arr[g].buf],
           NEW base \in {NoHandle, Root(g)}, NEW ro \in BOOLEAN,
           NEW K \in [Handles -> SUBSET Handles],
           NEW A, A = [arr EXCEPT ![h] = [buf |-> arr[g].buf, win |-> w, base |-> base,
                                          ro |-> ro]]
    PROVE  /\ Good(named \cup {h}, A, mem, K)
           /\ TidyInv => Tidy(named \cup {h}, A, mem)
           /\ KinInv /\ K = KinJoins(h, g) => Kindred(A, K)
           /\ FamilyInv /\ KinOrNone(h, g, K) => Family(A, K)
  <1> USE ArrayStoreAssumption
  <1> DEFINE new == [buf |-> arr[g].buf, win |-> w, base |-> base, ro |-> ro]
             n == named \cup {h}
  <1>2. /\ g \in Handles /\ g # h /\ arr[g].buf \in Buffers /\ arr[g].buf # NoBuffer
        /\ arr[g] \in ArrayRec /\ arr[h].buf = NoBuffer /\ GoodArray(g, arr, mem)
    BY NamedFacts DEF Live
  <1>3. base # NoHandle =>
           /\ base \in Handles \ {h} /\ arr[base].buf # NoBuffer
           /\ arr[base].base = NoHandle
    BY <1>2 DEF Root, GoodArray, ArrayRec
  <1>4. new \in ArrayRec
    BY <1>2, <1>3 DEF ArrayRec
  <1>5. /\ A \in [Handles -> ArrayRec] /\ A[h] = new
        /\ \A x \in Handles \ {h} : A[x] = arr[x]
    BY <1>4 DEF StoreInv, Good
  <1>6. n \subseteq Handles /\ \A x \in n : A[x].buf # NoBuffer
    BY <1>2, <1>5 DEF StoreInv, Good
  <1> HIDE DEF n
  <1>7. ASSUME NEW x \in Handles
        PROVE  GoodArray(x, A, mem)
    <2>1. CASE x = h
      BY <1>3, <1>5, <2>1 DEF GoodArray
    <2>2. CASE x # h
      <3>1. GoodArray(x, arr, mem) /\ arr[x] \in ArrayRec /\ A[x] = arr[x]
        BY <1>5, <2>2 DEF StoreInv, Good
      <3>2. (arr[x].buf # NoBuffer /\ arr[x].base # NoHandle) =>
               arr[x].base \in Handles \ {h}
        BY <1>2, <3>1 DEF GoodArray, ArrayRec
      <3>3. QED
        BY <1>5, <3>1, <3>2 DEF GoodArray
    <2>3. QED
      BY <2>1, <2>2
  <1>8. Good(n, A, mem, K)
    BY <1>5, <1>6, <1>7 DEF Good, StoreInv
  <1>9. ASSUME KinInv, K = KinJoins(h, g)
        PROVE  Kindred(A, K)
    <2> SUFFICES ASSUME NEW x \in Handles, NEW y \in Handles,
                        A[x].buf # NoBuffer, A[x].buf = A[y].buf
                 PROVE  y \in K[x]
      BY DEF Kindred
    <2>1. K[x] = IF x = h THEN kin[g] \cup {h}
                 ELSE IF x \in kin[g] THEN kin[x] \cup {h} ELSE kin[x]
      BY <1>9 DEF KinJoins
    <2>2. \A z \in Handles : arr[z].buf = arr[g].buf => z \in kin[g]
      BY <1>2, <1>9 DEF KinInv, Kindred
    <2>3. CASE x = h \/ y = h
      BY <1>5, <2>1, <2>2, <2>3
    <2>4. CASE x # h /\ y # h
      BY <1>5, <1>9, <2>1, <2>4 DEF KinInv, Kindred
    <2>5. QED
      BY <2>3, <2>4
  <1>10. TidyInv => Tidy(n, A, mem)
    BY <1>2, <1>5 DEF TidyInv, Tidy, StoreInv, Good, n
  <1>11. ASSUME FamilyInv, KinOrNone(h, g, K)
         PROVE  Family(A, K)
    <2>1. \A x \in Handles : arr[x].buf # NoBuffer =>
             /\ \A y \in kin[x] : y \in Handles \ {h} /\ arr[y].buf = arr[x].buf
             /\ arr[x].base # NoHandle => /\ arr[x].base \in Handles \ {h}
                                          /\ arr[arr[x].base].buf = arr[x].buf
      BY <1>2, <1>11 DEF FamilyInv, Family, StoreInv, Good, GoodArray, ArrayRec
    <2>2. ASSUME NEW x \in Handles, NEW y \in K[x], A[x].buf # NoBuffer
          PROVE  A[y].buf = A[x].buf
      <3>1. kin \in [Handles -> SUBSET Handles] /\ kin[g] \subseteq Handles
        BY <1>2 DEF StoreInv, Good
      <3>2. K[x] = (IF x = h THEN kin[g] \cup {h}
                    ELSE IF x \in kin[g] THEN kin[x] \cup {h} ELSE kin[x])
            \/ K[x] = (IF x = h THEN {h} ELSE kin[x])
        BY <1>11, <3>1 DEF KinOrNone, KinJoins
      <3>3. A[h].buf = arr[g].buf
        BY <1>5
      <3>4. QED
        BY <1>2, <1>5, <2>1, <2>2, <3>2, <3>3
    <2>3. ASSUME NEW x \in Handles, A[x].buf # NoBuffer, A[x].base # NoHandle
          PROVE  A[A[x].base].buf = A[x].buf
      <3>1. CASE x = h
        <4>1. base = Root(g)
          BY <1>5, <2>3, <3>1
        <4>2. arr[base].buf = arr[g].buf
          BY <1>2, <2>1, <4>1 DEF Root
        <4>3. QED
          BY <1>3, <1>5, <2>3, <3>1, <4>2
      <3>2. CASE x # h
        BY <1>5, <2>1, <2>3, <3>2
      <3>3. QED
        BY <3>1, <3>2
    <2>4. QED
      BY <2>2, <2>3 DEF Family
  <1>12. QED
    BY <1>8, <1>9, <1>10, <1>11 DEF n

LEMMA AliasStep ==
    ASSUME StoreInv, NEW h \in Handles, h \notin Live, NEW g \in named,
           NEW w \in Windows, Monotone(w),
           \A i \in DOMAIN w : w[i] \in DOMAIN mem[arr[g].buf],
           NEW base \in {NoHandle, Root(g)}, NEW ro \in BOOLEAN,
           NEW K \in [Handles -> SUBSET Handles],
           Alias(h, g, w, base, ro, K)
    PROVE  /\ StoreInv'
           /\ KinInv /\ K = KinJoins(h, g) => KinInv'
  <1> DEFINE A == [arr EXCEPT ![h] = [buf |-> arr[g].buf, win |-> w, base |-> base, ro |-> ro]]
  <1>1. Become(named \cup {h}, A, mem, K)
    BY DEF Alias
  <1>2. /\ Good(named \cup {h}, A, mem, K)
        /\ KinInv /\ K = KinJoins(h, g) => Kindred(A, K)
    BY AliasFits
  <1> HIDE DEF A
  <1>3. QED
    BY <1>1, <1>2, BecomeStep

\* The elements of h's buffer get other values; nothing else changes.
LEMMA WriteThroughFits ==
    ASSUME StoreInv, NEW h \in named, NEW data \in Contents,
           DOMAIN data = DOMAIN mem[arr[h].buf],
           NEW M, M = [mem EXCEPT ![arr[h].buf] = data]
    PROVE  Fit(named, arr, M, kin)
  <1>1. M \in [Buffers -> Contents] /\ \A b \in Buffers : DOMAIN M[b] = DOMAIN mem[b]
    BY NamedFacts DEF StoreInv, Good
  <1>2. ASSUME NEW x \in Handles
        PROVE  GoodArray(x, arr, M)
    <2>1. GoodArray(x, arr, mem) /\ arr[x] \in ArrayRec
      BY DEF StoreInv, Good
    <2>2. arr[x].buf # NoBuffer => arr[x].buf \in Buffers
      BY <2>1 DEF ArrayRec
    <2>3. QED
      BY <1>1, <2>1, <2>2 DEF GoodArray
  <1>3. Good(named, arr, M, kin)
    BY <1>1, <1>2 DEF StoreInv, Good
  <1>4. TidyInv => Tidy(named, arr, M)
    <2>1. \A b \in Buffers : (\A x \in Handles : arr[x].buf # b) => M[b] = mem[b]
      BY NamedFacts DEF StoreInv, Good
    <2>2. QED
      BY <2>1 DEF TidyInv, Tidy
  <1>5. QED
    BY <1>3, <1>4 DEF Fit, FamilyInv

LEMMA WriteThroughStep ==
    ASSUME StoreInv, NEW h \in named, NEW data \in Contents,
           DOMAIN data = DOMAIN mem[arr[h].buf],
           Become(named, arr, [mem EXCEPT ![arr[h].buf] = data], kin)
    PROVE  StoreInv' /\ (KinInv => KinInv')
  BY WriteThroughFits, BecomeStep DEF Fit, KinInv

\* The array h moves to a free buffer, under a window that fits it.
LEMMA MoveStep ==
    ASSUME StoreInv, NEW h \in named, NEW b \in FreeBuffers, NEW data \in Contents,
           NEW w \in Windows, Monotone(w), \A i \in DOMAIN w : w[i] \in DOMAIN data,
           NEW A, A = [arr EXCEPT ![h] = [@ EXCEPT !.buf = b, !.win = w]],
           Become(named, A, [mem EXCEPT ![b] = data], kin)
    PROVE  StoreInv' /\ (KinInv => KinInv')
  <1> USE ArrayStoreAssumption
  <1> DEFINE M == [mem EXCEPT ![b] = data]
  <1>1. b \in Buffers /\ b # NoBuffer /\ \A g \in Handles : arr[g].buf # b
    BY DEF FreeBuffers, Sharers
  <1>2. /\ h \in Handles /\ arr[h] \in ArrayRec /\ arr[h].buf # NoBuffer
        /\ GoodArray(h, arr, mem)
    BY NamedFacts
  <1>3. /\ A \in [Handles -> ArrayRec]
        /\ A[h].buf = b /\ A[h].win = w /\ A[h].base = arr[h].base
        /\ \A g \in Handles \ {h} : A[g] = arr[g]
    <2> DEFINE r == [arr[h] EXCEPT !.buf = b, !.win = w]
    <2>1. r \in ArrayRec
      BY <1>1, <1>2 DEF ArrayRec
    <2>2. r.buf = b /\ r.win = w /\ r.base = arr[h].base
      BY <1>2 DEF ArrayRec
    <2> HIDE DEF r
    <2>3. A = [arr EXCEPT ![h] = r]
      BY DEF r
    <2>4. arr \in [Handles -> ArrayRec]
      BY DEF StoreInv, Good
    <2>5. QED
      BY <1>2, <2>1, <2>2, <2>3, <2>4
  <1>4. /\ M \in [Buffers -> Contents] /\ M[b] = data
        /\ \A q \in Buffers \ {b} : M[q] = mem[q]
    BY <1>1 DEF StoreInv, Good
  <1> HIDE DEF M
  <1>5. ASSUME NEW x \in Handles
        PROVE  GoodArray(x, A, M)
    <2>1. GoodArray(x, arr, mem) /\ arr[x] \in ArrayRec
      BY DEF StoreInv, Good
    <2>2. \A y \in Handles : A[y].base = arr[y].base
                              /\ (arr[y].buf # NoBuffer => A[y].buf # NoBuffer)
      BY <1>1, <1>3
    <2>3. (arr[x].buf # NoBuffer /\ arr[x].base # NoHandle) => arr[x].base \in Handles
      BY <2>1 DEF ArrayRec
    <2>4. CASE x = h
      <3>1. arr[h].base # NoHandle =>
               /\ arr[h].base \in Handles /\ arr[h].base # h
               /\ A[arr[h].base].buf # NoBuffer /\ A[arr[h].base].base = NoHandle
        BY <1>2, <2>2, <2>3, <2>4 DEF GoodArray
      <3>2. GoodArray(h, A, M)
        BY <1>3, <1>4, <3>1 DEF GoodArray
      <3>3. QED
        BY <2>4, <3>2
    <2>5. CASE x # h
      <3>1. A[x] = arr[x] /\ (arr[x].buf # NoBuffer => M[arr[x].buf] = mem[arr[x].buf])
        BY <1>1, <1>3, <1>4, <2>1, <2>5 DEF ArrayRec
      <3>2. QED
        BY <2>1, <2>2, <2>3, <3>1 DEF GoodArray
    <2>6. QED
      BY <2>4, <2>5
  <1>6. Good(named, A, M, kin)
    <2>1. \A x \in named : A[x].buf # NoBuffer
      BY <1>1, <1>3 DEF StoreInv, Good
    <2>2. QED
      BY <1>3, <1>4, <1>5, <2>1 DEF StoreInv, Good
  <1>7. ASSUME KinInv
        PROVE  Kindred(A, kin)
    BY <1>1, <1>2, <1>3, <1>7 DEF KinInv, Kindred
  <1>8. QED
    BY <1>6, <1>7, BecomeStep DEF M

\* Copy on write: in place when h is alone on its buffer, else h moves.
LEMMA MakeMutStep ==
    ASSUME StoreInv, NEW h \in named, NEW data \in Contents,
           DOMAIN data = DOMAIN mem[arr[h].buf], MakeMut(h, data)
    PROVE  StoreInv' /\ (KinInv => KinInv')
  <1>1. CASE Sharers(arr[h].buf) = {h}
    BY <1>1, WriteThroughStep DEF MakeMut
  <1>2. CASE Sharers(arr[h].buf) # {h}
    <2>1. PICK b \in FreeBuffers :
             Become(named, [arr EXCEPT ![h].buf = b], [mem EXCEPT ![b] = data], kin)
      BY <1>2 DEF MakeMut
    <2>2. arr[h] \in ArrayRec /\ h \in Handles
      BY NamedFacts
    <2>3. [arr[h] EXCEPT !.buf = b] = [arr[h] EXCEPT !.buf = b, !.win = arr[h].win]
      BY <2>2 DEF ArrayRec
    <2>4. [arr EXCEPT ![h].buf = b] = [arr EXCEPT ![h] = [@ EXCEPT !.buf = b, !.win = arr[h].win]]
      BY <2>3
    <2>5. \A i \in DOMAIN arr[h].win : arr[h].win[i] \in DOMAIN data
      BY NamedFacts
    <2>6. QED
      BY <2>1, <2>4, <2>5, NamedFacts, MoveStep
  <1>3. QED
    BY <1>1, <1>2

\* Rebinding to a fresh contiguous buffer.
LEMMA RebindStep ==
    ASSUME StoreInv, NEW h \in named, NEW n \in Lengths, NEW c \in [1..n -> Vals],
           Rebind(h, c)
    PROVE  StoreInv' /\ (KinInv => KinInv')
  <1>1. c \in Contents /\ Len(c) = n /\ DOMAIN c = 1..n
    BY FillsBuffer
  <1>2. PICK b \in FreeBuffers :
           Become(named, [arr EXCEPT ![h].buf = b, ![h].win = Whole(n)],
                  [mem EXCEPT ![b] = c], kin)
    BY <1>1 DEF Rebind
  <1>3. arr[h] \in ArrayRec /\ h \in Handles /\ arr \in [Handles -> ArrayRec]
    BY NamedFacts DEF StoreInv, Good
  <1>4. [arr EXCEPT ![h].buf = b, ![h].win = Whole(n)]
        = [arr EXCEPT ![h] = [@ EXCEPT !.buf = b, !.win = Whole(n)]]
    BY <1>3 DEF ArrayRec
  <1>5. Whole(n) \in Windows /\ Monotone(Whole(n))
        /\ \A i \in DOMAIN Whole(n) : Whole(n)[i] \in DOMAIN c
    BY <1>1, WholeFacts
  <1>6. QED
    BY <1>1, <1>2, <1>4, <1>5, MoveStep

-----------------------------------------------------------------------------
(* One lemma per group of calls.                                            *)

\* A slice runs through its axis in one direction.
LEMMA SliceMonotone ==
    ASSUME NEW n \in Nat, NEW s \in Slices(n)
    PROVE  Monotone(s)
  <1>1. PICK m \in 1..n : s \in [1..m -> 1..n]
    BY DEF Slices
  <1>2. PICK step \in (-n..n) \ {0} : \A i \in 1..m : s[i] = s[1] + (i - 1) * step
    BY <1>1 DEF Slices
  <1>3. s[1] \in Int /\ m \in Nat /\ step \in Int
    BY <1>1
  <1>4. \A i, j \in 1..m : i <= j => s[j] = s[i] + (j - i) * step
    BY <1>2, <1>3
  <1>5. \A d \in Nat : /\ d * step \in Int
                       /\ step > 0 => d * step >= 0
                       /\ step < 0 => d * step <= 0
    BY <1>3
  <1>6. ASSUME NEW i \in 1..m, NEW j \in 1..m, i <= j
        PROVE  /\ step > 0 => s[i] <= s[j]
               /\ step < 0 => s[j] <= s[i]
    <2> DEFINE d == (j - i) * step
    <2>1. s[j] = s[i] + d /\ s[i] \in Int /\ j - i \in Nat
      BY <1>1, <1>3, <1>4, <1>6
    <2>2. d \in Int /\ (step > 0 => d >= 0) /\ (step < 0 => d <= 0)
      BY <1>5, <2>1
    <2> HIDE DEF d
    <2>3. QED
      BY <2>1, <2>2
  <1>7. step > 0 \/ step < 0
    BY <1>3
  <1>8. QED
    BY <1>1, <1>6, <1>7 DEF Monotone, Rising, Falling

\* Following one monotone window by another is monotone.
LEMMA MonotoneCompose ==
    ASSUME NEW m \in Nat, NEW n \in Nat, NEW s \in [1..m -> 1..n], NEW v \in [1..n -> Int],
           Monotone(s), Monotone(v)
    PROVE  Monotone([i \in 1..m |-> v[s[i]]])
  <1> DEFINE w == [i \in 1..m |-> v[s[i]]]
  <1>0. DOMAIN w = 1..m /\ DOMAIN s = 1..m /\ DOMAIN v = 1..n
    OBVIOUS
  <1>1. \A i \in 1..m : w[i] = v[s[i]] /\ s[i] \in 1..n
    OBVIOUS
  <1> HIDE DEF w
  <1>2. ASSUME Rising(s), Rising(v) PROVE Rising(w)
    BY <1>0, <1>1, <1>2 DEF Rising
  <1>3. ASSUME Rising(s), Falling(v) PROVE Falling(w)
    BY <1>0, <1>1, <1>3 DEF Rising, Falling
  <1>4. ASSUME Falling(s), Rising(v) PROVE Falling(w)
    BY <1>0, <1>1, <1>4 DEF Rising, Falling
  <1>5. ASSUME Falling(s), Falling(v) PROVE Rising(w)
    BY <1>0, <1>1, <1>5 DEF Rising, Falling
  <1>6. QED
    BY <1>2, <1>3, <1>4, <1>5 DEF Monotone, w

\* A view of a view is a window of the same kind on the same cells.
LEMMA ViewWindow ==
    ASSUME StoreInv, NEW g \in named, NEW sel \in Slices(Len(arr[g].win)),
           NEW w, w = [i \in DOMAIN sel |-> arr[g].win[sel[i]]]
    PROVE  /\ w \in Windows /\ Monotone(w)
           /\ \A i \in DOMAIN w : w[i] \in DOMAIN mem[arr[g].buf]
  <1> DEFINE n == Len(arr[g].win)
  <1>1. /\ n \in 1..MaxLen /\ n \in Nat /\ MaxLen \in Nat /\ DOMAIN arr[g].win = 1..n
        /\ arr[g].win \in [1..n -> 1..MaxLen]
        /\ \A i \in 1..n : arr[g].win[i] \in DOMAIN mem[arr[g].buf]
    BY NamedFacts, ArrayStoreAssumption
  <1> HIDE DEF n
  <1>2. PICK m \in 1..n : sel \in [1..m -> 1..n]
    BY <1>1, SliceFacts DEF n
  <1>3. DOMAIN w = 1..m /\ \A i \in 1..m : w[i] = arr[g].win[sel[i]] /\ sel[i] \in 1..n
    BY <1>2
  <1>4. w \in [1..m -> 1..MaxLen] /\ m \in Lengths
    <2>1. w = [i \in 1..m |-> arr[g].win[sel[i]]]
      BY <1>2
    <2>2. \A i \in 1..m : arr[g].win[sel[i]] \in 1..MaxLen
      BY <1>1, <1>2
    <2>3. m \in Lengths
      BY <1>1, <1>2 DEF Lengths
    <2>4. QED
      BY <2>1, <2>2, <2>3
  <1>5. Monotone(sel) /\ Monotone(arr[g].win)
    BY <1>1, SliceMonotone, NamedFacts DEF n
  <1>6. Monotone(w)
    <2> DEFINE v == arr[g].win
    <2>1. w = [i \in 1..m |-> v[sel[i]]] /\ m \in Nat
      BY <1>1, <1>2
    <2>2. v \in [1..n -> Int]
      BY <1>1
    <2>3. Monotone(v)
      BY <1>5
    <2> HIDE DEF v
    <2>4. Monotone([i \in 1..m |-> v[sel[i]]])
      BY <1>1, <1>2, <1>5, <2>1, <2>2, <2>3, MonotoneCompose
    <2>5. QED
      BY <2>1, <2>4
  <1>7. QED
    BY <1>1, <1>3, <1>4, <1>6 DEF Windows

\* A broadcast of a window sees the cells of that window.
LEMMA BroadcastWindow ==
    ASSUME StoreInv, NEW g \in named, NEW n \in Lengths, Broadcasts(arr[g].win, n),
           NEW w, w = Broadcast(arr[g].win, n)
    PROVE  /\ w \in Windows /\ Monotone(w)
           /\ \A i \in DOMAIN w : w[i] \in DOMAIN mem[arr[g].buf]
  <1>1. n \in 1..MaxLen /\ n \in Nat
    BY ArrayStoreAssumption DEF Lengths
  <1>2. CASE Len(arr[g].win) = 1
    <2>1. w = [i \in 1..n |-> arr[g].win[1]] /\ arr[g].win[1] \in 1..MaxLen
          /\ arr[g].win[1] \in DOMAIN mem[arr[g].buf]
      BY <1>2, NamedFacts DEF Broadcast
    <2>2. QED
      BY <1>1, <2>1 DEF Windows, Lengths, Monotone, Rising
  <1>3. CASE Len(arr[g].win) = n
    <2>1. w = arr[g].win
      BY <1>1, <1>3, NamedFacts DEF Broadcast
    <2>2. QED
      BY <2>1, NamedFacts
  <1>4. QED
    BY <1>2, <1>3 DEF Broadcasts

LEMMA KinJoinsType ==
    ASSUME StoreInv, NEW h \in Handles, NEW g \in Handles
    PROVE  KinJoins(h, g) \in [Handles -> SUBSET Handles]
  BY DEF StoreInv, Good, KinJoins

\* A copy that is viewed at once: a hidden owner and its view.
LEMMA ReshapeCopyFits ==
    ASSUME StoreInv, NEW h \in Handles, NEW o \in Handles, NEW g \in named,
           h \notin Live, o \notin Live, h # o,
           NEW b \in FreeBuffers,
           NEW owner, owner = [buf |-> b, win |-> Whole(Len(arr[g].win)),
                               base |-> NoHandle, ro |-> FALSE],
           NEW A, A = [arr EXCEPT ![o] = owner, ![h] = [owner EXCEPT !.base = o]],
           NEW M, M = [mem EXCEPT ![b] = Content(g)],
           NEW K, K = [kin EXCEPT ![h] = {h, o}, ![o] = {h, o}]
    PROVE  Fit(named \cup {h}, A, M, K) /\ (KinInv => Kindred(A, K))
  <1> USE ArrayStoreAssumption
  <1> DEFINE m == Len(arr[g].win)
             n == named \cup {h}
             view == [owner EXCEPT !.base = o]
  <1>1. h \notin Live /\ o \notin Live /\ h # o /\ m \in Lengths
    BY NamedFacts DEF Lengths
  <1>3. b \in Buffers /\ b # NoBuffer /\ \A x \in Handles : arr[x].buf # b
    BY DEF FreeBuffers, Sharers
  <1>4. /\ Whole(m) \in Windows /\ Monotone(Whole(m))
        /\ \A i \in DOMAIN Whole(m) : Whole(m)[i] \in DOMAIN Content(g)
        /\ Content(g) \in Contents
    BY <1>1, WholeFacts, ContentFacts, FillsBuffer
  <1>5. owner \in ArrayRec /\ view \in ArrayRec /\ view.buf = b /\ view.base = o
        /\ view.win = Whole(m)
    BY <1>3, <1>4 DEF ArrayRec
  <1>6. owner.buf = b /\ owner.base = NoHandle /\ owner.win = Whole(m)
    OBVIOUS
  <1> HIDE DEF view
  <1>7. /\ A \in [Handles -> ArrayRec] /\ A[o] = owner /\ A[h] = view
        /\ \A x \in Handles \ {h, o} : A[x] = arr[x]
    <2>1. A = [arr EXCEPT ![o] = owner, ![h] = view]
      BY DEF view
    <2>2. arr \in [Handles -> ArrayRec]
      BY DEF StoreInv, Good
    <2> DEFINE B == [arr EXCEPT ![o] = owner]
    <2>3. /\ B \in [Handles -> ArrayRec] /\ B[o] = owner
          /\ \A x \in Handles \ {o} : B[x] = arr[x]
      BY <1>5, <2>2
    <2>4. A = [B EXCEPT ![h] = view]
      BY <2>1
    <2> HIDE DEF B
    <2>5. A \in [Handles -> ArrayRec]
      BY <1>5, <2>3, <2>4
    <2>6. A[h] = view /\ \A x \in Handles \ {h} : A[x] = B[x]
      BY <2>3, <2>4
    <2>7. A[o] = owner /\ \A x \in Handles \ {h, o} : A[x] = arr[x]
      <3>1. o \in Handles \ {h}
        BY <1>1
      <3> QED  BY <2>3, <2>6, <3>1
    <2>8. QED
      BY <2>5, <2>6, <2>7
  <1>8. /\ M \in [Buffers -> Contents] /\ M[b] = Content(g)
        /\ \A q \in Buffers \ {b} : M[q] = mem[q]
    BY <1>3, <1>4 DEF StoreInv, Good
  <1>9. /\ K \in [Handles -> SUBSET Handles] /\ K[h] = {h, o} /\ K[o] = {h, o}
        /\ \A x \in Handles \ {h, o} : K[x] = kin[x]
    BY <1>1 DEF StoreInv, Good
  <1>11. n \subseteq Handles /\ \A x \in n : A[x].buf # NoBuffer
    BY <1>1, <1>3, <1>5, <1>7 DEF StoreInv, Good, Live
  <1> HIDE DEF n
  <1>12. ASSUME NEW x \in Handles
         PROVE  GoodArray(x, A, M)
    <2>1. CASE x = o
      BY <1>4, <1>6, <1>7, <1>8, <2>1 DEF GoodArray
    <2>2. CASE x = h
      BY <1>1, <1>3, <1>4, <1>5, <1>6, <1>7, <1>8, <2>2 DEF GoodArray
    <2>3. CASE x # h /\ x # o
      <3>1. GoodArray(x, arr, mem) /\ arr[x] \in ArrayRec /\ A[x] = arr[x]
        BY <1>7, <2>3 DEF StoreInv, Good
      <3>2. arr[x].buf # NoBuffer => M[arr[x].buf] = mem[arr[x].buf]
        BY <1>3, <1>8, <3>1 DEF ArrayRec
      <3>3. (arr[x].buf # NoBuffer /\ arr[x].base # NoHandle) =>
               A[arr[x].base] = arr[arr[x].base]
        BY <1>1, <1>7, <3>1 DEF GoodArray, ArrayRec, Live
      <3>4. QED
        BY <3>1, <3>2, <3>3 DEF GoodArray
    <2>4. QED
      BY <2>1, <2>2, <2>3
  <1>13. Good(n, A, M, K)
    BY <1>7, <1>8, <1>9, <1>11, <1>12 DEF Good
  <1>14. KinInv => Kindred(A, K)
    BY <1>3, <1>5, <1>6, <1>7, <1>9 DEF KinInv, Kindred
  <1>15. TidyInv => Tidy(n, A, M)
    <2> SUFFICES ASSUME TidyInv
                 PROVE  Tidy(n, A, M)
      OBVIOUS
    <2>1. ASSUME NEW x \in Handles, A[x].buf # NoBuffer
          PROVE  x \in n \/ \E y \in n : A[y].base = x
      <3>1. CASE x = h
        BY <3>1 DEF n
      <3>2. CASE x = o
        BY <1>5, <1>7, <3>2 DEF n
      <3>3. CASE x # h /\ x # o
        <4>1. x \in named \/ \E y \in named : arr[y].base = x
          BY <1>7, <2>1, <3>3 DEF TidyInv, Tidy
        <4>2. \A y \in named : y \in Handles \ {h, o}
          BY <1>1 DEF StoreInv, Good, Live
        <4>3. QED
          BY <1>7, <4>1, <4>2 DEF n
      <3>4. QED
        BY <3>1, <3>2, <3>3
    <2>2. \A x \in Handles : A[x].buf = NoBuffer => A[x] = Dead
      BY <1>3, <1>5, <1>6, <1>7 DEF TidyInv, Tidy
    <2>3. ASSUME NEW q \in Buffers, \A x \in Handles : A[x].buf # q
          PROVE  M[q] = <<>>
      <3>1. q # b
        BY <1>5, <1>7, <2>3
      <3>2. \A x \in Handles : arr[x].buf # q
        BY <1>1, <1>7, <2>3 DEF Live
      <3>3. QED
        BY <1>8, <3>1, <3>2 DEF TidyInv, Tidy
    <2>4. QED
      BY <2>1, <2>2, <2>3 DEF Tidy
  <1>16. FamilyInv => Family(A, K)
    <2> SUFFICES ASSUME FamilyInv, NEW x \in Handles, A[x].buf # NoBuffer
                 PROVE  /\ \A y \in K[x] : A[y].buf = A[x].buf
                        /\ A[x].base # NoHandle => A[A[x].base].buf = A[x].buf
      BY DEF Family
    <2>1. CASE x \in {h, o}
      BY <1>1, <1>5, <1>6, <1>7, <1>9, <2>1
    <2>2. CASE x \notin {h, o}
      <3>1. /\ \A y \in kin[x] : arr[y].buf = arr[x].buf
            /\ arr[x].base # NoHandle => arr[arr[x].base].buf = arr[x].buf
            /\ arr[x].buf # NoBuffer
        BY <1>7, <2>2 DEF FamilyInv, Family
      <3>2. GoodArray(x, arr, mem) /\ arr[x] \in ArrayRec /\ kin[x] \subseteq Handles
        BY DEF StoreInv, Good
      <3>3. arr[x].base # NoHandle => arr[x].base \in Handles \ {h, o}
        BY <1>1, <3>1, <3>2 DEF ArrayRec, Live
      <3>4. \A y \in kin[x] : y \in Handles \ {h, o}
        BY <1>1, <3>1, <3>2 DEF Live
      <3>5. QED
        BY <1>7, <1>9, <2>2, <3>1, <3>3, <3>4
    <2>3. QED
      BY <2>1, <2>2
  <1>17. QED
    BY <1>13, <1>14, <1>15, <1>16 DEF Fit, n

LEMMA ReshapeCopyStep ==
    ASSUME StoreInv, NEW h \in Handles, NEW o \in Handles, NEW g \in named,
           ReshapeCopy(h, o, g)
    PROVE  StoreInv' /\ (KinInv => KinInv')
  <1>1. h \notin Live /\ o \notin Live /\ h # o
    BY DEF ReshapeCopy
  <1>2. PICK b \in FreeBuffers :
          LET owner == [buf |-> b, win |-> Whole(Len(arr[g].win)),
                        base |-> NoHandle, ro |-> FALSE]
          IN  Become(named \cup {h},
                     [arr EXCEPT ![o] = owner, ![h] = [owner EXCEPT !.base = o]],
                     [mem EXCEPT ![b] = Content(g)],
                     [kin EXCEPT ![h] = {h, o}, ![o] = {h, o}])
    BY DEF ReshapeCopy
  <1> DEFINE owner == [buf |-> b, win |-> Whole(Len(arr[g].win)),
                       base |-> NoHandle, ro |-> FALSE]
             A == [arr EXCEPT ![o] = owner, ![h] = [owner EXCEPT !.base = o]]
             M == [mem EXCEPT ![b] = Content(g)]
             K == [kin EXCEPT ![h] = {h, o}, ![o] = {h, o}]
  <1>3. Become(named \cup {h}, A, M, K)
    BY <1>2
  <1>4. Fit(named \cup {h}, A, M, K) /\ (KinInv => Kindred(A, K))
    BY <1>1, ReshapeCopyFits
  <1> HIDE DEF A, M, K
  <1>5. QED
    BY <1>3, <1>4, BecomeStep DEF Fit

\* Every call that makes an array.  Only `+a` makes an array that shares memory
\* without being kin.
LEMMA CreateStep ==
    ASSUME StoreInv, Create
    PROVE  StoreInv' /\ ("pos" \notin Calls /\ KinInv => KinInv')
  <1> USE ArrayStoreAssumption
  <1>1. PICK h \in Handles :
          \/ \E c \in NonEmpty : New(h, c)
          \/ \E g \in named :
                \/ Copy(h, g)
                \/ ArrayCall(h, g)
                \/ \E idx \in IndexArrays(Len(arr[g].win)) : Take(h, g, idx)
                \/ \E sel \in Slices(Len(arr[g].win)) : View(h, g, sel)
                \/ \E n \in Lengths : BroadcastTo(h, g, n)
                \/ AsArray(h, g)
                \/ Pos(h, g)
                \/ \E o \in Handles : ReshapeCopy(h, o, g)
    BY DEF Create
  <1>2. ASSUME NEW c \in NonEmpty, New(h, c)
        PROVE  StoreInv' /\ (KinInv => KinInv')
    <2>1. c \in Contents /\ c # <<>>
      BY DEF NonEmpty
    <2>2. Len(c) \in Lengths /\ c \in [1..Len(c) -> Vals]
      BY <2>1, ContentsFacts DEF Lengths
    <2>3. PICK b \in FreeBuffers : h \notin Live /\ Own(h, b, c, Whole(Len(c)))
      BY <1>2 DEF New
    <2>4. QED
      BY <2>2, <2>3, OwnWholeStep
  <1>3. ASSUME NEW g \in named
        PROVE  /\ Len(arr[g].win) \in Lengths /\ Len(arr[g].win) \in Nat
               /\ g \in Handles
    BY NamedFacts DEF Lengths
  <1>4. ASSUME NEW g \in named, Copy(h, g)
        PROVE  StoreInv' /\ (KinInv => KinInv')
    <2>1. PICK b \in FreeBuffers :
             h \notin Live /\ Own(h, b, Content(g), Whole(Len(arr[g].win)))
      BY <1>4 DEF Copy
    <2>2. QED
      BY <1>3, <2>1, ContentFacts, OwnWholeStep
  <1>5. ASSUME NEW g \in named, ArrayCall(h, g)
        PROVE  StoreInv' /\ (KinInv => KinInv')
    <2>1. PICK b \in FreeBuffers : h \notin Live /\ Own(h, b, mem[arr[g].buf], arr[g].win)
      BY <1>5 DEF ArrayCall
    <2>2. \A i \in DOMAIN arr[g].win : arr[g].win[i] \in DOMAIN mem[arr[g].buf]
      BY NamedFacts
    <2>3. QED
      BY <2>1, <2>2, NamedFacts, OwnStep
  <1>6. ASSUME NEW g \in named, NEW idx \in IndexArrays(Len(arr[g].win)), Take(h, g, idx)
        PROVE  StoreInv' /\ (KinInv => KinInv')
    <2> DEFINE c == [i \in DOMAIN idx |-> Content(g)[idx[i]]]
    <2>1. PICK m \in Lengths : idx \in [1..m -> 1..Len(arr[g].win)]
      BY DEF IndexArrays
    <2>2. Len(idx) = m
      BY <2>1 DEF Lengths
    <2>3. c \in [1..m -> Vals]
      BY <2>1, ContentFacts
    <2>4. PICK b \in FreeBuffers : h \notin Live /\ Own(h, b, c, Whole(Len(idx)))
      BY <1>6 DEF Take
    <2> HIDE DEF c
    <2>5. QED
      BY <2>1, <2>2, <2>3, <2>4, OwnWholeStep
  <1>7. ASSUME NEW g \in named, NEW sel \in Slices(Len(arr[g].win)), View(h, g, sel)
        PROVE  StoreInv' /\ (KinInv => KinInv')
    <2> DEFINE w == [i \in DOMAIN sel |-> arr[g].win[sel[i]]]
               K == KinJoins(h, g)
    <2>1. h \notin Live /\ Alias(h, g, w, Root(g), FALSE, K)
      BY <1>7 DEF View
    <2>2. /\ w \in Windows /\ Monotone(w)
          /\ \A i \in DOMAIN w : w[i] \in DOMAIN mem[arr[g].buf]
      BY ViewWindow
    <2>3. K \in [Handles -> SUBSET Handles]
      BY <1>3, KinJoinsType
    <2> HIDE DEF w, K
    <2>4. StoreInv' /\ (KinInv /\ K = KinJoins(h, g) => KinInv')
      BY <2>1, <2>2, <2>3, AliasStep
    <2>5. QED
      BY <2>4 DEF K
  <1>8. ASSUME NEW g \in named, NEW n \in Lengths, BroadcastTo(h, g, n)
        PROVE  StoreInv' /\ (KinInv => KinInv')
    <2> DEFINE w == Broadcast(arr[g].win, n)
               K == KinJoins(h, g)
    <2>1. h \notin Live /\ Alias(h, g, w, Root(g), TRUE, K)
      BY <1>8 DEF BroadcastTo
    <2>2. /\ w \in Windows /\ Monotone(w)
          /\ \A i \in DOMAIN w : w[i] \in DOMAIN mem[arr[g].buf]
      BY <1>8, BroadcastWindow DEF BroadcastTo
    <2>3. K \in [Handles -> SUBSET Handles]
      BY <1>3, KinJoinsType
    <2> HIDE DEF w, K
    <2>4. StoreInv' /\ (KinInv /\ K = KinJoins(h, g) => KinInv')
      BY <2>1, <2>2, <2>3, AliasStep
    <2>5. QED
      BY <2>4 DEF K
  <1>9. ASSUME NEW g \in named, AsArray(h, g)
        PROVE  StoreInv' /\ (KinInv => KinInv')
    <2> DEFINE K == KinJoins(h, g)
    <2>1. h \notin Live /\ Alias(h, g, arr[g].win, NoHandle, FALSE, K)
      BY <1>9 DEF AsArray
    <2>2. \A i \in DOMAIN arr[g].win : arr[g].win[i] \in DOMAIN mem[arr[g].buf]
      BY NamedFacts
    <2>3. K \in [Handles -> SUBSET Handles]
      BY <1>3, KinJoinsType
    <2> HIDE DEF K
    <2>4. StoreInv' /\ (KinInv /\ K = KinJoins(h, g) => KinInv')
      BY <2>1, <2>2, <2>3, NamedFacts, AliasStep
    <2>5. QED
      BY <2>4 DEF K
  <1>10. ASSUME NEW g \in named, Pos(h, g)
         PROVE  StoreInv' /\ "pos" \in Calls
    <2> DEFINE K == [kin EXCEPT ![h] = {h}]
    <2>1. h \notin Live /\ Alias(h, g, arr[g].win, NoHandle, FALSE, K) /\ "pos" \in Calls
      BY <1>10 DEF Pos
    <2>2. \A i \in DOMAIN arr[g].win : arr[g].win[i] \in DOMAIN mem[arr[g].buf]
      BY NamedFacts
    <2>3. K \in [Handles -> SUBSET Handles]
      BY DEF StoreInv, Good
    <2> HIDE DEF K
    <2>4. StoreInv'
      BY <2>1, <2>2, <2>3, NamedFacts, AliasStep
    <2>5. QED
      BY <2>1, <2>4
  <1>11. ASSUME NEW g \in named, NEW o \in Handles, ReshapeCopy(h, o, g)
         PROVE  StoreInv' /\ (KinInv => KinInv')
    BY <1>11, ReshapeCopyStep
  <1>12. QED
    BY <1>1, <1>2, <1>4, <1>5, <1>6, <1>7, <1>8, <1>9, <1>10, <1>11

\* A base handed out, or a name dropped.
LEMMA NamesStep ==
    ASSUME StoreInv, Names
    PROVE  StoreInv' /\ (KinInv => KinInv')
  <1>1. PICK h \in named : GetBase(h) \/ Del(h)
    BY DEF Names
  <1>2. CASE GetBase(h)
    <2>1. /\ Become(named \cup {arr[h].base}, arr, mem, kin)
          /\ arr[h].base \in Handles /\ arr[arr[h].base].buf # NoBuffer
      BY <1>2, NamedFacts DEF GetBase, GoodArray, ArrayRec
    <2>2. Good(named \cup {arr[h].base}, arr, mem, kin)
      BY <2>1 DEF StoreInv, Good
    <2>3. QED
      BY <2>1, <2>2, BecomeStep DEF KinInv
  <1>3. CASE Del(h)
    <2>1. Good(named \ {h}, arr, mem, kin) /\ Become(named \ {h}, arr, mem, kin)
      BY <1>3 DEF Del, StoreInv, Good
    <2>2. QED
      BY <2>1, BecomeStep DEF KinInv
  <1>4. QED
    BY <1>1, <1>2, <1>3

\* `reverse_axis_lines` stays inside the buffer when the window runs one way.
LEMMA ReversedFacts ==
    ASSUME NEW d \in Contents, NEW m \in 1..MaxLen, NEW w \in [1..m -> 1..MaxLen],
           Monotone(w), \A i \in 1..m : w[i] \in DOMAIN d
    PROVE  /\ ReversedFromStart(d, w) \in Contents
           /\ DOMAIN ReversedFromStart(d, w) = DOMAIN d
  <1> DEFINE cell(i) == 1 + w[i] - w[1]
             swapped == [i \in DOMAIN w |-> cell(i)]
             vals == [i \in DOMAIN w |-> d[cell(Len(w) + 1 - i)]]
  <1>1. m \in Nat /\ 1 \in 1..m /\ m \in 1..m /\ DOMAIN w = 1..m
    BY ArrayStoreAssumption
  <1>2. Len(w) = m
    BY <1>1
  <1>3. Len(d) \in Nat /\ DOMAIN d = 1..Len(d) /\ d \in [1..Len(d) -> Vals]
    BY ContentsFacts, ArrayStoreAssumption
  <1>4. CASE cell(m) < 1
    BY <1>2, <1>4 DEF ReversedFromStart
  <1>5. CASE ~(cell(m) < 1)
    <2>1. \A i \in 1..m : w[i] \in 1..Len(d)
      BY <1>3
    <2>2. Rising(w) \/ Falling(w)
      BY DEF Monotone
    <2>3. \A i \in 1..m : w[1] <= w[i]
      <3>1. CASE Rising(w)
        BY <1>1, <3>1 DEF Rising
      <3>2. CASE Falling(w)
        <4>1. \A i \in 1..m : w[m] <= w[i]
          BY <1>1, <3>2 DEF Falling
        <4>2. w[1] <= w[m]
          BY <1>1, <1>5, <2>1
        <4>3. QED
          BY <1>1, <2>1, <4>1, <4>2
      <3>3. QED
        BY <2>2, <3>1, <3>2
    <2>4. \A i \in 1..m : cell(i) \in 1..Len(d)
      BY <1>1, <1>3, <2>1, <2>3
    <2>5. \A i \in 1..m : m + 1 - i \in 1..m
      BY <1>1
    <2>6. vals \in [1..m -> Vals]
      BY <1>1, <1>2, <1>3, <2>4, <2>5
    <2>7. DOMAIN swapped = 1..m
      BY <1>1
    <2>8. ReversedFromStart(d, w) = Assign(d, swapped, vals)
      BY <1>2, <1>5 DEF ReversedFromStart
    <2> HIDE DEF swapped, vals
    <2>9. Assign(d, swapped, vals) \in Contents /\ DOMAIN Assign(d, swapped, vals) = DOMAIN d
      BY <1>1, <2>6, <2>7, WriteFacts
    <2>10. QED
      BY <2>8, <2>9
  <1>6. QED
    BY <1>4, <1>5

\* Assigning one value per element of h to the cells of h.
LEMMA WindowWrite ==
    ASSUME StoreInv, NEW h \in named, NEW c \in [1..Len(arr[h].win) -> Vals]
    PROVE  /\ Assign(mem[arr[h].buf], arr[h].win, c) \in Contents
           /\ DOMAIN Assign(mem[arr[h].buf], arr[h].win, c) = DOMAIN mem[arr[h].buf]
  <1>1. Len(arr[h].win) \in Nat /\ DOMAIN arr[h].win = 1..Len(arr[h].win)
        /\ mem[arr[h].buf] \in Contents
    BY NamedFacts
  <1>2. QED
    BY <1>1, WriteFacts

\* A non-empty value is a function on its positions.
LEMMA ValueFacts ==
    ASSUME NEW c \in NonEmpty
    PROVE  Len(c) \in Lengths /\ Len(c) \in Nat /\ c \in [1..Len(c) -> Vals]
  <1>1. c \in Contents /\ c # <<>>
    BY DEF NonEmpty
  <1>2. QED
    BY <1>1, ContentsFacts, ArrayStoreAssumption DEF Lengths

\* A value is used as it is or repeated, element for element.
LEMMA BroadcastFacts ==
    ASSUME NEW n \in Nat, NEW val \in NonEmpty, Broadcasts(val, n)
    PROVE  Broadcast(val, n) \in [1..n -> Vals]
  <1>1. \A i \in 1..n : IF Len(val) = 1 THEN val[1] \in Vals ELSE val[i] \in Vals
    BY ValueFacts DEF Broadcasts
  <1>2. QED
    BY <1>1 DEF Broadcast

\* Every call that writes.
LEMMA WriteStep ==
    ASSUME StoreInv, Write
    PROVE  StoreInv' /\ (KinInv => KinInv')
  <1> USE ArrayStoreAssumption
  <1>1. PICK h \in named :
          \/ \E key \in IndexArrays(Len(arr[h].win)), val \in Values : SetItem(h, key, val)
          \/ \E val \in Values : CopyTo(h, val)
          \/ \E c \in Values : InPlace(h, c)
          \/ \E c \in Values : CowWrite(h, c)
          \/ Sort(h)
          \/ SortDescending(h)
          \/ \E p \in AnyPerm : Shuffle1D(h, p)
          \/ \E v \in Vals : Fill(h, v)
          \/ \E c \in Values : IMatMul(h, c)
          \/ \E p \in AnyPerm : ShuffleND(h, p)
    BY DEF Write
  <1> DEFINE n == Len(arr[h].win)
             b == arr[h].buf
  <1>2. /\ n \in Lengths /\ n \in Nat /\ n \in 1..MaxLen /\ DOMAIN arr[h].win = 1..n
        /\ mem[b] \in Contents
        /\ Content(h) \in [1..n -> Vals] /\ DOMAIN Content(h) = 1..n
    BY NamedFacts, ContentFacts DEF Lengths
  <1>3. ASSUME NEW key \in IndexArrays(n), NEW val \in Values, SetItem(h, key, val)
        PROVE  StoreInv' /\ (KinInv => KinInv')
    <2> DEFINE cells == [i \in DOMAIN key |-> arr[h].win[key[i]]]
               vals == Broadcast(val, Len(key))
    <2>1. PICK m \in Lengths : key \in [1..m -> 1..n]
      BY DEF IndexArrays
    <2>2. Len(key) = m /\ m \in Nat /\ DOMAIN cells = 1..m
      BY <2>1 DEF Lengths
    <2>3. vals \in [1..m -> Vals]
      BY <1>3, <2>2, BroadcastFacts DEF SetItem, Values
    <2>4. WriteThrough(h, cells, vals)
      BY <1>3 DEF SetItem
    <2> HIDE DEF cells, vals, b
    <2>5. Assign(mem[b], cells, vals) \in Contents
          /\ DOMAIN Assign(mem[b], cells, vals) = DOMAIN mem[b]
      BY <1>2, <2>2, <2>3, WriteFacts
    <2>6. QED
      BY <2>4, <2>5, WriteThroughStep DEF WriteThrough, b
  <1>4. ASSUME NEW c \in [1..n -> Vals], WriteThrough(h, arr[h].win, c)
        PROVE  StoreInv' /\ (KinInv => KinInv')
    BY <1>4, WindowWrite, WriteThroughStep DEF WriteThrough
  <1>5. ASSUME NEW val \in Values, CopyTo(h, val)
        PROVE  StoreInv' /\ (KinInv => KinInv')
    <2>1. Broadcast(val, n) \in [1..n -> Vals]
      BY <1>2, <1>5, BroadcastFacts DEF CopyTo, Values
    <2>2. QED
      BY <1>4, <1>5, <2>1 DEF CopyTo
  <1>6. ASSUME NEW c \in Values, Len(c) = n
        PROVE  c \in [1..n -> Vals]
    BY <1>6, ValueFacts DEF Values
  <1>7. ASSUME NEW c \in Values, InPlace(h, c)
        PROVE  StoreInv' /\ (KinInv => KinInv')
    BY <1>4, <1>6, <1>7 DEF InPlace
  <1>8. ASSUME NEW c \in Values, CowWrite(h, c)
        PROVE  StoreInv' /\ (KinInv => KinInv')
    <2>1. c \in [1..n -> Vals] /\ MakeMut(h, Assign(mem[b], arr[h].win, c))
      BY <1>6, <1>8 DEF CowWrite
    <2>2. QED
      BY <2>1, WindowWrite, MakeMutStep
  <1>9. \A s \in Sorted(Content(h)) : s \in [1..n -> Vals]
    BY <1>2 DEF Sorted
  <1>10. CASE Sort(h)
    <2>1. PICK s \in [1..n -> Vals] : MakeMut(h, Assign(mem[b], arr[h].win, s))
      BY <1>9, <1>10 DEF Sort
    <2>2. QED
      BY <2>1, WindowWrite, MakeMutStep
  <1>11. CASE SortDescending(h)
    <2>1. PICK s \in [1..n -> Vals] :
             MakeMut(h, ReversedFromStart(Assign(mem[b], arr[h].win, s), arr[h].win))
      BY <1>9, <1>11 DEF SortDescending
    <2> DEFINE d == Assign(mem[b], arr[h].win, s)
    <2>2. d \in Contents /\ DOMAIN d = DOMAIN mem[b]
      BY WindowWrite
    <2> HIDE DEF d
    <2>3. /\ arr[h].win \in [1..n -> 1..MaxLen] /\ Monotone(arr[h].win)
          /\ \A i \in 1..n : arr[h].win[i] \in DOMAIN d
      BY <2>2, NamedFacts
    <2>4. /\ ReversedFromStart(d, arr[h].win) \in Contents
          /\ DOMAIN ReversedFromStart(d, arr[h].win) = DOMAIN mem[b]
      BY <1>2, <2>2, <2>3, ReversedFacts
    <2>5. MakeMut(h, ReversedFromStart(d, arr[h].win))
      BY <2>1 DEF d
    <2>6. QED
      BY <2>4, <2>5, MakeMutStep
  <1>12. ASSUME NEW p \in AnyPerm, Shuffle1D(h, p)
         PROVE  StoreInv' /\ (KinInv => KinInv')
    <2> DEFINE d == [i \in DOMAIN p |-> mem[b][p[i]]]
    <2>1. DOMAIN p = DOMAIN mem[b] /\ MakeMut(h, d)
      BY <1>12 DEF Shuffle1D
    <2>2. PICK m \in Lengths : p \in [1..m -> 1..m]
      BY DEF AnyPerm, Perms
    <2>3. DOMAIN mem[b] = 1..m
      BY <2>1, <2>2
    <2>4. \A i \in 1..m : mem[b][i] \in Vals
      BY <1>2, <2>3, ContentsFacts
    <2>5. d \in [1..m -> Vals]
      BY <2>2, <2>4
    <2> HIDE DEF d
    <2>6. d \in Contents /\ DOMAIN d = DOMAIN mem[b]
      BY <2>3, <2>5, FillsBuffer
    <2>7. QED
      BY <2>1, <2>6, MakeMutStep
  <1>13. ASSUME NEW v \in Vals, Fill(h, v)
         PROVE  StoreInv' /\ (KinInv => KinInv')
    <2> DEFINE c == [i \in DOMAIN arr[h].win |-> v]
    <2>1. c \in [1..n -> Vals] /\ Rebind(h, c)
      BY <1>2, <1>13 DEF Fill
    <2> HIDE DEF c
    <2>2. QED
      BY <1>2, <2>1, RebindStep
  <1>14. ASSUME NEW c \in Values, IMatMul(h, c)
         PROVE  StoreInv' /\ (KinInv => KinInv')
    <2>1. c \in [1..n -> Vals] /\ Rebind(h, c)
      BY <1>6, <1>14 DEF IMatMul
    <2>2. QED
      BY <1>2, <2>1, RebindStep
  <1>15. ASSUME NEW p \in AnyPerm, ShuffleND(h, p)
         PROVE  StoreInv' /\ (KinInv => KinInv')
    <2> DEFINE c == [i \in DOMAIN p |-> Content(h)[p[i]]]
    <2>1. DOMAIN p = 1..n /\ Rebind(h, c)
      BY <1>2, <1>15 DEF ShuffleND
    <2>2. PICK m \in Lengths : p \in [1..m -> 1..m]
      BY DEF AnyPerm, Perms
    <2>3. c \in [1..n -> Vals]
      BY <1>2, <2>1, <2>2
    <2> HIDE DEF c
    <2>4. QED
      BY <1>2, <2>1, <2>3, RebindStep
  <1>16. QED
    BY <1>1, <1>3, <1>5, <1>7, <1>8, <1>10, <1>11, <1>12, <1>13, <1>14, <1>15

-----------------------------------------------------------------------------
\* Every step of every caller preserves the invariant.
LEMMA StoreStep ==
    ASSUME StoreInv, [Next]_vars
    PROVE  StoreInv' /\ ("pos" \notin Calls /\ KinInv => KinInv')
  <1>1. CASE UNCHANGED vars
    BY <1>1 DEF vars, StoreInv, KinInv
  <1>2. CASE Create
    BY <1>2, CreateStep
  <1>3. CASE Names
    BY <1>3, NamesStep
  <1>4. CASE Write
    BY <1>4, WriteStep
  <1>5. QED
    BY <1>1, <1>2, <1>3, <1>4 DEF Next

LEMMA StoreInit == Init => StoreInv /\ KinInv
  <1> USE ArrayStoreAssumption
  <1>1. Dead \in ArrayRec /\ <<>> \in Contents
    BY DEF Dead, ArrayRec, Contents
  <1>2. ASSUME Init
        PROVE  \A h \in Handles : arr[h].buf = NoBuffer
    BY <1>2 DEF Init, Dead
  <1>3. ASSUME Init
        PROVE  arr \in [Handles -> ArrayRec] /\ mem \in [Buffers -> Contents]
               /\ kin \in [Handles -> SUBSET Handles] /\ named = {}
    BY <1>1, <1>3 DEF Init
  <1>4. QED
    BY <1>2, <1>3 DEF StoreInv, Good, GoodArray, KinInv, Kindred

\* Types of the memory model, for every part of the API.
THEOREM StoreTypeCorrect == Spec => []TypeOK
  <1>1. StoreInv => TypeOK
    BY DEF StoreInv, Good, TypeOK
  <1>2. StoreInv /\ [Next]_vars => StoreInv'
    BY StoreStep
  <1>3. QED
    BY StoreInit, <1>1, <1>2, PTL DEF Spec

\* No sequence of calls, of any part of the API, makes an array index outside
\* its buffer.
THEOREM StaysInBounds == Spec => []InBounds
  <1>1. StoreInv => InBounds
    BY DEF StoreInv, Good, GoodArray, InBounds, Live
  <1>2. StoreInv /\ [Next]_vars => StoreInv'
    BY StoreStep
  <1>3. QED
    BY StoreInit, <1>1, <1>2, PTL DEF Spec

\* The base of an array is alive as long as the array and has no base itself.
THEOREM BasesAreRoots == Spec => []BaseIsRoot
  <1>1. ASSUME StoreInv, NEW h \in Live, arr[h].base # NoHandle
        PROVE  arr[h].base \in Live \ {h} /\ arr[arr[h].base].base = NoHandle
    <2>1. h \in Handles /\ arr[h].buf # NoBuffer
      BY DEF Live
    <2>2. GoodArray(h, arr, mem) /\ arr[h].base \in Handles
      BY <1>1, <2>1 DEF StoreInv, Good, ArrayRec
    <2>3. QED
      BY <1>1, <2>1, <2>2 DEF GoodArray, Live
  <1>2. StoreInv => BaseIsRoot
    BY <1>1 DEF BaseIsRoot
  <1>3. StoreInv /\ [Next]_vars => StoreInv'
    BY StoreStep
  <1>4. QED
    BY StoreInit, <1>2, <1>3, PTL DEF Spec

\* Without `+a`, two arrays use one buffer only if the view contract lets them
\* share memory: no constructor, copy, advanced index, detach, rebind or copy
\* on write leaves an accidental alias, however many arrays there are.
THEOREM NoAccidentalAlias ==
    ASSUME "pos" \notin Calls
    PROVE  Spec => []StrangersNeverShare
  <1> DEFINE Both == StoreInv /\ KinInv
  <1>1. Init => Both
    BY StoreInit
  <1>2. Both /\ [Next]_vars => Both'
    BY StoreStep
  <1>3. Both => StrangersNeverShare
    BY DEF KinInv, Kindred, StrangersNeverShare, Live
  <1>4. QED
    BY <1>1, <1>2, <1>3, PTL DEF Spec

-----------------------------------------------------------------------------
(* What the arrays hold before and after a call.                            *)

\* An array that the call leaves alone, and whose buffer it leaves alone, holds
\* what it held.
LEMMA ContentKept ==
    ASSUME StoreInv, NEW n, NEW A, NEW M, NEW K, Become(n, A, M, K),
           NEW x \in Live, x \in Live',
           A[x] = arr[x], M[arr[x].buf] = mem[arr[x].buf]
    PROVE  Content(x)' = Content(x)
  <1>1. x \in Handles /\ arr'[x].buf # NoBuffer /\ arr[x].buf \in Buffers
    BY DEF Live, StoreInv, Good, ArrayRec
  <1> DEFINE keep == {h \in Handles : /\ A[h].buf # NoBuffer
                                      /\ h \in n \/ \E g \in n : A[g].base = h}
  <1>2. /\ arr' = [h \in Handles |-> IF h \in keep THEN A[h] ELSE Dead]
        /\ mem' = [b \in Buffers |-> IF \E h \in keep : A[h].buf = b THEN M[b] ELSE <<>>]
    BY DEF Become
  <1> HIDE DEF keep
  <1>3. x \in keep /\ arr'[x] = arr[x]
    BY <1>1, <1>2 DEF Dead
  <1>4. mem'[arr[x].buf] = mem[arr[x].buf]
    BY <1>1, <1>2, <1>3
  <1>5. QED
    BY <1>3, <1>4 DEF Content

\* A call through h changes what an array holds only if it uses h's buffer.
Reaches(h) ==
    \A x \in Live : x \in Live' /\ arr[x].buf # arr[h].buf => Content(x)' = Content(x)

LEMMA WriteThroughReaches ==
    ASSUME StoreInv, NEW h \in named, NEW cells, NEW vals, WriteThrough(h, cells, vals)
    PROVE  Reaches(h)
  <1> SUFFICES ASSUME NEW x \in Live, x \in Live', arr[x].buf # arr[h].buf
               PROVE  Content(x)' = Content(x)
    BY DEF Reaches
  <1> DEFINE M == [mem EXCEPT ![arr[h].buf] = Assign(mem[arr[h].buf], cells, vals)]
  <1>1. Become(named, arr, M, kin)
    BY DEF WriteThrough
  <1>2. M[arr[x].buf] = mem[arr[x].buf]
    BY DEF Live, StoreInv, Good, ArrayRec
  <1> HIDE DEF M
  <1>3. QED
    BY <1>1, <1>2, ContentKept

\* Moving h to a free buffer, through any window.
LEMMA MoveReaches ==
    ASSUME StoreInv, NEW h \in named, NEW b \in FreeBuffers, NEW r, NEW data,
           Become(named, [arr EXCEPT ![h] = r], [mem EXCEPT ![b] = data], kin)
    PROVE  Reaches(h)
  <1> SUFFICES ASSUME NEW x \in Live, x \in Live', arr[x].buf # arr[h].buf
               PROVE  Content(x)' = Content(x)
    BY DEF Reaches
  <1> DEFINE A == [arr EXCEPT ![h] = r]
             M == [mem EXCEPT ![b] = data]
  <1>1. x \in Handles /\ arr[x].buf \in Buffers /\ x # h /\ arr[x].buf # b
    BY DEF Live, StoreInv, Good, ArrayRec, FreeBuffers, Sharers
  <1>2. A[x] = arr[x] /\ M[arr[x].buf] = mem[arr[x].buf]
    BY <1>1 DEF StoreInv, Good
  <1>3. Become(named, A, M, kin)
    OBVIOUS
  <1> HIDE DEF A, M
  <1>4. QED
    BY <1>2, <1>3, ContentKept

LEMMA MakeMutReaches ==
    ASSUME StoreInv, NEW h \in named, NEW data, MakeMut(h, data)
    PROVE  Reaches(h)
  <1>1. CASE Sharers(arr[h].buf) = {h}
    <2> SUFFICES ASSUME NEW x \in Live, x \in Live', arr[x].buf # arr[h].buf
                 PROVE  Content(x)' = Content(x)
      BY DEF Reaches
    <2> DEFINE M == [mem EXCEPT ![arr[h].buf] = data]
    <2>1. Become(named, arr, M, kin)
      BY <1>1 DEF MakeMut
    <2>2. M[arr[x].buf] = mem[arr[x].buf]
      BY DEF Live, StoreInv, Good, ArrayRec
    <2> HIDE DEF M
    <2>3. QED
      BY <2>1, <2>2, ContentKept
  <1>2. CASE Sharers(arr[h].buf) # {h}
    <2>1. PICK b \in FreeBuffers :
             Become(named, [arr EXCEPT ![h].buf = b], [mem EXCEPT ![b] = data], kin)
      BY <1>2 DEF MakeMut
    <2>2. [arr EXCEPT ![h].buf = b] = [arr EXCEPT ![h] = [arr[h] EXCEPT !.buf = b]]
      OBVIOUS
    <2>3. QED
      BY <2>1, <2>2, MoveReaches
  <1>3. QED
    BY <1>1, <1>2

LEMMA RebindReaches ==
    ASSUME StoreInv, NEW h \in named, NEW c, Rebind(h, c)
    PROVE  Reaches(h)
  <1> DEFINE A(b) == [arr EXCEPT ![h].buf = b, ![h].win = Whole(Len(c))]
  <1>1. PICK b \in FreeBuffers : Become(named, A(b), [mem EXCEPT ![b] = c], kin)
    BY DEF Rebind
  <1>2. h \in Handles /\ arr \in [Handles -> ArrayRec]
    BY DEF StoreInv, Good
  <1>3. A(b) = [arr EXCEPT ![h] = A(b)[h]]
    BY <1>2
  <1> HIDE DEF A
  <1>4. QED
    BY <1>1, <1>3, MoveReaches

\* Making an array or changing names changes what no array holds.
Keeps == \A x \in Live : x \in Live' => Content(x)' = Content(x)

LEMMA OwnKeeps ==
    ASSUME StoreInv, NEW h \in Handles, h \notin Live, NEW b \in FreeBuffers,
           NEW c, NEW w, Own(h, b, c, w)
    PROVE  Keeps
  <1> SUFFICES ASSUME NEW x \in Live, x \in Live'
               PROVE  Content(x)' = Content(x)
    BY DEF Keeps
  <1> DEFINE A == [arr EXCEPT ![h] = [buf |-> b, win |-> w, base |-> NoHandle, ro |-> FALSE]]
             M == [mem EXCEPT ![b] = c]
             K == [kin EXCEPT ![h] = {h}]
  <1>1. x \in Handles /\ arr[x].buf \in Buffers /\ x # h /\ arr[x].buf # b
    BY DEF Live, StoreInv, Good, ArrayRec, FreeBuffers, Sharers
  <1>2. A[x] = arr[x] /\ M[arr[x].buf] = mem[arr[x].buf]
    BY <1>1 DEF StoreInv, Good
  <1>3. Become(named \cup {h}, A, M, K)
    BY DEF Own
  <1> HIDE DEF A, M, K
  <1>4. QED
    BY <1>2, <1>3, ContentKept

LEMMA AliasKeeps ==
    ASSUME StoreInv, NEW h \in Handles, h \notin Live, NEW g, NEW w, NEW base, NEW ro,
           NEW K, Alias(h, g, w, base, ro, K)
    PROVE  Keeps
  <1> SUFFICES ASSUME NEW x \in Live, x \in Live'
               PROVE  Content(x)' = Content(x)
    BY DEF Keeps
  <1> DEFINE A == [arr EXCEPT ![h] = [buf |-> arr[g].buf, win |-> w, base |-> base, ro |-> ro]]
  <1>1. A[x] = arr[x]
    BY DEF Live, StoreInv, Good
  <1>2. Become(named \cup {h}, A, mem, K)
    BY DEF Alias
  <1> HIDE DEF A
  <1>3. QED
    BY <1>1, <1>2, ContentKept

LEMMA ReshapeCopyKeeps ==
    ASSUME StoreInv, NEW h \in Handles, NEW o \in Handles, NEW g, ReshapeCopy(h, o, g)
    PROVE  Keeps
  <1> SUFFICES ASSUME NEW x \in Live, x \in Live'
               PROVE  Content(x)' = Content(x)
    BY DEF Keeps
  <1> DEFINE owner(b) == [buf |-> b, win |-> Whole(Len(arr[g].win)),
                          base |-> NoHandle, ro |-> FALSE]
             A(b) == [arr EXCEPT ![o] = owner(b), ![h] = [owner(b) EXCEPT !.base = o]]
             M(b) == [mem EXCEPT ![b] = Content(g)]
             K == [kin EXCEPT ![h] = {h, o}, ![o] = {h, o}]
  <1>1. PICK b \in FreeBuffers : Become(named \cup {h}, A(b), M(b), K)
    BY DEF ReshapeCopy
  <1>2. /\ x \in Handles /\ arr[x].buf \in Buffers
        /\ x # h /\ x # o /\ arr[x].buf # b
    BY DEF ReshapeCopy, Live, StoreInv, Good, ArrayRec, FreeBuffers, Sharers
  <1>3. A(b)[x] = arr[x] /\ M(b)[arr[x].buf] = mem[arr[x].buf]
    BY <1>2 DEF StoreInv, Good
  <1> HIDE DEF A, M, K
  <1>4. QED
    BY <1>1, <1>3, ContentKept

LEMMA CreateKeeps ==
    ASSUME StoreInv, Create
    PROVE  Keeps
  <1>1. PICK h \in Handles :
          \/ \E c \in NonEmpty : New(h, c)
          \/ \E g \in named :
                \/ Copy(h, g)
                \/ ArrayCall(h, g)
                \/ \E idx \in IndexArrays(Len(arr[g].win)) : Take(h, g, idx)
                \/ \E sel \in Slices(Len(arr[g].win)) : View(h, g, sel)
                \/ \E n \in Lengths : BroadcastTo(h, g, n)
                \/ AsArray(h, g)
                \/ Pos(h, g)
                \/ \E o \in Handles : ReshapeCopy(h, o, g)
    BY DEF Create
  <1>2. CASE \E c \in NonEmpty : New(h, c)
    BY <1>2, OwnKeeps DEF New
  <1>3. ASSUME NEW g \in named, Copy(h, g) \/ ArrayCall(h, g)
        PROVE  Keeps
    BY <1>3, OwnKeeps DEF Copy, ArrayCall
  <1>4. ASSUME NEW g \in named, NEW idx, Take(h, g, idx)
        PROVE  Keeps
    <2>1. PICK b \in FreeBuffers :
             Own(h, b, [i \in DOMAIN idx |-> Content(g)[idx[i]]], Whole(Len(idx)))
      BY <1>4 DEF Take
    <2>2. QED
      BY <1>4, <2>1, OwnKeeps DEF Take
  <1>5. ASSUME NEW g \in named, NEW sel, View(h, g, sel)
        PROVE  Keeps
    <2>1. /\ h \notin Live
          /\ Alias(h, g, [i \in DOMAIN sel |-> arr[g].win[sel[i]]], Root(g), FALSE,
                   KinJoins(h, g))
      BY <1>5 DEF View
    <2>2. QED
      BY <2>1, AliasKeeps
  <1>6. ASSUME NEW g \in named, NEW n, BroadcastTo(h, g, n)
        PROVE  Keeps
    BY <1>6, AliasKeeps DEF BroadcastTo
  <1>7. ASSUME NEW g \in named, AsArray(h, g) \/ Pos(h, g)
        PROVE  Keeps
    BY <1>7, AliasKeeps DEF AsArray, Pos
  <1>8. ASSUME NEW g \in named, NEW o \in Handles, ReshapeCopy(h, o, g)
        PROVE  Keeps
    BY <1>8, ReshapeCopyKeeps
  <1>9. QED
    BY <1>1, <1>2, <1>3, <1>4, <1>5, <1>6, <1>7, <1>8

LEMMA NamesKeep ==
    ASSUME StoreInv, Names
    PROVE  Keeps
  <1>1. PICK n : Become(n, arr, mem, kin)
    BY DEF Names, GetBase, Del
  <1>2. QED
    BY <1>1, ContentKept DEF Keeps

LEMMA WriteReaches ==
    ASSUME StoreInv, Write
    PROVE  \E h \in named : Reaches(h)
  <1>1. PICK h \in named :
          \/ \E key \in IndexArrays(Len(arr[h].win)), val \in Values : SetItem(h, key, val)
          \/ \E val \in Values : CopyTo(h, val)
          \/ \E c \in Values : InPlace(h, c)
          \/ \E c \in Values : CowWrite(h, c)
          \/ Sort(h)
          \/ SortDescending(h)
          \/ \E p \in AnyPerm : Shuffle1D(h, p)
          \/ \E v \in Vals : Fill(h, v)
          \/ \E c \in Values : IMatMul(h, c)
          \/ \E p \in AnyPerm : ShuffleND(h, p)
    BY DEF Write
  <1>2. CASE \E cells, vals : WriteThrough(h, cells, vals)
    BY <1>2, WriteThroughReaches
  <1>3. CASE \E data : MakeMut(h, data)
    BY <1>3, MakeMutReaches
  <1>4. CASE \E c : Rebind(h, c)
    BY <1>4, RebindReaches
  <1>5. \/ \E cells, vals : WriteThrough(h, cells, vals)
        \/ \E data : MakeMut(h, data)
        \/ \E c : Rebind(h, c)
    BY <1>1 DEF SetItem, CopyTo, InPlace, CowWrite, Sort, SortDescending, Shuffle1D,
                Fill, IMatMul, ShuffleND
  <1>6. QED
    BY <1>2, <1>3, <1>4, <1>5

\* Two arrays whose contents one call changes use one buffer, so they are kin.
LEMMA KinStep ==
    ASSUME StoreInv, KinInv, Next, NEW g \in Live, NEW h \in Live,
           g \in Live', h \in Live', Content(g)' # Content(g), Content(h)' # Content(h)
    PROVE  h \in kin[g]
  <1>1. ~Keeps
    BY DEF Keeps
  <1>2. Write
    BY <1>1, CreateKeeps, NamesKeep DEF Next
  <1>3. PICK x \in named : Reaches(x)
    BY <1>2, WriteReaches
  <1>4. arr[g].buf = arr[x].buf /\ arr[h].buf = arr[x].buf
    BY <1>3 DEF Reaches
  <1>5. QED
    BY <1>4 DEF KinInv, Kindred, Live

\* Without `+a`, one call never changes what two arrays hold unless they share
\* memory by contract: in-place operators, copy-on-write writers and rebinding
\* writers alike, on any history of views and copies.
THEOREM NoActionAtADistance ==
    ASSUME "pos" \notin Calls
    PROVE  Spec => WritesStayInKin
  <1> DEFINE Both == StoreInv /\ KinInv
  <1>1. Init => Both
    BY StoreInit
  <1>2. Both /\ [Next]_vars => Both'
    BY StoreStep
  <1>3. Both /\ [Next]_vars =>
          [\A g, h \in Live :
             (/\ g \in Live' /\ h \in Live'
              /\ Content(g)' # Content(g) /\ Content(h)' # Content(h))
             => h \in kin[g]]_vars
    BY KinStep
  <1>4. QED
    BY <1>1, <1>2, <1>3, PTL DEF Spec, WritesStayInKin

-----------------------------------------------------------------------------
(* The part of the API that writes through shared buffers implements the    *)
(* view contract.                                                           *)

\* The calls that leave an array on another buffer than it had.
Detachers == {"cow", "sort", "sort_desc", "fill", "imatmul", "shuffle_1d", "shuffle_nd"}

Close == StoreInv /\ TidyInv /\ FamilyInv

\* A new array that owns its memory is a fresh region of the contract.
LEMMA OwnIsFresh ==
    ASSUME Close, NEW h \in Handles, h \notin Live, NEW b \in FreeBuffers,
           NEW c \in Contents, NEW w \in Windows, Monotone(w),
           \A i \in DOMAIN w : w[i] \in DOMAIN c,
           Own(h, b, c, w)
    PROVE  TidyInv' /\ FamilyInv' /\ VC!Fresh
  <1> USE DEF Close
  <1> DEFINE n == named \cup {h}
             A == [arr EXCEPT ![h] = [buf |-> b, win |-> w, base |-> NoHandle, ro |-> FALSE]]
             M == [mem EXCEPT ![b] = c]
             K == [kin EXCEPT ![h] = {h}]
  <1>1. Become(n, A, M, K) /\ Fit(n, A, M, K)
    BY OwnFits DEF Own
  <1>2. /\ h \in Handles /\ arr[h].buf = NoBuffer /\ b \in Buffers
        /\ \A x \in Handles : arr[x].buf # b
    BY DEF Live, FreeBuffers, Sharers
  <1>3. /\ A[h].buf = b /\ A[h].win = w /\ \A x \in Handles \ {h} : A[x] = arr[x]
        /\ M[b] = c /\ \A q \in Buffers \ {b} : M[q] = mem[q]
    BY <1>2 DEF StoreInv, Good
  <1> HIDE DEF n, A, M, K
  <1>4. TidyInv' /\ FamilyInv' /\ arr' = A /\ mem' = M
    BY <1>1, BecomeLeaves DEF Fit
  <1>5. VC!Appear({h}, b)
    BY <1>2, <1>3, <1>4 DEF VC!Appear, VC!Exists
  <1>6. VC!Fresh
    BY <1>2, <1>5 DEF VC!Fresh, VC!Unused
  <1>7. QED
    BY <1>4, <1>6

LEMMA OwnWholeIsFresh ==
    ASSUME Close, NEW h \in Handles, h \notin Live, NEW b \in FreeBuffers,
           NEW n \in Lengths, NEW c \in [1..n -> Vals],
           Own(h, b, c, Whole(n))
    PROVE  TidyInv' /\ FamilyInv' /\ VC!Fresh
  <1>1. \A i \in DOMAIN Whole(n) : Whole(n)[i] \in DOMAIN c
    BY WholeFacts
  <1>2. QED
    BY <1>1, WholeFacts, FillsBuffer, OwnIsFresh

\* h becomes an array on the buffer of g, kin of its kin or of nobody.
Aliases(h, g, w, base, ro, K) ==
    KinOrNone(h, g, K) /\ Alias(h, g, w, base, ro, K)

\* A new array on the buffer of g, with cells of g, is a view of g.
LEMMA AliasIsView ==
    ASSUME Close, NEW h \in Handles, h \notin Live, NEW g \in named,
           NEW w \in Windows, Monotone(w),
           \A i \in DOMAIN w : \E j \in DOMAIN arr[g].win : w[i] = arr[g].win[j],
           NEW base \in {NoHandle, Root(g)}, NEW ro \in BOOLEAN, NEW K,
           Aliases(h, g, w, base, ro, K)
    PROVE  TidyInv' /\ FamilyInv' /\ VC!ViewOf(g)
  <1> USE DEF Close
  <1>0. KinOrNone(h, g, K)
    BY DEF Aliases
  <1> DEFINE n == named \cup {h}
             A == [arr EXCEPT ![h] = [buf |-> arr[g].buf, win |-> w, base |-> base, ro |-> ro]]
  <1>1. /\ g \in Handles /\ arr[g].buf \in Buffers /\ arr[g].buf # NoBuffer
        /\ \A i \in DOMAIN arr[g].win : arr[g].win[i] \in DOMAIN mem[arr[g].buf]
    BY NamedFacts
  <1>2. K \in [Handles -> SUBSET Handles]
    <2>1. KinJoins(h, g) \in [Handles -> SUBSET Handles]
      BY <1>1, KinJoinsType
    <2>2. [kin EXCEPT ![h] = {h}] \in [Handles -> SUBSET Handles]
      BY DEF StoreInv, Good
    <2>3. QED
      BY <1>0, <2>1, <2>2 DEF KinOrNone
  <1>3. Become(n, A, mem, K)
    BY DEF Aliases, Alias
  <1>4. \A i \in DOMAIN w : w[i] \in DOMAIN mem[arr[g].buf]
    BY <1>1
  <1>5. Good(n, A, mem, K) /\ Tidy(n, A, mem) /\ Family(A, K)
    BY <1>0, <1>2, <1>4, AliasFits
  <1>6. A[h].buf = arr[g].buf /\ A[h].win = w /\ \A x \in Handles \ {h} : A[x] = arr[x]
    BY DEF StoreInv, Good
  <1>7. arr[h].buf = NoBuffer /\ h # g
    BY <1>1 DEF Live
  <1> HIDE DEF n, A
  <1>8. TidyInv' /\ FamilyInv' /\ arr' = A /\ mem' = mem
    BY <1>3, <1>5, BecomeLeaves
  <1>9. \A i \in DOMAIN w : w[i] \in VC!Cells(g)
    BY <1>1 DEF VC!Cells
  <1>10. VC!Exists(g)
    BY <1>1 DEF VC!Exists
  <1>11. VC!ViewOf(g)
    BY <1>1, <1>4, <1>6, <1>7, <1>8, <1>9, <1>10 DEF VC!ViewOf, VC!Appear, VC!Exists
  <1>12. QED
    BY <1>8, <1>11

\* A copy under a view is a fresh region with two arrays.
LEMMA ReshapeCopyIsFresh ==
    ASSUME Close, NEW h \in Handles, NEW o \in Handles, NEW g \in named,
           ReshapeCopy(h, o, g)
    PROVE  TidyInv' /\ FamilyInv' /\ VC!Fresh
  <1> USE DEF Close
  <1>1. h \notin Live /\ o \notin Live /\ h # o
    BY DEF ReshapeCopy
  <1>2. PICK b \in FreeBuffers :
          LET owner == [buf |-> b, win |-> Whole(Len(arr[g].win)),
                        base |-> NoHandle, ro |-> FALSE]
          IN  Become(named \cup {h},
                     [arr EXCEPT ![o] = owner, ![h] = [owner EXCEPT !.base = o]],
                     [mem EXCEPT ![b] = Content(g)],
                     [kin EXCEPT ![h] = {h, o}, ![o] = {h, o}])
    BY DEF ReshapeCopy
  <1> DEFINE n == named \cup {h}
             w == Whole(Len(arr[g].win))
             owner == [buf |-> b, win |-> w, base |-> NoHandle, ro |-> FALSE]
             A == [arr EXCEPT ![o] = owner, ![h] = [owner EXCEPT !.base = o]]
             M == [mem EXCEPT ![b] = Content(g)]
             K == [kin EXCEPT ![h] = {h, o}, ![o] = {h, o}]
  <1>3. Become(n, A, M, K)
    BY <1>2
  <1>4. Fit(n, A, M, K)
    BY <1>1, ReshapeCopyFits
  <1>5. /\ arr[h].buf = NoBuffer /\ arr[o].buf = NoBuffer /\ b \in Buffers
        /\ \A x \in Handles : arr[x].buf # b
    BY <1>1 DEF Live, FreeBuffers, Sharers
  <1>6. arr \in [Handles -> ArrayRec] /\ mem \in [Buffers -> Contents]
    BY DEF StoreInv, Good
  <1>7. \A i \in DOMAIN w : w[i] \in DOMAIN Content(g)
    <2>1. Len(arr[g].win) \in Lengths /\ Content(g) \in [1..Len(arr[g].win) -> Vals]
      BY NamedFacts, ContentFacts DEF Lengths
    <2>2. QED
      BY <2>1, WholeFacts
  <1>8. /\ A[h].buf = b /\ A[h].win = w /\ A[o].buf = b /\ A[o].win = w
        /\ \A x \in Handles \ {h, o} : A[x] = arr[x]
    BY <1>1, <1>6
  <1>9. M[b] = Content(g) /\ \A q \in Buffers \ {b} : M[q] = mem[q]
    BY <1>5, <1>6
  <1> HIDE DEF n, w, A, M, K
  <1>10. TidyInv' /\ FamilyInv' /\ arr' = A /\ mem' = M
    BY <1>3, <1>4, BecomeLeaves DEF Fit
  <1>11. VC!Appear({h, o}, b)
    BY <1>5, <1>7, <1>8, <1>9, <1>10 DEF VC!Appear, VC!Exists
  <1>12. VC!Fresh
    BY <1>5, <1>11 DEF VC!Fresh, VC!Unused
  <1>13. QED
    BY <1>10, <1>12

\* A write through cells of h is a write of the contract.
LEMMA WriteThroughIsWrite ==
    ASSUME Close, NEW h \in named, NEW m \in Nat, NEW cells, DOMAIN cells = 1..m,
           NEW vals \in [1..m -> Vals],
           \A i \in 1..m : \E j \in DOMAIN arr[h].win : cells[i] = arr[h].win[j],
           WriteThrough(h, cells, vals)
    PROVE  TidyInv' /\ FamilyInv' /\ VC!WriteVia(h)
  <1> USE DEF Close
  <1> DEFINE b == arr[h].buf
             d == Assign(mem[b], cells, vals)
             M == [mem EXCEPT ![b] = d]
  <1>1. h \in Handles /\ b \in Buffers /\ b # NoBuffer /\ mem[b] \in Contents
    BY NamedFacts
  <1>2. d \in Contents /\ DOMAIN d = DOMAIN mem[b]
    BY <1>1, WriteFacts
  <1>3. \A c \in DOMAIN mem[b] : c \notin VC!Cells(h) => d[c] = mem[b][c]
    <2> SUFFICES ASSUME NEW c \in DOMAIN mem[b], c \notin VC!Cells(h)
                 PROVE  d[c] = mem[b][c]
      OBVIOUS
    <2>1. \A j \in DOMAIN arr[h].win : arr[h].win[j] # c
      BY <1>1 DEF VC!Cells
    <2>2. QED
      BY <2>1, AssignOutside
  <1>4. Become(named, arr, M, kin)
    BY DEF WriteThrough
  <1>5. M[b] = d /\ \A q \in Buffers \ {b} : M[q] = mem[q]
    BY <1>1 DEF StoreInv, Good
  <1> HIDE DEF d
  <1>6. Fit(named, arr, M, kin)
    BY <1>2, WriteThroughFits
  <1> HIDE DEF M
  <1>7. TidyInv' /\ FamilyInv' /\ arr' = arr /\ mem' = M
    BY <1>4, <1>6, BecomeLeaves DEF Fit, FamilyInv
  <1>8. VC!WriteVia(h)
    BY <1>1, <1>2, <1>3, <1>5, <1>7 DEF VC!WriteVia, VC!Exists
  <1>9. QED
    BY <1>7, <1>8

\* Names that come and go take at most arrays away.
LEMMA NamesIsDisappear ==
    ASSUME Close, NEW n, Good(n, arr, mem, kin), Become(n, arr, mem, kin)
    PROVE  TidyInv' /\ FamilyInv' /\ VC!Disappear
  <1> USE DEF Close
  <1> DEFINE keep == {h \in Handles : /\ arr[h].buf # NoBuffer
                                      /\ h \in n \/ \E g \in n : arr[g].base = h}
             H == Handles \ keep
  <1>1. /\ arr' = [h \in Handles |-> IF h \in keep THEN arr[h] ELSE Dead]
        /\ mem' = [b \in Buffers |-> IF \E h \in keep : arr[h].buf = b THEN mem[b] ELSE <<>>]
    BY DEF Become
  <1>2. \A h \in keep : h \in Handles /\ arr[h].buf \in Buffers
    BY DEF Good, ArrayRec
  <1> HIDE DEF keep
  <1>3. \A h \in Handles : IF h \in H THEN arr'[h].buf = NoBuffer /\ arr'[h].win = <<>>
                           ELSE arr'[h] = arr[h]
    BY <1>1 DEF Dead
  <1>4. \A b \in Buffers : mem'[b] \in {mem[b], <<>>}
    BY <1>1
  <1>5. \A h \in Handles \ H : mem'[arr[h].buf] = mem[arr[h].buf]
    BY <1>1, <1>2
  <1>6. VC!Disappear
    BY <1>3, <1>4, <1>5 DEF VC!Disappear, VC!Exists
  <1>7. TidyInv' /\ FamilyInv'
    BY BecomeLeaves DEF FamilyInv
  <1>8. QED
    BY <1>6, <1>7

\* Every call that makes an array makes a fresh region or a view.
LEMMA CreateKeepsContract ==
    ASSUME Close, Create
    PROVE  TidyInv' /\ FamilyInv' /\ VC!CNext
  <1> USE ArrayStoreAssumption
  <1>1. PICK h \in Handles :
          \/ \E c \in NonEmpty : New(h, c)
          \/ \E g \in named :
                \/ Copy(h, g)
                \/ ArrayCall(h, g)
                \/ \E idx \in IndexArrays(Len(arr[g].win)) : Take(h, g, idx)
                \/ \E sel \in Slices(Len(arr[g].win)) : View(h, g, sel)
                \/ \E n \in Lengths : BroadcastTo(h, g, n)
                \/ AsArray(h, g)
                \/ Pos(h, g)
                \/ \E o \in Handles : ReshapeCopy(h, o, g)
    BY DEF Create
  <1> DEFINE Made == TidyInv' /\ FamilyInv' /\ VC!Fresh
             Seen(g) == TidyInv' /\ FamilyInv' /\ VC!ViewOf(g)
  <1>2. ASSUME NEW c \in NonEmpty, New(h, c)
        PROVE  Made
    <2>1. Len(c) \in Lengths /\ c \in [1..Len(c) -> Vals]
      BY ValueFacts
    <2>2. PICK b \in FreeBuffers : h \notin Live /\ Own(h, b, c, Whole(Len(c)))
      BY <1>2 DEF New
    <2>3. QED
      BY <2>1, <2>2, OwnWholeIsFresh
  <1>3. ASSUME NEW g \in named
        PROVE  /\ Len(arr[g].win) \in Lengths /\ g \in Handles
               /\ arr[g].win \in Windows /\ Monotone(arr[g].win)
               /\ DOMAIN arr[g].win = 1..Len(arr[g].win)
               /\ Content(g) \in [1..Len(arr[g].win) -> Vals]
               /\ arr[g].win \in [1..Len(arr[g].win) -> 1..MaxLen]
               /\ \A i \in DOMAIN arr[g].win : arr[g].win[i] \in DOMAIN mem[arr[g].buf]
               /\ mem[arr[g].buf] \in Contents
    BY NamedFacts, ContentFacts DEF Lengths, Close
  <1>4. ASSUME NEW g \in named, Copy(h, g)
        PROVE  Made
    <2>1. PICK b \in FreeBuffers :
             h \notin Live /\ Own(h, b, Content(g), Whole(Len(arr[g].win)))
      BY <1>4 DEF Copy
    <2>2. QED
      BY <1>3, <2>1, OwnWholeIsFresh
  <1>5. ASSUME NEW g \in named, ArrayCall(h, g)
        PROVE  Made
    <2>1. PICK b \in FreeBuffers : h \notin Live /\ Own(h, b, mem[arr[g].buf], arr[g].win)
      BY <1>5 DEF ArrayCall
    <2>2. QED
      BY <1>3, <2>1, OwnIsFresh
  <1>6. ASSUME NEW g \in named, NEW idx \in IndexArrays(Len(arr[g].win)), Take(h, g, idx)
        PROVE  Made
    <2> DEFINE c == [i \in DOMAIN idx |-> Content(g)[idx[i]]]
    <2>1. PICK m \in Lengths : idx \in [1..m -> 1..Len(arr[g].win)]
      BY DEF IndexArrays
    <2>2. Len(idx) = m
      BY <2>1 DEF Lengths
    <2>3. c \in [1..m -> Vals]
      BY <1>3, <2>1
    <2>4. PICK b \in FreeBuffers : h \notin Live /\ Own(h, b, c, Whole(Len(idx)))
      BY <1>6 DEF Take
    <2> HIDE DEF c
    <2>5. QED
      BY <2>2, <2>3, <2>4, OwnWholeIsFresh
  <1>7. ASSUME NEW g \in named, NEW sel \in Slices(Len(arr[g].win)), View(h, g, sel)
        PROVE  Seen(g)
    <2>1. PICK w, base, K :
             /\ w = [i \in DOMAIN sel |-> arr[g].win[sel[i]]]
             /\ base = Root(g) /\ K = KinJoins(h, g)
             /\ h \notin Live /\ Alias(h, g, w, base, FALSE, K)
      BY <1>7 DEF View
    <2>2. w \in Windows /\ Monotone(w)
      BY <2>1, ViewWindow DEF Close
    <2>3. \A i \in DOMAIN w : \E j \in DOMAIN arr[g].win : w[i] = arr[g].win[j]
      <3>1. Len(arr[g].win) \in Nat
        BY <1>3 DEF Lengths
      <3>2. \A i \in DOMAIN sel : sel[i] \in DOMAIN arr[g].win
        BY <1>3, <3>1, SliceFacts
      <3>3. QED
        BY <2>1, <3>2
    <2>4. Aliases(h, g, w, base, FALSE, K)
      BY <2>1 DEF Aliases, KinOrNone
    <2>5. QED
      BY <2>1, <2>2, <2>3, <2>4, AliasIsView
  <1>8. ASSUME NEW g \in named, NEW n \in Lengths, BroadcastTo(h, g, n)
        PROVE  Seen(g)
    <2>1. PICK w, base, K :
             /\ w = Broadcast(arr[g].win, n) /\ Broadcasts(arr[g].win, n)
             /\ base = Root(g) /\ K = KinJoins(h, g)
             /\ h \notin Live /\ Alias(h, g, w, base, TRUE, K)
      BY <1>8 DEF BroadcastTo
    <2>2. w \in Windows /\ Monotone(w)
      BY <2>1, BroadcastWindow DEF Close
    <2>3. \A i \in DOMAIN w : \E j \in DOMAIN arr[g].win : w[i] = arr[g].win[j]
      BY <1>3, <2>1 DEF Broadcasts, Broadcast, Lengths
    <2>4. Aliases(h, g, w, base, TRUE, K)
      BY <2>1 DEF Aliases, KinOrNone
    <2>5. QED
      BY <2>1, <2>2, <2>3, <2>4, AliasIsView
  <1>9. ASSUME NEW g \in named, NEW K \in {KinJoins(h, g), [kin EXCEPT ![h] = {h}]},
               h \notin Live, Alias(h, g, arr[g].win, NoHandle, FALSE, K)
        PROVE  Seen(g)
    <2>1. PICK w : w = arr[g].win /\ Alias(h, g, w, NoHandle, FALSE, K)
      BY <1>9
    <2>2. w \in Windows /\ Monotone(w)
      BY <1>3, <2>1
    <2>3. \A i \in DOMAIN w : \E j \in DOMAIN arr[g].win : w[i] = arr[g].win[j]
      BY <2>1
    <2>4. Aliases(h, g, w, NoHandle, FALSE, K)
      BY <1>9, <2>1 DEF Aliases, KinOrNone
    <2>5. QED
      BY <1>9, <2>2, <2>3, <2>4, AliasIsView
  <1>10. ASSUME NEW g \in named, AsArray(h, g) \/ Pos(h, g)
         PROVE  Seen(g)
    BY <1>9, <1>10 DEF AsArray, Pos
  <1>11. ASSUME NEW g \in named, NEW o \in Handles, ReshapeCopy(h, o, g)
         PROVE  Made
    BY <1>11, ReshapeCopyIsFresh
  <1>12. Made \/ \E g \in Handles : Seen(g)
    <2> HIDE DEF Made, Seen
    <2>1. QED
      BY <1>1, <1>2, <1>3, <1>4, <1>5, <1>6, <1>7, <1>8, <1>10, <1>11
  <1>13. QED
    BY <1>12 DEF VC!CNext

\* The calls that write through the shared buffer write as the contract says.
LEMMA WriteKeepsContract ==
    ASSUME Close, Write, Calls \cap Detachers = {}
    PROVE  TidyInv' /\ FamilyInv' /\ VC!CNext
  <1> USE ArrayStoreAssumption
  <1>1. PICK h \in named :
          \/ \E key \in IndexArrays(Len(arr[h].win)), val \in Values : SetItem(h, key, val)
          \/ \E val \in Values : CopyTo(h, val)
          \/ \E c \in Values : InPlace(h, c)
    BY DEF Write, Detachers, CowWrite, Sort, SortDescending, Shuffle1D, Fill, IMatMul,
           ShuffleND
  <1> DEFINE n == Len(arr[h].win)
             Done == TidyInv' /\ FamilyInv' /\ VC!WriteVia(h)
  <1>2. /\ n \in Nat /\ DOMAIN arr[h].win = 1..n /\ h \in Handles
    BY NamedFacts DEF Close
  <1>3. ASSUME NEW key \in IndexArrays(n), NEW val \in Values, SetItem(h, key, val)
        PROVE  Done
    <2> DEFINE cells == [i \in DOMAIN key |-> arr[h].win[key[i]]]
               vals == Broadcast(val, Len(key))
    <2>1. PICK m \in Lengths : key \in [1..m -> 1..n]
      BY DEF IndexArrays
    <2>2. Len(key) = m /\ m \in Nat /\ DOMAIN cells = 1..m
      BY <2>1 DEF Lengths
    <2>3. vals \in [1..m -> Vals]
      BY <1>3, <2>2, BroadcastFacts DEF SetItem, Values
    <2>4. WriteThrough(h, cells, vals)
      BY <1>3 DEF SetItem
    <2>5. \A i \in 1..m : \E j \in DOMAIN arr[h].win : cells[i] = arr[h].win[j]
      BY <1>2, <2>1
    <2> HIDE DEF cells, vals
    <2>6. QED
      BY <2>2, <2>3, <2>4, <2>5, WriteThroughIsWrite
  <1>4. ASSUME NEW c \in [1..n -> Vals], WriteThrough(h, arr[h].win, c)
        PROVE  Done
    BY <1>2, <1>4, WriteThroughIsWrite
  <1>5. ASSUME NEW val \in Values, CopyTo(h, val)
        PROVE  Done
    <2>1. Broadcast(val, n) \in [1..n -> Vals]
      BY <1>2, <1>5, BroadcastFacts DEF CopyTo, Values
    <2>2. QED
      BY <1>4, <1>5, <2>1 DEF CopyTo
  <1>6. ASSUME NEW c \in Values, InPlace(h, c)
        PROVE  Done
    <2>1. c \in [1..n -> Vals]
      BY <1>6, ValueFacts DEF Values, InPlace
    <2>2. QED
      BY <1>4, <1>6, <2>1 DEF InPlace
  <1>7. Done
    BY <1>1, <1>3, <1>5, <1>6
  <1>8. QED
    BY <1>2, <1>7 DEF VC!CNext

LEMMA NamesKeepContract ==
    ASSUME Close, Names
    PROVE  TidyInv' /\ FamilyInv' /\ VC!CNext
  <1>1. PICK h \in named : GetBase(h) \/ Del(h)
    BY DEF Names
  <1>2. CASE GetBase(h)
    <2>1. arr[h].base \in Handles /\ arr[arr[h].base].buf # NoBuffer
      BY <1>2, NamedFacts DEF Close, GetBase, GoodArray, ArrayRec
    <2>2. /\ Good(named \cup {arr[h].base}, arr, mem, kin)
          /\ Become(named \cup {arr[h].base}, arr, mem, kin)
      BY <1>2, <2>1 DEF Close, StoreInv, Good, GetBase
    <2>3. QED
      BY <2>2, NamesIsDisappear DEF VC!CNext
  <1>3. CASE Del(h)
    <2>1. Good(named \ {h}, arr, mem, kin) /\ Become(named \ {h}, arr, mem, kin)
      BY <1>3 DEF Del, Close, StoreInv, Good
    <2>2. QED
      BY <2>1, NamesIsDisappear DEF VC!CNext
  <1>4. QED
    BY <1>1, <1>2, <1>3

LEMMA CloseStep ==
    ASSUME Close, [Next]_vars, Calls \cap Detachers = {}
    PROVE  Close' /\ [VC!CNext]_(VC!cvars)
  <1>1. StoreInv'
    BY StoreStep DEF Close
  <1>2. CASE UNCHANGED vars
    BY <1>2 DEF vars, Close, StoreInv, TidyInv, FamilyInv, VC!cvars
  <1>3. CASE Create \/ Names \/ Write
    BY <1>1, <1>3, CreateKeepsContract, NamesKeepContract, WriteKeepsContract DEF Close
  <1>4. QED
    BY <1>2, <1>3 DEF Next

LEMMA CloseInit == Init => Close /\ VC!CInit
  <1> SUFFICES ASSUME Init
               PROVE  Close /\ VC!CInit
    OBVIOUS
  <1> USE ArrayStoreAssumption
  <1>1. \A h \in Handles : arr[h] = Dead /\ arr[h].buf = NoBuffer
    BY DEF Init, Dead
  <1>2. TidyInv /\ FamilyInv
    BY <1>1 DEF Init, TidyInv, Tidy, FamilyInv, Family
  <1>3. VC!CInit
    BY DEF Init, Dead, VC!CInit
  <1>4. QED
    BY <1>2, <1>3, StoreInit DEF Close

\* The part of the API that writes through shared buffers implements the view
\* contract, for any number of arrays and buffers: a view keeps seeing the
\* memory of its parent for life, and a write through one array changes only
\* cells of the window it goes through.
THEOREM StoreImplementsContract ==
    ASSUME Calls \cap Detachers = {}
    PROVE  Spec => ImplementsViewContract
  <1>1. Close /\ [Next]_vars => Close' /\ [VC!CNext]_(VC!cvars)
    BY CloseStep
  <1>2. QED
    BY CloseInit, <1>1, PTL DEF Spec, ImplementsViewContract, VC!Contract

\* For the same part of the API, arrays the contract lets share memory share it
\* for life.
THEOREM KinShareForLife ==
    ASSUME Calls \cap Detachers = {}
    PROVE  Spec => []KinShare
  <1>1. Close => KinShare
    BY DEF Close, FamilyInv, Family, KinShare, Live
  <1>2. Close /\ [Next]_vars => Close'
    BY CloseStep
  <1>3. QED
    BY CloseInit, <1>1, <1>2, PTL DEF Spec

\* And the base of an array owns the memory the array uses.
THEOREM BasesOwnTheBuffer ==
    ASSUME Calls \cap Detachers = {}
    PROVE  Spec => []BaseOwnsBuffer
  <1>1. Close => BaseOwnsBuffer
    BY DEF Close, FamilyInv, Family, BaseOwnsBuffer, Live
  <1>2. Close /\ [Next]_vars => Close'
    BY CloseStep
  <1>3. QED
    BY CloseInit, <1>1, <1>2, PTL DEF Spec
=============================================================================
