-------------------------- MODULE MaskedArrayProofs --------------------------
(***************************************************************************)
(* Masked arrays keep their shape, stay inside their memory and behave as    *)
(* arrays of optional values: the refinement of MaskedValues, call by call.  *)
(***************************************************************************)
EXTENDS MaskedArray, SequenceTheorems, FiniteSetTheorems, WellFoundedInduction, TLAPS

\* The largest of a set that has one.
LEMMA MaxIs ==
    ASSUME NEW S \in SUBSET Int, NEW m \in S, \A x \in S : x <= m
    PROVE  Max(S) = m
  <1> DEFINE top(x) == \A y \in S : x >= y
  <1>1. m \in Int /\ \A y \in S : y \in Int /\ m >= y
    OBVIOUS
  <1>2. top(m) /\ Max(S) = CHOOSE x \in S : top(x)
    BY <1>1 DEF Max
  <1>3. Max(S) \in S /\ top(Max(S))
    <2> HIDE DEF top
    <2>1. QED
      BY <1>2
  <1>4. Max(S) \in Int /\ m >= Max(S)
    BY <1>1, <1>3
  <1>5. Max(S) >= m
    <2> HIDE DEF Max
    <2>1. QED
      BY <1>3
  <1>6. QED
    BY <1>4, <1>5

\* A set of integers with an upper bound has a largest element (the smallest
\* distance to the bound is well founded).
LEMMA MaxExists ==
    ASSUME NEW n \in Int, NEW S \in SUBSET Int, S # {}, \A x \in S : x <= n
    PROVE  Max(S) \in S /\ \A x \in S : x <= Max(S)
  <1> DEFINE T == {n - x : x \in S}
  <1>0. \A x \in S : x \in Int /\ x <= n /\ n - x \in Nat
    OBVIOUS
  <1>1. T \subseteq Nat /\ T # {}
    BY <1>0
  <1>2. PICK d \in T : \A e \in T : <<e, d>> \notin OpToRel(<, Nat)
    BY <1>1, WFMin, NatLessThanWellFounded
  <1>3. \A e \in T : ~(e < d)
    BY <1>1, <1>2, Zenon DEF OpToRel
  <1>4. PICK m \in S : d = n - m
    OBVIOUS
  <1>5. \A x \in S : x <= m
    <2> TAKE x \in S
    <2>1. n - x \in T /\ ~(n - x < n - m)
      BY <1>3, <1>4
    <2>2. QED
      BY <1>0, <2>1
  <1>6. Max(S) = m
    BY <1>5, MaxIs
  <1>7. QED
    BY <1>5, <1>6

\* Assign keeps the cells of a buffer and writes only values it was given.
LEMMA AssignType ==
    ASSUME NEW V, NEW n \in Nat, NEW buf \in [1..n -> V],
           NEW m \in Nat, NEW cells, DOMAIN cells = 1..m, NEW vals \in [1..m -> V]
    PROVE  Assign(buf, cells, vals) \in [1..n -> V]
  <1> DEFINE hits(c) == {i \in 1..m : cells[i] = c}
  <1>1. Assign(buf, cells, vals)
        = [c \in 1..n |-> IF hits(c) = {} THEN buf[c] ELSE vals[Max(hits(c))]]
    BY DEF Assign
  <1>2. \A c : hits(c) # {} => Max(hits(c)) \in 1..m
    <2> SUFFICES ASSUME NEW c, hits(c) # {}
                 PROVE  Max(hits(c)) \in 1..m
      OBVIOUS
    <2>1. hits(c) \in SUBSET (1..m) /\ hits(c) \in SUBSET Int /\ m \in Int
      OBVIOUS
    <2>2. \A x \in hits(c) : x <= m
      BY <2>1
    <2> HIDE DEF hits
    <2>3. Max(hits(c)) \in hits(c)
      BY <2>1, <2>2, MaxExists
    <2>4. QED
      BY <2>1, <2>3
  <1> HIDE DEF hits
  <1>3. QED
    BY <1>1, <1>2

\* A slice of an axis selects at least one and at most n of its positions.
LEMMA SliceFacts ==
    ASSUME NEW n \in Nat, NEW s \in Slices(n)
    PROVE  \E m \in 1..n : s \in [1..m -> 1..n]
  BY DEF Slices

Injective(s) == \A i, j \in DOMAIN s : s[i] = s[j] => i = j

\* The data of an array lie in the buffer of an object that exists; no two elements of an
\* array share a cell, nor do two of its mask.
MemInv ==
    \A o \in Objs : Live(o) =>
       /\ Live(obj[o].buf)
       /\ Injective(obj[o].cells)
       /\ HasMask(o) => Injective(obj[o].mcells)

Inv == TypeOK /\ MemInv

\* a has n elements: the values x, hidden where h says so.
Elems(a, n, x, h) ==
    /\ Len(obj[a].cells) = n /\ Data(a) = x
    /\ HasMask(a) => Mask(a).bits = h /\ Len(obj[a].mcells) = n
    /\ ~HasMask(a) => Mask(a) = nomask /\ \A i \in 1..n : ~h[i]
    /\ getmaskarray(a).bits = h
    /\ valBar[a] = [i \in 1..n |-> IF h[i] THEN Masked ELSE x[i]]

On(a, on) == \E i \in DOMAIN on : on[i] = a

\* m is `nomask`, or memory the call allocates, or that of the mask of an operand, and
\* its bits are s.
Held(m, on, s) ==
    /\ m.buf \in Buffers \cup {NoMask} /\ m.cells \in Seq(Nat) /\ Injective(m.cells)
    /\ s \in [DOMAIN m.cells -> BOOLEAN]
    /\ m.buf = NoMask => m = nomask
    /\ m.buf \in Unused => m.bits \in Seq(BOOLEAN)
    /\ m.buf # NoMask => \A i \in DOMAIN m.cells :
                            /\ m.cells[i] \in DOMAIN Allocated(m)[m.buf]
                            /\ Allocated(m)[m.buf][m.cells[i]] = s[i]
    /\ \/ m.buf \in Unused \cup {NoMask}
       \/ \E a \in Objs : On(a, on) /\ Live(a) /\ m.buf = obj[a].mbuf

\* d is memory that the call allocates for o, or that of an operand, and its n elements
\* are x.
Source(o, d, on, n, x) ==
    /\ d.cells \in [1..n -> Nat] /\ Injective(d.cells)
    /\ \/ /\ d.buf = o /\ d.vals \in Seq(Value)
          /\ \A i \in 1..n : d.cells[i] \in DOMAIN d.vals /\ d.vals[d.cells[i]] = x[i]
       \/ /\ \E a \in Objs : On(a, on) /\ Live(a) /\ d.buf = obj[a].buf
          /\ \A i \in 1..n : /\ d.cells[i] \in DOMAIN data[d.buf]
                             /\ data[d.buf][d.cells[i]] = x[i]

\* Applied to an array of n elements, m hides those that h says.
Hides(m, n, h) ==
    /\ m = nomask => \A i \in 1..n : ~h[i]
    /\ m # nomask => Len(m.bits) \in {1, n} /\ \A i \in 1..n : h[i] = Broadcast(m.bits, n)[i]

\* h hides what h1 or h2 hides.
Joins(h, h1, h2, n) == \A i \in 1..n : h[i] = (h1[i] \/ h2[i])

\* m is a mask for n elements, and hides those that h says.
Shows(m, on, n, h) ==
    /\ Held(m, on, m.bits)
    /\ m = nomask \/ Len(m.cells) = n
    /\ \A i \in 1..n : h[i] = (m # nomask /\ m.bits[i])

-----------------------------------------------------------------------------
(* Arrays and masks. *)

LEMMA Least ==
    ASSUME NEW S \in SUBSET Nat, S # {}
    PROVE  \E m \in S : \A x \in S : m <= x
  <1>1. PICK m \in S : \A x \in S : <<x, m>> \notin OpToRel(<, Nat)
    BY WFMin, NatLessThanWellFounded
  <1>2. \A x \in S : m <= x
    <2> TAKE x \in S
    <2>1. ~(x < m)
      BY <1>1, Zenon DEF OpToRel
    <2>2. QED
      BY <2>1
  <1>3. QED
    BY <1>2

LEMMA MinOf ==
    ASSUME NEW S \in SUBSET Nat, S # {}
    PROVE  Min(S) \in S
  BY Least DEF Min

LEMMA SomeUnused ==
    ASSUME Inv
    PROVE  Min(Unused) \in Unused /\ Unused \subseteq Buffers /\ NoMask \notin Unused
  <1> DEFINE held == [o \in Objs |-> IF Live(o) THEN obj[o].mbuf ELSE NoMask]
  <1>1. held \in [Objs -> Buffers \cup {NoMask}]
    <2>1. \A o \in Objs : Live(o) => obj[o] \in ObjRec
      BY DEF Inv, TypeOK, Live
    <2>2. QED
      BY <2>1 DEF ObjRec
  <1>2. PICK b \in Buffers : \A o \in Objs : held[o] # b
    BY <1>1, MaskedAssumption
  <1>3. b \in Unused
    BY <1>2 DEF Unused
  <1>4. Unused \subseteq Buffers
    BY DEF Unused
  <1>5. Unused \in SUBSET Nat /\ NoMask \notin Unused
    BY <1>4, MaskedAssumption
  <1>6. QED
    BY <1>3, <1>4, <1>5, MinOf

LEMMA LiveRecord ==
    ASSUME Inv, NEW a \in Objs, Live(a)
    PROVE  /\ obj[a] \in ObjRec
           /\ obj[a].cells \in Seq(Nat) /\ obj[a].mcells \in Seq(Nat)
           /\ obj[a].buf \in Objs /\ obj[a].mbuf \in Buffers \cup {NoMask}
           /\ obj[a].fill \in Value \cup {Unset}
           /\ HasMask(a) => obj[a].mbuf \in Buffers
           /\ \A i \in DOMAIN obj[a].cells : obj[a].cells[i] \in DOMAIN data[obj[a].buf]
           /\ HasMask(a) => \A i \in DOMAIN obj[a].mcells :
                               obj[a].mcells[i] \in DOMAIN bits[obj[a].mbuf]
           /\ data[obj[a].buf] \in Seq(Value)
           /\ HasMask(a) => bits[obj[a].mbuf] \in Seq(BOOLEAN)
  <1>1. obj[a] \in ObjRec
    BY DEF Inv, TypeOK, Live
  <1>2. QED
    BY <1>1 DEF ObjRec, Inv, TypeOK, Live, HasMask

LEMMA SoundElems ==
    ASSUME Inv, NEW a \in Objs, Sound(a)
    PROVE  \E n \in Nat : \E x \in [1..n -> Value], h \in [1..n -> BOOLEAN] : Elems(a, n, x, h)
  <1>1. Live(a) /\ (HasMask(a) => Len(obj[a].mcells) = Len(obj[a].cells))
    BY DEF Sound
  <1>2. PICK n \in Nat : n = Len(obj[a].cells) /\ DOMAIN obj[a].cells = 1..n
    BY <1>1, LiveRecord
  <1>3. PICK x : x = Data(a)
    OBVIOUS
  <1>4. x \in [1..n -> Value]
    <2>1. \A i \in 1..n : data[obj[a].buf][obj[a].cells[i]] \in Value
      BY <1>1, <1>2, LiveRecord
    <2>2. QED
      BY <1>2, <1>3, <2>1 DEF Data, DataIn
  <1>5. PICK h : h = getmaskarray(a).bits
    OBVIOUS
  <1>6. CASE HasMask(a)
    <2>1. h = [i \in 1..n |-> bits[obj[a].mbuf][obj[a].mcells[i]]] /\ h = Mask(a).bits
      BY <1>1, <1>2, <1>5, <1>6, LiveRecord DEF getmaskarray, Mask
    <2>2. h \in [1..n -> BOOLEAN]
      <3>1. PICK c : c = obj[a].mcells
        OBVIOUS
      <3>2. PICK w \in Seq(BOOLEAN) : w = bits[obj[a].mbuf]
        BY <1>1, <1>6, LiveRecord
      <3>3. c \in Seq(Nat) /\ Len(c) = n /\ \A i \in DOMAIN c : c[i] \in DOMAIN w
        BY <1>1, <1>2, <1>6, <3>1, <3>2, LiveRecord
      <3>4. \A i \in 1..n : w[c[i]] \in BOOLEAN
        BY <3>2, <3>3
      <3>5. h = [i \in 1..n |-> w[c[i]]]
        BY <2>1, <3>1, <3>2
      <3>6. QED
        BY <3>4, <3>5
    <2>3. valBar[a] = [i \in 1..n |-> IF h[i] THEN Masked ELSE x[i]]
      <3>1. valBar[a] = value(a)
        BY <1>1 DEF valBar
      <3>2. value(a) = [i \in DOMAIN x |-> IF h[i] THEN Masked ELSE x[i]]
        BY <1>3, <1>5 DEF value
      <3>3. QED
        BY <1>4, <3>1, <3>2
    <2>4. Elems(a, n, x, h)
      BY <1>1, <1>2, <1>3, <1>5, <1>6, <2>1, <2>3 DEF Elems
    <2>5. QED
      BY <1>4, <2>2, <2>4
  <1>7. CASE ~HasMask(a)
    <2>1. h = [i \in 1..n |-> FALSE] /\ Mask(a) = nomask
      BY <1>3, <1>4, <1>5, <1>7 DEF getmaskarray, Fresh, Constant, Mask
    <2>2. h \in [1..n -> BOOLEAN] /\ \A i \in 1..n : ~h[i]
      BY <2>1
    <2>3. valBar[a] = [i \in 1..n |-> IF h[i] THEN Masked ELSE x[i]]
      <3>1. valBar[a] = value(a)
        BY <1>1 DEF valBar
      <3>2. value(a) = [i \in DOMAIN x |-> IF h[i] THEN Masked ELSE x[i]]
        BY <1>3, <1>5 DEF value
      <3>3. QED
        BY <1>4, <3>1, <3>2
    <2>4. Elems(a, n, x, h)
      BY <1>2, <1>3, <1>5, <1>7, <2>1, <2>2, <2>3 DEF Elems
    <2>5. QED
      BY <1>4, <2>2, <2>4
  <1>8. QED
    BY <1>6, <1>7

LEMMA NomaskHeld ==
    ASSUME NEW on
    PROVE  Held(nomask, on, <<>>)
  <1>1. NoMask \notin Unused
    BY MaskedAssumption DEF Unused
  <1>2. nomask.buf = NoMask /\ nomask.cells = <<>> /\ <<>> \in Seq(Nat)
    BY DEF nomask
  <1>3. <<>> \in [DOMAIN <<>> -> BOOLEAN] /\ Injective(<<>>)
    BY DEF Injective
  <1>4. QED
    BY <1>1, <1>2, <1>3 DEF Held

LEMMA FreshHeld ==
    ASSUME Inv, NEW on, NEW s \in Seq(BOOLEAN)
    PROVE  Held(Fresh(s), on, s) /\ Fresh(s).bits = s /\ Len(Fresh(s).cells) = Len(s)
           /\ Fresh(s) # nomask
  <1>1. PICK m : m = Fresh(s)
    OBVIOUS
  <1>2. m.buf \in Unused /\ m.cells = Whole(Len(s)) /\ m.bits = s /\ m.buf \in Buffers
        /\ m.buf # NoMask
    BY <1>1, SomeUnused DEF Fresh
  <1>3. PICK n \in Nat : n = Len(s) /\ DOMAIN s = 1..n
    OBVIOUS
  <1>4. Whole(n) \in [1..n -> Nat] /\ \A i \in 1..n : Whole(n)[i] = i
    BY DEF Whole
  <1>5. m.cells \in Seq(Nat) /\ DOMAIN m.cells = 1..n /\ Injective(m.cells) /\ Len(m.cells) = n
    BY <1>2, <1>3, <1>4 DEF Injective
  <1>6. Allocated(m)[m.buf] = s
    BY <1>2 DEF Allocated, Inv, TypeOK
  <1>7. Held(m, on, s)
    <2>1. s \in [DOMAIN m.cells -> BOOLEAN]
      BY <1>3, <1>5
    <2>2. \A i \in DOMAIN m.cells : m.cells[i] = i
      BY <1>2, <1>3, <1>4, <1>5
    <2>3. QED
      BY <1>2, <1>3, <1>5, <1>6, <2>1, <2>2 DEF Held
  <1>8. m # nomask
    BY <1>2 DEF nomask
  <1>9. QED
    BY <1>1, <1>2, <1>3, <1>5, <1>7, <1>8

LEMMA OwnMaskHeld ==
    ASSUME Inv, NEW a \in Objs, Live(a), NEW on, On(a, on)
    PROVE  /\ Held(Mask(a), on, Mask(a).bits)
           /\ Mask(a) # nomask <=> HasMask(a)
           /\ HasMask(a) => Len(Mask(a).cells) = Len(obj[a].mcells)
  <1>1. CASE HasMask(a)
    <2>1. PICK m, c, w : m = Mask(a) /\ c = obj[a].mcells /\ w = bits[obj[a].mbuf]
      OBVIOUS
    <2>2. /\ c \in Seq(Nat) /\ w \in Seq(BOOLEAN) /\ Injective(c)
          /\ \A i \in DOMAIN c : c[i] \in DOMAIN w
      BY <1>1, <2>1, LiveRecord DEF Inv, MemInv
    <2>3. m.buf = obj[a].mbuf /\ m.cells = c /\ m.bits = [i \in DOMAIN c |-> w[c[i]]]
      BY <1>1, <2>1 DEF Mask
    <2>4. m.bits \in [DOMAIN c -> BOOLEAN]
      <3>1. \A i \in DOMAIN c : w[c[i]] \in BOOLEAN
        BY <2>2
      <3>2. QED
        BY <2>3, <3>1
    <2>5. m.buf \in Buffers /\ m.buf # NoMask /\ m.buf \notin Unused
      BY <1>1, <2>3, LiveRecord DEF Unused, HasMask
    <2>6. Allocated(m)[m.buf] = w
      BY <2>1, <2>3, <2>5 DEF Allocated
    <2>7. Held(m, on, m.bits)
      BY <2>2, <2>3, <2>4, <2>5, <2>6 DEF Held
    <2>8. QED
      BY <1>1, <2>1, <2>3, <2>5, <2>7 DEF nomask
  <1>2. CASE ~HasMask(a)
    <2>1. Mask(a) = nomask /\ nomask.bits = <<>>
      BY <1>2 DEF Mask, nomask
    <2>2. QED
      BY <1>2, <2>1, NomaskHeld
  <1>3. QED
    BY <1>1, <1>2

LEMMA AnyMaskHeld ==
    ASSUME Inv, NEW a \in Objs, Live(a), NEW on, On(a, on), NEW n \in Nat,
           NEW x \in [1..n -> Value], NEW h \in [1..n -> BOOLEAN], Elems(a, n, x, h)
    PROVE  /\ Held(getmaskarray(a), on, h)
           /\ Len(getmaskarray(a).cells) = n
           /\ getmaskarray(a).bits = h /\ getmaskarray(a) # nomask
  <1>1. CASE HasMask(a)
    BY <1>1, OwnMaskHeld DEF Elems, getmaskarray
  <1>2. CASE ~HasMask(a)
    <2>1. PICK s : s = Constant(Data(a), FALSE)
      OBVIOUS
    <2>2. getmaskarray(a) = Fresh(s)
      BY <1>2, <2>1 DEF getmaskarray
    <2>3. s = [i \in 1..n |-> FALSE]
      BY <2>1 DEF Constant, Elems
    <2>4. s \in Seq(BOOLEAN) /\ Len(s) = n
      BY <2>3
    <2>5. s = h
      BY <2>2, <2>4, FreshHeld DEF Elems
    <2>6. QED
      BY <2>2, <2>4, <2>5, FreshHeld
  <1>3. QED
    BY <1>1, <1>2

\* What an operand hides: its own elements, and those it is stretched to.
LEMMA OwnMaskHides ==
    ASSUME NEW a \in Objs, NEW k \in Nat, NEW x, NEW h \in [1..k -> BOOLEAN],
           Elems(a, k, x, h), NEW n \in Nat, k \in {1, n}
    PROVE  Hides(Mask(a), n, Broadcast(h, n))
  <1>1. Broadcast(h, n) = [i \in 1..n |-> IF k = 1 THEN h[1] ELSE h[i]]
    BY DEF Broadcast
  <1>2. CASE HasMask(a)
    <2>1. Mask(a).bits = h /\ Mask(a) # nomask /\ Len(h) = k
      BY <1>2 DEF Elems, Mask, nomask, HasMask
    <2>2. QED
      BY <2>1 DEF Hides
  <1>3. CASE ~HasMask(a)
    <2>1. Mask(a) = nomask /\ \A i \in 1..k : ~h[i]
      BY <1>3 DEF Elems
    <2>2. \A i \in 1..n : ~Broadcast(h, n)[i]
      BY <1>1, <2>1
    <2>3. QED
      BY <2>1, <2>2 DEF Hides
  <1>4. QED
    BY <1>2, <1>3

\* Shrinking drops a mask that hides nothing.
LEMMA MakeMask ==
    ASSUME NEW on, NEW s, NEW m, Held(m, on, s), m.bits = s, NEW n \in Nat, NEW h, Hides(m, n, h),
           NEW shrink \in BOOLEAN, NEW r, r = make_mask(m, shrink)
    PROVE  Held(r, on, r.bits) /\ Hides(r, n, h) /\ (r = m \/ r = nomask)
  <1>1. CASE r = m
    BY <1>1
  <1>2. CASE r # m
    <2>1. r = nomask /\ m # nomask /\ \A i \in DOMAIN m.bits : ~m.bits[i]
      BY <1>2 DEF make_mask
    <2>2. \A i \in 1..n : ~h[i]
      <3>1. Len(m.bits) \in {1, n} /\ \A i \in 1..n : h[i] = Broadcast(m.bits, n)[i]
        BY <2>1 DEF Hides
      <3>2. DOMAIN m.bits = 1..Len(m.bits)
        <4>1. m.cells \in Seq(Nat) /\ s \in [DOMAIN m.cells -> BOOLEAN]
          BY DEF Held
        <4>2. QED
          BY <4>1
      <3>3. QED
        BY <2>1, <3>1, <3>2 DEF Broadcast
    <2>3. nomask.bits = <<>>
      BY DEF nomask
    <2>4. QED
      BY <2>1, <2>2, <2>3, NomaskHeld DEF Hides
  <1>3. QED
    BY <1>1, <1>2

\* The union of two masks hides what one of them hides.
LEMMA MaskOr ==
    ASSUME Inv, NEW on, NEW n \in Nat, NEW m1, NEW m2,
           NEW h1 \in [1..n -> BOOLEAN], NEW h2 \in [1..n -> BOOLEAN],
           Held(m1, on, m1.bits), Held(m2, on, m2.bits), Hides(m1, n, h1), Hides(m2, n, h2),
           NEW shrink \in BOOLEAN, NEW h \in [1..n -> BOOLEAN],
           Joins(h, h1, h2, n),
           NEW r, r = mask_or(m1, m2, shrink)
    PROVE  Held(r, on, r.bits) /\ Hides(r, n, h)
  <1>1. PICK m : m = (IF m1 = nomask THEN m2 ELSE IF m2 = nomask THEN m1
                      ELSE Fresh(Or(m1.bits, m2.bits)))
    OBVIOUS
  <1>2. r = make_mask(m, shrink)
    BY <1>1 DEF mask_or
  <1>3. Held(m, on, m.bits) /\ Hides(m, n, h)
    <2>1. CASE m1 = nomask
      <3>1. m = m2 /\ \A i \in 1..n : ~h1[i]
        BY <1>1, <2>1 DEF Hides
      <3>2. h = h2
        BY <3>1 DEF Joins
      <3>3. QED
        BY <3>1, <3>2
    <2>2. CASE m1 # nomask /\ m2 = nomask
      <3>1. m = m1 /\ \A i \in 1..n : ~h2[i]
        BY <1>1, <2>2 DEF Hides
      <3>2. h = h1
        BY <3>1 DEF Joins
      <3>3. QED
        BY <3>1, <3>2
    <2>3. CASE m1 # nomask /\ m2 # nomask
      <3>1. PICK s, t : s = m1.bits /\ t = m2.bits
        OBVIOUS
      <3>2. s \in Seq(BOOLEAN) /\ t \in Seq(BOOLEAN)
        BY <3>1 DEF Held
      <3>3. Len(s) \in {1, n} /\ Len(t) \in {1, n}
        BY <2>3, <3>1 DEF Hides
      <3>4. PICK k \in Nat : k = IF Len(s) = 1 THEN Len(t) ELSE Len(s)
        BY <3>2
      <3>5. PICK u : u = Or(s, t)
        OBVIOUS
      <3>6. u = [i \in 1..k |-> Broadcast(s, k)[i] \/ Broadcast(t, k)[i]]
        BY <3>4, <3>5 DEF Or, Zip
      <3>7. u \in Seq(BOOLEAN) /\ Len(u) = k
        BY <3>6
      <3>8. m = Fresh(u)
        BY <1>1, <2>3, <3>1, <3>5
      <3>9. Held(m, on, m.bits) /\ m.bits = u /\ m # nomask
        BY <3>7, <3>8, FreshHeld
      <3>10. \A i \in 1..n : h[i] = Broadcast(u, n)[i]
        <4> TAKE i \in 1..n
        <4>1. h1[i] = Broadcast(s, n)[i] /\ h2[i] = Broadcast(t, n)[i]
          BY <2>3, <3>1 DEF Hides
        <4>2. CASE k = 1
          <5>1. Len(s) = 1 /\ Len(t) = 1
            BY <3>3, <3>4, <4>2
          <5>2. u[1] = (s[1] \/ t[1])
            BY <3>6, <4>2, <5>1 DEF Broadcast
          <5>3. Broadcast(u, n)[i] = u[1] /\ h1[i] = s[1] /\ h2[i] = t[1]
            BY <3>7, <4>1, <4>2, <5>1 DEF Broadcast
          <5>4. h[i] = (h1[i] \/ h2[i])
            BY DEF Joins
          <5>5. QED
            BY <5>2, <5>3, <5>4
        <4>3. CASE k # 1
          <5>1. k = n
            BY <3>3, <3>4, <4>3
          <5>2. u[i] = (Broadcast(s, n)[i] \/ Broadcast(t, n)[i])
            BY <3>6, <5>1
          <5>3. Broadcast(u, n)[i] = u[i]
            BY <3>7, <4>3 DEF Broadcast
          <5>4. h[i] = (h1[i] \/ h2[i])
            BY DEF Joins
          <5>5. QED
            BY <4>1, <5>2, <5>3, <5>4
        <4>4. QED
          BY <4>2, <4>3
      <3>11. QED
        BY <3>3, <3>4, <3>7, <3>9, <3>10 DEF Hides
    <2>4. QED
      BY <2>1, <2>2, <2>3
  <1>4. QED
    BY <1>2, <1>3, MakeMask

-----------------------------------------------------------------------------
(* The abstract variables, from records and memory. *)

ValueOf(rec, B, D) ==
    LET h == IF rec.mbuf # NoMask
             THEN [i \in DOMAIN rec.mcells |-> B[rec.mbuf][rec.mcells[i]]]
             ELSE [i \in DOMAIN rec.cells |-> FALSE]
    IN  [i \in DOMAIN rec.cells |-> IF h[i] THEN Masked ELSE D[rec.buf][rec.cells[i]]]

KinTo(p, q) == p.buf = q.buf \/ (p.mbuf # NoMask /\ q.mbuf = p.mbuf)

LEMMA ValuesAre ==
    ASSUME NEW p \in Objs
    PROVE  valBar[p] = IF Live(p) THEN ValueOf(obj[p], bits, data) ELSE None
  <1>1. valBar[p] = IF Live(p) THEN value(p) ELSE None
    BY DEF valBar
  <1>2. value(p) = ValueOf(obj[p], bits, data)
    <2>1. PICK x : x = Data(p)
      OBVIOUS
    <2>2. x = [i \in DOMAIN obj[p].cells |-> data[obj[p].buf][obj[p].cells[i]]]
      BY <2>1 DEF Data, DataIn
    <2>3. PICK h : h = getmaskarray(p).bits
      OBVIOUS
    <2>4. h = IF HasMask(p)
              THEN [i \in DOMAIN obj[p].mcells |-> bits[obj[p].mbuf][obj[p].mcells[i]]]
              ELSE [i \in DOMAIN obj[p].cells |-> FALSE]
      <3>1. CASE HasMask(p)
        BY <2>3, <3>1 DEF getmaskarray, Mask
      <3>2. CASE ~HasMask(p)
        <4>1. h = [i \in DOMAIN x |-> FALSE]
          BY <2>1, <2>3, <3>2 DEF getmaskarray, Fresh, Constant
        <4>2. QED
          BY <2>2, <3>2, <4>1
      <3>3. QED
        BY <3>1, <3>2
    <2>5. value(p) = [i \in DOMAIN x |-> IF h[i] THEN Masked ELSE x[i]]
      BY <2>1, <2>3 DEF value
    <2>6. value(p) = [i \in DOMAIN obj[p].cells |-> IF h[i] THEN Masked
                                                   ELSE data[obj[p].buf][obj[p].cells[i]]]
      BY <2>2, <2>5
    <2>7. QED
      BY <2>4, <2>6 DEF ValueOf, HasMask
  <1>3. QED
    BY <1>1, <1>2

LEMMA ValuesBecome ==
    ASSUME NEW p \in Objs
    PROVE  valBar'[p] = IF Live(p)' THEN ValueOf(obj'[p], bits', data') ELSE None
  <1>1. valBar'[p] = IF Live(p)' THEN value(p)' ELSE None
    BY DEF valBar
  <1>2. value(p)' = ValueOf(obj'[p], bits', data')
    <2>1. PICK x : x = Data(p)'
      OBVIOUS
    <2>2. x = [i \in DOMAIN obj'[p].cells |-> data'[obj'[p].buf][obj'[p].cells[i]]]
      BY <2>1 DEF Data, DataIn
    <2>3. PICK h : h = getmaskarray(p)'.bits
      OBVIOUS
    <2>4. h = IF HasMask(p)'
              THEN [i \in DOMAIN obj'[p].mcells |-> bits'[obj'[p].mbuf][obj'[p].mcells[i]]]
              ELSE [i \in DOMAIN obj'[p].cells |-> FALSE]
      <3>1. CASE HasMask(p)'
        BY <2>3, <3>1 DEF getmaskarray, Mask
      <3>2. CASE ~HasMask(p)'
        <4>1. h = [i \in DOMAIN x |-> FALSE]
          BY <2>1, <2>3, <3>2 DEF getmaskarray, Fresh, Constant
        <4>2. QED
          BY <2>2, <3>2, <4>1
      <3>3. QED
        BY <3>1, <3>2
    <2>5. value(p)' = [i \in DOMAIN x |-> IF h[i] THEN Masked ELSE x[i]]
      BY <2>1, <2>3 DEF value
    <2>6. value(p)' = [i \in DOMAIN obj'[p].cells |-> IF h[i] THEN Masked
                                                   ELSE data'[obj'[p].buf][obj'[p].cells[i]]]
      BY <2>2, <2>5
    <2>7. QED
      BY <2>4, <2>6 DEF ValueOf, HasMask
  <1>3. QED
    BY <1>1, <1>2

LEMMA KinsAre ==
    ASSUME NEW p \in Objs
    PROVE  kinBar[p] = {q \in Objs : Live(p) /\ Live(q) /\ (q = p \/ KinTo(obj[p], obj[q]))}
  BY DEF kinBar, KinTo, HasMask

LEMMA KinsBecome ==
    ASSUME NEW p \in Objs
    PROVE  kinBar'[p] = {q \in Objs : Live(p)' /\ Live(q)' /\ (q = p \/ KinTo(obj'[p], obj'[q]))}
  BY DEF kinBar, KinTo, HasMask

-----------------------------------------------------------------------------
(* A call that makes an array. *)

\* o appears with the elements v, made from the operands `on`; the others are untouched.
LEMMA CreateStep ==
    ASSUME Inv, calls < MaxCalls, NEW o \in Objs, NEW d, NEW m, NEW fill \in Value \cup {Unset},
           NEW op, NEW on, NEW by, Create(o, d, m, fill), Call(op, on, by),
           NEW n \in Nat, NEW x \in [1..n -> Value], Source(o, d, on, n, x),
           NEW s, Held(m, on, s)
    PROVE  /\ Inv' /\ ~Live(o)
           /\ m = nomask \/ Len(m.cells) = n =>
                 /\ SameShape => SameShape'
                 /\ \A v : v = [i \in 1..n |-> IF m # nomask /\ s[i] THEN Masked ELSE x[i]]
                           => Optional!Appear(o, v)
  <1> DEFINE rec == [buf |-> d.buf, cells |-> d.cells, mbuf |-> m.buf, mcells |-> m.cells,
                     fill |-> fill]
  <1>1. /\ ~Live(o) /\ obj' = [obj EXCEPT ![o] = rec]
        /\ data' = IF d.buf = o THEN [data EXCEPT ![o] = d.vals] ELSE data
        /\ bits' = Allocated(m)
        /\ calls' = calls + 1 /\ last' = [op |-> op, on |-> on, by |-> by]
    BY DEF Create, Call
  <1>2. /\ d.cells \in [1..n -> Nat] /\ d.cells \in Seq(Nat) /\ Len(d.cells) = n
        /\ DOMAIN d.cells = 1..n /\ Injective(d.cells) /\ d.buf \in Objs
    <2>1. d.cells \in [1..n -> Nat] /\ Injective(d.cells)
      BY DEF Source
    <2>2. d.buf \in Objs
      BY LiveRecord DEF Source
    <2>3. QED
      BY <2>1, <2>2
  <1>3. m.buf \in Buffers \cup {NoMask} /\ m.cells \in Seq(Nat) /\ Injective(m.cells)
        /\ (m = nomask <=> m.buf = NoMask)
    BY DEF Held, nomask
  <1>4. rec \in ObjRec /\ rec # None
    <2>1. rec \in ObjRec
      BY <1>2, <1>3 DEF ObjRec
    <2>2. QED
      BY <2>1, MaskedAssumption
  <1>e. /\ rec.buf = d.buf /\ rec.cells = d.cells /\ rec.mbuf = m.buf /\ rec.mcells = m.cells
    OBVIOUS
  <1> HIDE DEF rec
  <1>5. /\ obj'[o] = rec /\ Live(o)' /\ (HasMask(o)' <=> m.buf # NoMask)
        /\ \A p \in Objs \ {o} : /\ obj'[p] = obj[p] /\ (Live(p)' <=> Live(p))
                                 /\ (HasMask(p)' <=> HasMask(p))
    BY <1>1, <1>4, <1>e DEF Live, HasMask, Inv, TypeOK
  <1>6. \A p \in Objs \ {o} : Live(p) => /\ obj[p].buf # o /\ obj[p].buf \in Objs
                                         /\ data'[obj[p].buf] = data[obj[p].buf]
    <2> TAKE p \in Objs \ {o}
    <2> HAVE Live(p)
    <2>1. obj[p].buf # o /\ obj[p].buf \in Objs
      BY <1>1, LiveRecord DEF Inv, MemInv
    <2>2. QED
      BY <1>1, <2>1 DEF Inv, TypeOK
  <1>7. \A p \in Objs : Live(p) /\ HasMask(p) => bits'[obj[p].mbuf] = bits[obj[p].mbuf]
    BY <1>1 DEF Allocated, Unused
  <1>8. data' \in [Objs -> Seq(Value)] /\ bits' \in [Buffers -> Seq(BOOLEAN)]
    <2>1. d.buf = o => d.vals \in Seq(Value)
      BY <1>1, LiveRecord DEF Source, Inv, MemInv
    <2>2. bits' \in [Buffers -> Seq(BOOLEAN)]
      BY <1>1 DEF Allocated, Held, Inv, TypeOK
    <2>3. QED
      BY <1>1, <2>1, <2>2 DEF Inv, TypeOK
  <1>9. \A i \in 1..n : d.cells[i] \in DOMAIN data'[d.buf] /\ data'[d.buf][d.cells[i]] = x[i]
    <2>1. CASE d.buf = o
      <3>1. \A a \in Objs : Live(a) => obj[a].buf # o
        BY <1>1, LiveRecord DEF Inv, MemInv
      <3>2. data'[d.buf] = d.vals
        BY <1>1, <2>1 DEF Inv, TypeOK
      <3>3. QED
        BY <2>1, <3>1, <3>2 DEF Source
    <2>2. CASE d.buf # o
      BY <1>1, <2>2 DEF Source
    <2>3. QED
      BY <2>1, <2>2
  <1>10. m.buf # NoMask => \A i \in DOMAIN m.cells : /\ m.cells[i] \in DOMAIN bits'[m.buf]
                                                     /\ bits'[m.buf][m.cells[i]] = s[i]
    BY <1>1 DEF Held
  <1>11. TypeOK'
    <2>1. obj' \in [Objs -> {None} \cup ObjRec] /\ calls' \in 0..MaxCalls
      BY <1>1, <1>4, MaskedAssumption DEF Inv, TypeOK
    <2>2. ASSUME NEW p \in Objs, obj'[p] # None
          PROVE  /\ \A i \in DOMAIN obj'[p].cells : obj'[p].cells[i] \in DOMAIN data'[obj'[p].buf]
                 /\ obj'[p].mbuf # NoMask =>
                       \A i \in DOMAIN obj'[p].mcells :
                          obj'[p].mcells[i] \in DOMAIN bits'[obj'[p].mbuf]
      <3>1. CASE p = o
        BY <1>2, <1>5, <1>9, <1>10, <1>e, <3>1
      <3>2. CASE p # o
        <4>1. Live(p) /\ obj'[p] = obj[p]
          BY <1>5, <2>2, <3>2 DEF Live
        <4>2. QED
          BY <1>6, <1>7, <3>2, <4>1, LiveRecord DEF HasMask
      <3>3. QED
        BY <3>1, <3>2
    <2>3. QED
      BY <1>8, <2>1, <2>2 DEF TypeOK
  <1>12. MemInv'
    <2> SUFFICES ASSUME NEW p \in Objs, Live(p)'
                 PROVE  (/\ Live(obj[p].buf)
                         /\ Injective(obj[p].cells)
                         /\ HasMask(p) => Injective(obj[p].mcells))'
      BY DEF MemInv
    <2>1. CASE p = o
      <3>1. d.buf = o \/ Live(d.buf)
        BY DEF Source, Inv, MemInv
      <3>2. Live(d.buf)'
        BY <1>2, <1>5, <3>1
      <3>3. obj'[p].buf = d.buf /\ obj'[p].cells = d.cells /\ obj'[p].mcells = m.cells
        BY <1>5, <1>e, <2>1
      <3>4. QED
        BY <1>2, <1>3, <3>2, <3>3
    <2>2. CASE p # o
      <3>1. Live(p) /\ obj'[p] = obj[p]
        BY <1>5, <2>2
      <3>2. obj[p].buf \in Objs \ {o} /\ Live(obj[p].buf)
        BY <1>6, <2>2, <3>1 DEF Inv, MemInv
      <3>3. QED
        BY <1>5, <2>2, <3>1, <3>2 DEF Inv, MemInv
    <2>3. QED
      BY <2>1, <2>2
  <1>13. Inv'
    BY <1>11, <1>12 DEF Inv
  <1>14. ASSUME m = nomask \/ Len(m.cells) = n, SameShape
         PROVE  SameShape'
    <2> SUFFICES ASSUME NEW p \in Objs, Live(p)' PROVE Sound(p)'
      BY DEF SameShape
    <2>1. CASE p = o
      BY <1>2, <1>3, <1>5, <1>14, <1>e, <2>1 DEF Sound
    <2>2. CASE p # o
      BY <1>5, <1>14, <2>2 DEF Sound, SameShape
    <2>3. QED
      BY <2>1, <2>2
  <1>15. \A p \in Objs \ {o} : valBar'[p] = valBar[p]
    <2> TAKE p \in Objs \ {o}
    <2>1. CASE Live(p)
      <3>1. PICK r, B, D, B1, D1 : r = obj[p] /\ B = bits /\ D = data /\ B1 = bits' /\ D1 = data'
        OBVIOUS
      <3>2. obj'[p] = r /\ D1[r.buf] = D[r.buf] /\ (r.mbuf # NoMask => B1[r.mbuf] = B[r.mbuf])
        BY <1>5, <1>6, <1>7, <2>1, <3>1 DEF HasMask
      <3>3. ValueOf(r, B1, D1) = ValueOf(r, B, D)
        BY <3>2 DEF ValueOf
      <3>4. QED
        BY <1>5, <2>1, <3>1, <3>2, <3>3, ValuesAre, ValuesBecome
    <2>2. CASE ~Live(p)
      BY <1>5, <2>2, ValuesAre, ValuesBecome
    <2>3. QED
      BY <2>1, <2>2
  <1>16. ASSUME m = nomask \/ Len(m.cells) = n
         PROVE  valBar'[o] = [i \in 1..n |-> IF m # nomask /\ s[i] THEN Masked ELSE x[i]]
    <2>1. PICK B, D : B = bits' /\ D = data'
      OBVIOUS
    <2>2. valBar'[o] = ValueOf(rec, B, D)
      BY <1>5, <2>1, ValuesBecome
    <2>3. CASE m = nomask
      <3>1. rec.mbuf = NoMask
        BY <1>3, <1>e, <2>3
      <3>2. ValueOf(rec, B, D) = [i \in 1..n |-> D[d.buf][d.cells[i]]]
        BY <1>2, <1>e, <3>1 DEF ValueOf
      <3>3. QED
        BY <1>9, <2>1, <2>2, <2>3, <3>2
    <2>4. CASE m # nomask
      <3>1. rec.mbuf = m.buf /\ rec.mcells = m.cells /\ m.buf # NoMask /\ DOMAIN m.cells = 1..n
        BY <1>3, <1>16, <1>e, <2>4
      <3>2. \A i \in 1..n : B[m.buf][m.cells[i]] = s[i] /\ D[d.buf][d.cells[i]] = x[i]
        BY <1>9, <1>10, <2>1, <3>1
      <3>3. ValueOf(rec, B, D) = [i \in 1..n |-> IF [j \in 1..n |-> B[m.buf][m.cells[j]]][i]
                                                 THEN Masked ELSE D[d.buf][d.cells[i]]]
        BY <1>2, <1>e, <3>1 DEF ValueOf
      <3>4. QED
        BY <2>2, <2>4, <3>2, <3>3
    <2>5. QED
      BY <2>3, <2>4
  <1>17. kinBar'[o] \subseteq {o} \cup UNION {kinBar[on[i]] : i \in DOMAIN on}
    <2> SUFFICES ASSUME NEW q \in Objs, q # o, q \in kinBar'[o]
                 PROVE  \E i \in DOMAIN on : q \in kinBar[on[i]]
      BY KinsBecome
    <2>1. Live(q) /\ obj'[q] = obj[q] /\ KinTo(rec, obj[q])
      BY <1>5, KinsBecome
    <2>2. CASE obj[q].buf = d.buf
      <3>1. PICK a \in Objs : On(a, on) /\ Live(a) /\ d.buf = obj[a].buf
        BY <1>6, <2>1, <2>2 DEF Source
      <3>2. q \in kinBar[a]
        BY <2>1, <2>2, <3>1, KinsAre DEF KinTo
      <3>3. QED
        BY <3>1, <3>2 DEF On
    <2>3. CASE obj[q].mbuf = m.buf /\ m.buf # NoMask
      <3>1. m.buf \notin Unused
        BY <2>1, <2>3 DEF Unused
      <3>2. PICK a \in Objs : On(a, on) /\ Live(a) /\ m.buf = obj[a].mbuf
        BY <2>3, <3>1 DEF Held
      <3>3. q \in kinBar[a]
        BY <2>1, <2>3, <3>2, KinsAre DEF KinTo
      <3>4. QED
        BY <3>2, <3>3 DEF On
    <2>4. QED
      BY <1>e, <2>1, <2>2, <2>3 DEF KinTo
  <1>18. \A p \in Objs \ {o} : kinBar'[p] = kinBar[p] \cup {q \in {o} : p \in kinBar'[o]}
    <2> TAKE p \in Objs \ {o}
    <2>1. \A q \in Objs \ {o} : q \in kinBar'[p] <=> q \in kinBar[p]
      BY <1>5, KinsAre, KinsBecome
    <2>2. o \in kinBar'[p] <=> p \in kinBar'[o]
      <3>1. o \in kinBar'[p] <=> Live(p)' /\ KinTo(obj'[p], obj'[o])
        BY <1>5, KinsBecome
      <3>2. p \in kinBar'[o] <=> Live(p)' /\ KinTo(obj'[o], obj'[p])
        BY <1>5, KinsBecome
      <3>3. QED
        BY <3>1, <3>2 DEF KinTo
    <2>3. o \notin kinBar[p]
      BY <1>1, KinsAre
    <2>4. kinBar'[p] \subseteq Objs /\ kinBar[p] \subseteq Objs
      BY KinsAre, KinsBecome
    <2>5. QED
      BY <2>1, <2>2, <2>3, <2>4
  <1>19. ASSUME m = nomask \/ Len(m.cells) = n,
                NEW v, v = [i \in 1..n |-> IF m # nomask /\ s[i] THEN Masked ELSE x[i]]
         PROVE  Optional!Appear(o, v)
    <2>1. valBar' = [valBar EXCEPT ![o] = v]
      BY <1>15, <1>16, <1>19 DEF valBar
    <2>2. last'.on = on
      BY <1>1
    <2>3. QED
      BY <1>17, <1>18, <2>1, <2>2 DEF Optional!Appear
  <1>20. QED
    BY <1>1, <1>13, <1>14, <1>19

\* What a step keeps: the invariant, and, if no mask of another length is let in, the
\* shapes, with a step of the abstract arrays.
Good == Inv' /\ (SameShape /\ ~Mismatched => SameShape' /\ Optional!Next)

LEMMA SoundExists ==
    ASSUME Inv, NEW a \in Objs
    PROVE  /\ Sound(a) => Optional!Exists(a)
           /\ ~Live(a) => ~Optional!Exists(a)
  <1>1. ASSUME Sound(a)
        PROVE  valBar[a] # None
    <2>1. PICK n \in Nat : \E x \in [1..n -> Value], h \in [1..n -> BOOLEAN] : Elems(a, n, x, h)
      BY <1>1, SoundElems
    <2>2. PICK x \in [1..n -> Value], h \in [1..n -> BOOLEAN] : Elems(a, n, x, h)
      BY <2>1
    <2>3. valBar[a] = [i \in 1..n |-> IF h[i] THEN Masked ELSE x[i]]
      BY <2>2 DEF Elems
    <2>4. valBar[a] \in Seq(Value \cup {Masked})
      BY <2>3
    <2>5. QED
      BY <2>4, MaskedAssumption
  <1>2. ~Live(a) => valBar[a] = None
    BY ValuesAre
  <1>3. QED
    BY <1>1, <1>2 DEF Optional!Exists

\* The call `op` on the sound arrays `on` made o from d and m: n elements, x where h does
\* not hide them, what the abstract call computes.
Computes(o, d, m, fill, op, on, by, n, x, h) ==
    /\ Create(o, d, m, fill) /\ Call(op, on, by) /\ fill \in Value \cup {Unset}
    /\ n \in Nat /\ x \in [1..n -> Value] /\ Source(o, d, on, n, x) /\ Held(m, on, m.bits)
    /\ op \notin {"new", "imod", "write"}
    /\ \A i \in DOMAIN on : on[i] \in Objs /\ Sound(on[i])
    /\ ~Mismatched => /\ Shows(m, on, n, h)
                      /\ [i \in 1..n |-> IF h[i] THEN Masked ELSE x[i]]
                           \in Optional!Result([op |-> op, on |-> on, by |-> by])

LEMMA CallStep ==
    ASSUME Inv, calls < MaxCalls, NEW o \in Objs, NEW d, NEW m, NEW fill, NEW op, NEW on, NEW by,
           NEW n, NEW x, NEW h, Computes(o, d, m, fill, op, on, by, n, x, h)
    PROVE  Good
  <1>1. PICK v : v = [i \in 1..n |-> IF m # nomask /\ m.bits[i] THEN Masked ELSE x[i]]
    OBVIOUS
  <1>2. /\ Inv' /\ ~Live(o)
        /\ m = nomask \/ Len(m.cells) = n =>
              (SameShape => SameShape') /\ Optional!Appear(o, v)
    <2>1. PICK s : s = m.bits
      OBVIOUS
    <2>2. /\ Create(o, d, m, fill) /\ Call(op, on, by) /\ fill \in Value \cup {Unset}
          /\ n \in Nat /\ x \in [1..n -> Value] /\ Source(o, d, on, n, x) /\ Held(m, on, s)
      BY <2>1 DEF Computes
    <2>3. v = [i \in 1..n |-> IF m # nomask /\ s[i] THEN Masked ELSE x[i]]
      BY <1>1, <2>1
    <2>4. /\ Inv' /\ ~Live(o)
          /\ m = nomask \/ Len(m.cells) = n =>
                /\ SameShape => SameShape'
                /\ \A w : w = [i \in 1..n |-> IF m # nomask /\ s[i] THEN Masked ELSE x[i]]
                          => Optional!Appear(o, w)
      BY <2>2, CreateStep
    <2>5. QED
      BY <2>3, <2>4
  <1>3. PICK c : c = [op |-> op, on |-> on, by |-> by] /\ last' = c
    BY DEF Call, Computes
  <1>4. ASSUME SameShape, ~Mismatched
        PROVE  SameShape' /\ Optional!Next
    <2>1. Shows(m, on, n, h) /\ [i \in 1..n |-> IF h[i] THEN Masked ELSE x[i]] \in Optional!Result(c)
      BY <1>3, <1>4 DEF Computes
    <2>2. v = [i \in 1..n |-> IF h[i] THEN Masked ELSE x[i]]
      BY <1>1, <2>1 DEF Shows
    <2>3. SameShape' /\ Optional!Appear(o, v) /\ v \in Optional!Result(c)
      BY <1>2, <1>4, <2>1, <2>2 DEF Shows
    <2>4. \A i \in DOMAIN last'.on : Optional!Exists(last'.on[i])
      BY <1>3, SoundExists DEF Computes
    <2>5. last'.op \notin {"new", "imod", "write"} /\ ~Optional!Exists(o)
      BY <1>2, <1>3, SoundExists DEF Computes
    <2>6. Optional!Derive(o)
      BY <1>3, <2>3, <2>4, <2>5 DEF Optional!Derive
    <2>7. QED
      BY <2>3, <2>6 DEF Optional!Next
  <1>5. QED
    BY <1>2, <1>4 DEF Good

LEMMA FreshSource ==
    ASSUME NEW o \in Objs, NEW on, NEW n \in Nat, NEW y \in [1..n -> Value]
    PROVE  Source(o, FreshData(o, y), on, n, y)
  <1>1. PICK d : d = FreshData(o, y)
    OBVIOUS
  <1>2. d.buf = o /\ d.cells = [i \in 1..n |-> i] /\ d.vals = y /\ y \in Seq(Value)
    BY <1>1 DEF FreshData, Whole
  <1>3. d.cells \in [1..n -> Nat] /\ Injective(d.cells)
    BY <1>2 DEF Injective
  <1>4. QED
    BY <1>1, <1>2, <1>3 DEF Source

LEMMA SameSource ==
    ASSUME Inv, NEW o \in Objs, NEW a \in Objs, Live(a), NEW on, On(a, on), NEW n \in Nat,
           NEW x \in [1..n -> Value], NEW h, Elems(a, n, x, h)
    PROVE  Source(o, SameData(a), on, n, x)
  <1>1. PICK d, w : d = SameData(a) /\ w = data[obj[a].buf]
    OBVIOUS
  <1>2. d.buf = obj[a].buf /\ d.cells = obj[a].cells
    BY <1>1 DEF SameData
  <1>3. d.cells \in Seq(Nat) /\ Len(d.cells) = n /\ Injective(d.cells)
        /\ \A i \in DOMAIN d.cells : d.cells[i] \in DOMAIN w
    BY <1>1, <1>2, LiveRecord DEF Elems, Inv, MemInv
  <1>4. x = [i \in DOMAIN d.cells |-> w[d.cells[i]]]
    BY <1>1, <1>2 DEF Elems, Data, DataIn
  <1>5. d.cells \in [1..n -> Nat] /\ \A i \in 1..n : x[i] = w[d.cells[i]]
    BY <1>3, <1>4
  <1>6. QED
    BY <1>1, <1>2, <1>3, <1>5 DEF Source

LEMMA OwnMask ==
    ASSUME Inv, NEW a \in Objs, Live(a), NEW on, On(a, on), NEW n \in Nat,
           NEW x, NEW h \in [1..n -> BOOLEAN], Elems(a, n, x, h)
    PROVE  Shows(Mask(a), on, n, h)
  <1>1. CASE HasMask(a)
    <2>1. Mask(a).bits = h /\ Mask(a) # nomask /\ Held(Mask(a), on, Mask(a).bits)
          /\ Len(Mask(a).cells) = n
      BY <1>1, OwnMaskHeld DEF Elems
    <2>2. QED
      BY <2>1 DEF Shows
  <1>2. CASE ~HasMask(a)
    <2>1. Mask(a) = nomask /\ Held(Mask(a), on, Mask(a).bits) /\ \A i \in 1..n : ~h[i]
      BY <1>2, OwnMaskHeld DEF Elems
    <2>2. QED
      BY <2>1 DEF Shows
  <1>3. QED
    BY <1>1, <1>2

LEMMA AnyMask ==
    ASSUME Inv, NEW a \in Objs, Live(a), NEW on, On(a, on), NEW n \in Nat,
           NEW x \in [1..n -> Value], NEW h \in [1..n -> BOOLEAN], Elems(a, n, x, h)
    PROVE  Shows(getmaskarray(a), on, n, h)
  BY AnyMaskHeld DEF Shows

LEMMA FreshMask ==
    ASSUME Inv, NEW on, NEW n \in Nat, NEW h \in [1..n -> BOOLEAN]
    PROVE  Shows(Fresh(h), on, n, h)
  <1>1. h \in Seq(BOOLEAN) /\ Len(h) = n
    OBVIOUS
  <1>2. PICK m : m = Fresh(h)
    OBVIOUS
  <1>3. Held(m, on, m.bits) /\ m.bits = h /\ Len(m.cells) = n /\ m # nomask
    BY <1>1, <1>2, FreshHeld
  <1>4. QED
    BY <1>2, <1>3 DEF Shows

LEMMA NoMaskShows ==
    ASSUME NEW on, NEW n \in Nat, NEW h \in [1..n -> BOOLEAN], \A i \in 1..n : ~h[i]
    PROVE  Shows(nomask, on, n, h)
  <1>1. nomask.bits = <<>>
    BY DEF nomask
  <1>2. QED
    BY <1>1, NomaskHeld DEF Shows

\* A mask for n elements is one that hides what it shows, and conversely.
LEMMA ShowsHides ==
    ASSUME NEW m, NEW on, NEW n \in Nat, NEW h \in [1..n -> BOOLEAN], Shows(m, on, n, h)
    PROVE  Hides(m, n, h)
  <1>1. CASE m = nomask
    BY <1>1 DEF Shows, Hides
  <1>2. CASE m # nomask
    <2>1. Len(m.cells) = n /\ m.cells \in Seq(Nat) /\ m.bits \in [DOMAIN m.cells -> BOOLEAN]
      BY <1>2 DEF Shows, Held
    <2>2. m.bits \in [1..n -> BOOLEAN] /\ Len(m.bits) = n
      BY <2>1
    <2>3. \A i \in 1..n : h[i] = m.bits[i]
      BY <1>2, <2>2 DEF Shows
    <2>4. QED
      BY <1>2, <2>2, <2>3 DEF Hides, Broadcast
  <1>3. QED
    BY <1>1, <1>2

LEMMA HidesShows ==
    ASSUME NEW m, NEW on, NEW n \in Nat, NEW h \in [1..n -> BOOLEAN], Hides(m, n, h),
           Held(m, on, m.bits), m = nomask \/ Len(m.cells) = n
    PROVE  Shows(m, on, n, h)
  <1>1. CASE m = nomask
    BY <1>1 DEF Shows, Hides
  <1>2. CASE m # nomask
    <2>1. Len(m.cells) = n /\ m.cells \in Seq(Nat) /\ m.bits \in [DOMAIN m.cells -> BOOLEAN]
      BY <1>2 DEF Held
    <2>2. m.bits \in [1..n -> BOOLEAN] /\ Len(m.bits) = n
      BY <2>1
    <2>3. \A i \in 1..n : h[i] = m.bits[i]
      BY <1>2, <2>2 DEF Hides, Broadcast
    <2>4. QED
      BY <1>2, <2>1, <2>2, <2>3 DEF Shows
  <1>3. QED
    BY <1>1, <1>2

LEMMA MaskOrHeld ==
    ASSUME Inv, NEW on, NEW m1, NEW m2, NEW shrink \in BOOLEAN,
           Held(m1, on, m1.bits), Held(m2, on, m2.bits), NEW r, r = mask_or(m1, m2, shrink)
    PROVE  Held(r, on, r.bits)
  <1>1. PICK s, t : s = m1.bits /\ t = m2.bits
    OBVIOUS
  <1>2. s \in Seq(BOOLEAN) /\ t \in Seq(BOOLEAN)
    BY <1>1 DEF Held
  <1>3. PICK k \in Nat : k = IF Len(s) = 1 THEN Len(t) ELSE Len(s)
    BY <1>2
  <1>4. PICK u : u = Or(s, t)
    OBVIOUS
  <1>5. u = [i \in 1..k |-> Broadcast(s, k)[i] \/ Broadcast(t, k)[i]]
    BY <1>3, <1>4 DEF Or, Zip
  <1>6. u \in Seq(BOOLEAN)
    BY <1>5
  <1>7. r = nomask \/ r = m1 \/ r = m2 \/ r = Fresh(u)
    BY <1>1, <1>4 DEF mask_or, make_mask
  <1>8. nomask.bits = <<>>
    BY DEF nomask
  <1>9. QED
    BY <1>6, <1>7, <1>8, NomaskHeld, FreshHeld

LEMMA MaskOrShows ==
    ASSUME Inv, NEW on, NEW n \in Nat, NEW m1, NEW m2,
           NEW h1 \in [1..n -> BOOLEAN], NEW h2 \in [1..n -> BOOLEAN],
           Shows(m1, on, n, h1), Shows(m2, on, n, h2),
           NEW shrink \in BOOLEAN, NEW h \in [1..n -> BOOLEAN],
           Joins(h, h1, h2, n),
           NEW r, r = mask_or(m1, m2, shrink)
    PROVE  Shows(r, on, n, h)
  <1>1. Hides(m1, n, h1) /\ Hides(m2, n, h2)
    BY ShowsHides
  <1>2. Held(r, on, r.bits) /\ Hides(r, n, h)
    <2>1. Held(m1, on, m1.bits) /\ Held(m2, on, m2.bits)
      BY DEF Shows
    <2>2. QED
      BY <1>1, <2>1, MaskOr
  <1>3. r = nomask \/ Len(r.cells) = n
    <2>1. CASE r = nomask \/ r = m1 \/ r = m2
      BY <2>1 DEF Shows
    <2>2. CASE ~(r = nomask \/ r = m1 \/ r = m2)
      <3>1. PICK s, t : s = m1.bits /\ t = m2.bits
        OBVIOUS
      <3>2. r = Fresh(Or(s, t)) /\ m1 # nomask /\ m2 # nomask
        BY <2>2, <3>1 DEF mask_or, make_mask
      <3>3. s \in Seq(BOOLEAN) /\ t \in Seq(BOOLEAN) /\ Len(s) = n /\ Len(t) = n
        BY <3>1, <3>2 DEF Shows, Held
      <3>4. PICK u : u = Or(s, t)
        OBVIOUS
      <3>5. u = [i \in 1..n |-> Broadcast(s, n)[i] \/ Broadcast(t, n)[i]]
        BY <3>3, <3>4 DEF Or, Zip
      <3>6. u \in Seq(BOOLEAN) /\ Len(u) = n
        BY <3>5
      <3>7. QED
        BY <3>2, <3>4, <3>6, FreshHeld
    <2>3. QED
      BY <2>1, <2>2
  <1>4. QED
    BY <1>2, <1>3, HidesShows

LEMMA MakeMaskShows ==
    ASSUME NEW on, NEW n \in Nat, NEW m, NEW h \in [1..n -> BOOLEAN], Shows(m, on, n, h),
           NEW shrink \in BOOLEAN, NEW r, r = make_mask(m, shrink)
    PROVE  Shows(r, on, n, h)
  <1>1. Hides(m, n, h)
    BY ShowsHides
  <1>2. Held(r, on, r.bits) /\ Hides(r, n, h) /\ (r = m \/ r = nomask)
    BY <1>1, MakeMask DEF Shows
  <1>3. QED
    BY <1>2, HidesShows DEF Shows

LEMMA OneOperand ==
    ASSUME NEW a \in Objs, Sound(a)
    PROVE  On(a, <<a>>) /\ \A i \in DOMAIN <<a>> : <<a>>[i] \in Objs /\ Sound(<<a>>[i])
  BY DEF On

LEMMA TwoOperands ==
    ASSUME NEW a \in Objs, NEW b \in Objs, Sound(a), Sound(b)
    PROVE  /\ On(a, <<a, b>>) /\ On(b, <<a, b>>)
           /\ \A i \in DOMAIN <<a, b>> : <<a, b>>[i] \in Objs /\ Sound(<<a, b>>[i])
  <1>1. DOMAIN <<a, b>> = {1, 2} /\ <<a, b>>[1] = a /\ <<a, b>>[2] = b
    OBVIOUS
  <1>2. QED
    BY <1>1 DEF On

LEMMA Fillings ==
    ASSUME Inv, NEW a \in Objs, Live(a)
    PROVE  /\ obj[a].fill \in Value \cup {Unset} /\ FillValue(a) \in Value
           /\ Default \in Value /\ Unset \in Value \cup {Unset}
  BY LiveRecord, MaskedAssumption DEF FillValue

\* What the abstract calls compute, one by one.
LEMMA ResultCopy ==
    ASSUME NEW w, NEW on
    PROVE  Optional!Result([op |-> "copy", on |-> on, by |-> w])
             = {[i \in DOMAIN valBar[on[1]] |-> IF w[i] THEN Masked ELSE valBar[on[1]][i]]}
  BY DEF Optional!Result

LEMMA ResultWhere ==
    ASSUME NEW w, NEW on
    PROVE  Optional!Result([op |-> "where", on |-> on, by |-> w])
             = {[i \in DOMAIN valBar[on[1]] |-> IF w[i] THEN Masked ELSE valBar[on[1]][i]]}
  BY DEF Optional!Result

WrapOf(s, w, u) ==
    /\ u \in [DOMAIN s -> Value \cup {Masked}]
    /\ \A i \in DOMAIN s : IF w[i] THEN u[i] = Masked
                           ELSE u[i] \in IF s[i] = Masked THEN Value ELSE {s[i]}

LEMMA ResultWrap ==
    ASSUME NEW w, NEW on, NEW u, WrapOf(valBar[on[1]], w, u)
    PROVE  u \in Optional!Result([op |-> "wrap", on |-> on, by |-> w])
  <1>1. Optional!Result([op |-> "wrap", on |-> on, by |-> w])
          = {v \in [DOMAIN valBar[on[1]] -> Value \cup {Masked}] :
               \A i \in DOMAIN valBar[on[1]] :
                  IF w[i] THEN v[i] = Masked
                  ELSE v[i] \in IF valBar[on[1]][i] = Masked THEN Value
                                ELSE {valBar[on[1]][i]}}
    BY DEF Optional!Result
  <1>2. QED
    BY <1>1 DEF WrapOf

LEMMA ResultSelect ==
    ASSUME NEW a, NEW w
    PROVE  Optional!Result([op |-> "select", on |-> <<a>>, by |-> w])
             = {[i \in DOMAIN w |-> valBar[a][w[i]]]}
  BY DEF Optional!Result

LEMMA ResultUnary ==
    ASSUME NEW a, NEW w
    PROVE  Optional!Result([op |-> "unary", on |-> <<a>>, by |-> w])
             = {[i \in DOMAIN valBar[a] |-> IF valBar[a][i] = Masked THEN Masked
                                            ELSE w[valBar[a][i]]]}
  BY DEF Optional!Result, Optional!Lift

LEMMA ResultDomained ==
    ASSUME NEW a, NEW w
    PROVE  Optional!Result([op |-> "domained", on |-> <<a>>, by |-> w])
             = {[i \in DOMAIN valBar[a] |->
                   IF valBar[a][i] = Masked THEN Masked
                   ELSE IF ~w.dom[valBar[a][i]] /\ w.fn[valBar[a][i]] \in Finite
                        THEN w.fn[valBar[a][i]] ELSE Masked]}
  BY DEF Optional!Result, Optional!Lift, Optional!Within

LEMMA ResultTest ==
    ASSUME NEW a, NEW w
    PROVE  Optional!Result([op |-> "test", on |-> <<a>>, by |-> w])
             = {[i \in DOMAIN valBar[a] |->
                   IF valBar[a][i] = Masked THEN Masked
                   ELSE IF w[valBar[a][i]] THEN Masked ELSE valBar[a][i]]}
  BY DEF Optional!Result, Optional!Lift

LEMMA ResultFilled ==
    ASSUME NEW a, NEW w
    PROVE  Optional!Result([op |-> "filled", on |-> <<a>>, by |-> w])
             = {[i \in DOMAIN valBar[a] |-> IF valBar[a][i] = Masked THEN w ELSE valBar[a][i]]}
  BY DEF Optional!Result, Optional!Filled

LEMMA ResultValues ==
    ASSUME NEW a, NEW w
    PROVE  Optional!Result([op |-> "values", on |-> <<a>>, by |-> w])
             = {[i \in DOMAIN valBar[a] |-> IF Eq[Optional!Filled(valBar[a], w)[i]][w] THEN Masked
                                            ELSE Optional!Filled(valBar[a], w)[i]]}
  BY DEF Optional!Result

LEMMA ResultConcat ==
    ASSUME NEW a, NEW b, NEW w
    PROVE  Optional!Result([op |-> "concat", on |-> <<a, b>>, by |-> w])
             = {valBar[a] \o valBar[b]}
  BY DEF Optional!Result

\* Elements computed one by one, under the mask of the operand.
LEMMA UnaryStep ==
    ASSUME Inv, calls < MaxCalls, NEW o \in Objs, NEW a \in Objs, Sound(a), NEW f \in UnaryFns,
           Unary(o, a, f) \/ UnaryDunder(o, a, f)
    PROVE  Good
  <1>1. PICK n \in Nat : \E x \in [1..n -> Value], h \in [1..n -> BOOLEAN] : Elems(a, n, x, h)
    BY SoundElems
  <1>2. PICK x \in [1..n -> Value], h \in [1..n -> BOOLEAN] : Elems(a, n, x, h)
    BY <1>1
  <1>3. Live(a) /\ Len(x) = n /\ Data(a) = x
    BY <1>2 DEF Sound, Elems
  <1>4. f \in [Value -> Value]
    BY MaskedAssumption
  <1>6. Optional!Result([op |-> "unary", on |-> <<a>>, by |-> f])
          = {[i \in 1..n |-> IF h[i] THEN Masked ELSE f[x[i]]]}
    <2>1. PICK w : w = valBar[a] /\ w = [i \in 1..n |-> IF h[i] THEN Masked ELSE x[i]]
      BY <1>2 DEF Elems
    <2>2. Optional!Result([op |-> "unary", on |-> <<a>>, by |-> f])
            = {[i \in DOMAIN valBar[a] |-> IF valBar[a][i] = Masked THEN Masked
                                           ELSE f[valBar[a][i]]]}
      BY ResultUnary
    <2>3. \A i \in 1..n : x[i] # Masked
      BY MaskedAssumption
    <2>4. [i \in DOMAIN valBar[a] |-> IF valBar[a][i] = Masked THEN Masked
                                      ELSE f[valBar[a][i]]]
          = [i \in 1..n |-> IF h[i] THEN Masked ELSE f[x[i]]]
      BY <2>1, <2>3
    <2>5. QED
      BY <2>2, <2>4
  <1>7. PICK y, m : /\ Create(o, FreshData(o, y), m, obj[a].fill) /\ Call("unary", <<a>>, f)
                    /\ \/ y = Revert(a, Map(f, Data(a))) /\ m = Mask(a)
                       \/ y = Map(f, Data(a)) /\ m = getmaskarray(a)
    BY DEF Unary, UnaryDunder
  <1>8. y \in [1..n -> Value] /\ \A i \in 1..n : ~h[i] => y[i] = f[x[i]]
    <2>1. PICK z : z = Map(f, x)
      OBVIOUS
    <2>2. z = [i \in 1..n |-> f[x[i]]] /\ z \in [1..n -> Value]
      BY <1>4, <2>1 DEF Map
    <2>3. CASE y = Map(f, Data(a))
      BY <1>3, <2>1, <2>2, <2>3
    <2>4. CASE y = Revert(a, Map(f, Data(a)))
      <3>1. y = IF HasMask(a) THEN Where(h, x, z) ELSE z
        BY <1>2, <1>3, <2>1, <2>4 DEF Revert, Elems
      <3>2. Where(h, x, z) = [i \in 1..n |-> IF h[i] THEN x[i] ELSE z[i]]
        <4>1. Len(z) = n /\ Len(h) = n
          BY <2>2
        <4>2. QED
          BY <1>3, <2>2, <4>1 DEF Where, Broadcast
      <3>3. QED
        BY <2>2, <3>1, <3>2
    <2>5. QED
      BY <1>7, <2>3, <2>4
  <1>9. Shows(m, <<a>>, n, h)
    BY <1>2, <1>3, <1>7, OneOperand, OwnMask, AnyMask
  <1>10. [i \in 1..n |-> IF h[i] THEN Masked ELSE y[i]]
           \in Optional!Result([op |-> "unary", on |-> <<a>>, by |-> f])
    <2>1. [i \in 1..n |-> IF h[i] THEN Masked ELSE y[i]]
          = [i \in 1..n |-> IF h[i] THEN Masked ELSE f[x[i]]]
      BY <1>8
    <2>2. QED
      BY <1>6, <2>1
  <1>11. Source(o, FreshData(o, y), <<a>>, n, y)
    BY <1>8, FreshSource
  <1>12. PICK d, fill : /\ d = FreshData(o, y) /\ fill = obj[a].fill
                        /\ Create(o, d, m, fill)
    BY <1>7
  <1>13. QED
    <2>1. fill \in Value \cup {Unset}
      BY <1>3, <1>12, Fillings
    <2>2. Computes(o, d, m, fill, "unary", <<a>>, f, n, y, h)
      BY <1>7, <1>8, <1>9, <1>10, <1>11, <1>12, <2>1, OneOperand DEF Computes, Shows
    <2>3. QED
      BY <2>2, CallStep

\* What the steps below use of an operand.
Seen(a, n, x, h) ==
    /\ Elems(a, n, x, h) /\ Live(a) /\ Data(a) = x /\ Len(x) = n
    /\ DOMAIN valBar[a] = 1..n
    /\ \A i \in 1..n : x[i] # Masked /\ valBar[a][i] = IF h[i] THEN Masked ELSE x[i]

LEMMA Operand ==
    ASSUME Inv, NEW a \in Objs, Sound(a)
    PROVE  \E n \in Nat : \E x \in [1..n -> Value], h \in [1..n -> BOOLEAN] :
              /\ Elems(a, n, x, h) /\ Live(a) /\ Data(a) = x /\ Len(x) = n
              /\ DOMAIN valBar[a] = 1..n
              /\ \A i \in 1..n : x[i] # Masked /\ valBar[a][i] = IF h[i] THEN Masked ELSE x[i]
  <1>1. PICK n \in Nat : \E x \in [1..n -> Value], h \in [1..n -> BOOLEAN] : Elems(a, n, x, h)
    BY SoundElems
  <1>2. PICK x \in [1..n -> Value], h \in [1..n -> BOOLEAN] : Elems(a, n, x, h)
    BY <1>1
  <1>3. PICK w : w = valBar[a] /\ w = [i \in 1..n |-> IF h[i] THEN Masked ELSE x[i]]
    BY <1>2 DEF Elems
  <1>4. \A i \in 1..n : x[i] # Masked
    BY MaskedAssumption
  <1>5. Live(a) /\ Len(x) = n /\ Data(a) = x
    BY <1>2 DEF Sound, Elems
  <1>6. DOMAIN valBar[a] = 1..n
        /\ \A i \in 1..n : x[i] # Masked /\ valBar[a][i] = IF h[i] THEN Masked ELSE x[i]
    BY <1>3, <1>4
  <1>7. QED
    BY <1>2, <1>5, <1>6

\* masked_array(a) and the copies: the same elements, in the same or in fresh memory.
LEMMA CopyStep ==
    ASSUME Inv, calls < MaxCalls, NEW o \in Objs, NEW a \in Objs, Sound(a),
           Rewrap(o, a) \/ Copy(o, a)
    PROVE  Good
  <1>1. PICK n \in Nat : \E x \in [1..n -> Value], h \in [1..n -> BOOLEAN] :
              /\ Elems(a, n, x, h) /\ Live(a) /\ Data(a) = x /\ Len(x) = n
              /\ DOMAIN valBar[a] = 1..n
              /\ \A i \in 1..n : x[i] # Masked /\ valBar[a][i] = IF h[i] THEN Masked ELSE x[i]
    BY Operand
  <1>2. PICK x \in [1..n -> Value], h \in [1..n -> BOOLEAN] :
              /\ Elems(a, n, x, h) /\ Live(a) /\ Data(a) = x /\ Len(x) = n
              /\ DOMAIN valBar[a] = 1..n
              /\ \A i \in 1..n : x[i] # Masked /\ valBar[a][i] = IF h[i] THEN Masked ELSE x[i]
    BY <1>1
  <1>3. PICK w : w = Constant(Data(a), FALSE) /\ w = [i \in 1..n |-> FALSE]
    BY <1>2 DEF Constant
  <1>4. [i \in 1..n |-> IF h[i] THEN Masked ELSE x[i]]
           \in Optional!Result([op |-> "copy", on |-> <<a>>, by |-> w])
    <2>1. Optional!Result([op |-> "copy", on |-> <<a>>, by |-> w])
            = {[i \in DOMAIN valBar[a] |-> IF w[i] THEN Masked ELSE valBar[a][i]]}
      <3>1. PICK on : on = <<a>>
        OBVIOUS
      <3>2. Optional!Result([op |-> "copy", on |-> on, by |-> w])
              = {[i \in DOMAIN valBar[on[1]] |-> IF w[i] THEN Masked ELSE valBar[on[1]][i]]}
        BY ResultCopy
      <3>3. on[1] = a
        BY <3>1
      <3>4. QED
        BY <3>1, <3>2, <3>3
    <2>2. [i \in DOMAIN valBar[a] |-> IF w[i] THEN Masked ELSE valBar[a][i]]
          = [i \in 1..n |-> IF h[i] THEN Masked ELSE x[i]]
      BY <1>2, <1>3
    <2>3. QED
      BY <2>1, <2>2
  <1>5. PICK d, m, fill : /\ Create(o, d, m, fill) /\ Call("copy", <<a>>, w)
                          /\ fill \in Value \cup {Unset}
                          /\ d = SameData(a) \/ d = FreshData(o, x)
                          /\ m = Mask(a) \/ m = IF HasMask(a) THEN Fresh(Mask(a).bits) ELSE nomask
    <2>1. obj[a].fill \in Value \cup {Unset} /\ FillValue(a) \in Value
      BY <1>2, Fillings
    <2>2. CASE Rewrap(o, a)
      BY <1>2, <1>3, <2>1, <2>2 DEF Rewrap
    <2>3. CASE Copy(o, a)
      <3>1. PICK m : m = IF HasMask(a) THEN Fresh(Mask(a).bits) ELSE nomask
        OBVIOUS
      <3>2. PICK f \in {obj[a].fill, FillValue(a)} :
               Create(o, FreshData(o, x), m, f) /\ Call("copy", <<a>>, w)
        BY <1>2, <1>3, <2>3, <3>1 DEF Copy
      <3>3. f \in Value \cup {Unset}
        BY <2>1
      <3>4. QED
        BY <3>1, <3>2, <3>3
    <2>4. QED
      BY <2>2, <2>3
  <1>6. Source(o, d, <<a>>, n, x)
    BY <1>2, <1>5, OneOperand, SameSource, FreshSource
  <1>7. Shows(m, <<a>>, n, h)
    <2>1. CASE m = Mask(a)
      BY <1>2, <2>1, OneOperand, OwnMask
    <2>2. CASE m = Fresh(h)
      BY <2>2, FreshMask
    <2>3. CASE m = nomask /\ ~HasMask(a)
      BY <1>2, <2>3, NoMaskShows DEF Elems
    <2>4. QED
      BY <1>2, <1>5, <2>1, <2>2, <2>3 DEF Elems
  <1>8. Computes(o, d, m, fill, "copy", <<a>>, w, n, x, h)
    BY <1>4, <1>5, <1>6, <1>7, OneOperand DEF Computes, Shows
  <1>9. QED
    BY <1>8, CallStep

\* Slices as views and gathered copies: the positions of a slice are all different.
LEMMA SliceInjective ==
    ASSUME NEW n \in Nat, NEW s \in Slices(n)
    PROVE  \E m \in 1..n : s \in [1..m -> 1..n] /\ DOMAIN s = 1..m /\ Injective(s)
  <1>1. PICK m \in 1..n : s \in [1..m -> 1..n]
    BY SliceFacts
  <1>2. PICK step \in (-n..n) \ {0} : \A i \in DOMAIN s : s[i] = s[1] + (i - 1) * step
    BY DEF Slices
  <1>3. DOMAIN s = 1..m
    BY <1>1
  <1>4. ASSUME NEW i \in 1..m, NEW j \in 1..m, s[i] = s[j], i # j
        PROVE  FALSE
    <2>1. s[1] \in Int /\ i \in Int /\ j \in Int /\ step \in Int /\ step # 0
      BY <1>1, <1>2
    <2>2. s[1] + (i - 1) * step = s[1] + (j - 1) * step
      BY <1>2, <1>3, <1>4
    <2>3. PICK p \in Int, q \in Int : p = (i - 1) * step /\ q = (j - 1) * step
      BY <2>1
    <2>4. p = q
      BY <2>1, <2>2, <2>3
    <2>5. (i - j) * step = 0
      BY <2>1, <2>3, <2>4
    <2>6. \A k \in Int : k # 0 => k * step # 0
      BY <2>1
    <2>7. QED
      BY <1>4, <2>1, <2>5, <2>6
  <1>5. QED
    BY <1>1, <1>3, <1>4 DEF Injective

\* A view has the cells of its operand that the slice picks.
LEMMA PickedSource ==
    ASSUME Inv, NEW o \in Objs, NEW a \in Objs, Live(a), NEW on, On(a, on), NEW n \in Nat,
           NEW x \in [1..n -> Value], NEW h, Elems(a, n, x, h), NEW k \in 1..n,
           NEW pick \in [1..k -> 1..n], Injective(pick), NEW d,
           d = [buf |-> obj[a].buf, cells |-> Gather(obj[a].cells, pick)]
    PROVE  Source(o, d, on, k, Gather(x, pick))
  <1>1. PICK w, c : c = obj[a].cells /\ w = data[obj[a].buf]
    OBVIOUS
  <1>2. c \in [1..n -> Nat] /\ Injective(c) /\ \A i \in 1..n : c[i] \in DOMAIN w
    <2>1. c \in Seq(Nat) /\ Len(c) = n /\ Injective(c) /\ \A i \in DOMAIN c : c[i] \in DOMAIN w
      BY <1>1, LiveRecord DEF Elems, Inv, MemInv
    <2>2. DOMAIN c = 1..n /\ c \in [DOMAIN c -> Nat]
      BY <2>1
    <2>3. QED
      BY <2>1, <2>2
  <1>3. \A i \in 1..n : x[i] = w[c[i]]
    <2>1. x = [i \in DOMAIN c |-> w[c[i]]]
      BY <1>1 DEF Elems, Data, DataIn
    <2>2. QED
      BY <1>2, <2>1
  <1>4. d.cells = [i \in 1..k |-> c[pick[i]]] /\ Gather(x, pick) = [i \in 1..k |-> x[pick[i]]]
        /\ d.buf = obj[a].buf
    BY <1>1 DEF Gather
  <1>5. d.cells \in [1..k -> Nat]
    BY <1>2, <1>4
  <1>6. Injective(d.cells)
    BY <1>2, <1>4 DEF Injective
  <1>7. \A i \in 1..k : /\ d.cells[i] \in DOMAIN data[d.buf]
                        /\ data[d.buf][d.cells[i]] = Gather(x, pick)[i]
    <2> TAKE i \in 1..k
    <2>1. pick[i] \in 1..n /\ d.cells[i] = c[pick[i]] /\ Gather(x, pick)[i] = x[pick[i]]
      BY <1>4
    <2>2. c[pick[i]] \in DOMAIN w /\ x[pick[i]] = w[c[pick[i]]]
      BY <1>2, <1>3, <2>1
    <2>3. data[d.buf] = w
      BY <1>1, <1>4
    <2>4. QED
      BY <2>1, <2>2, <2>3
  <1>8. QED
    BY <1>4, <1>5, <1>6, <1>7 DEF Source

\* ... and so has its mask.
LEMMA PickedMask ==
    ASSUME Inv, NEW a \in Objs, Live(a), HasMask(a), NEW on, On(a, on), NEW n \in Nat,
           NEW x, NEW h \in [1..n -> BOOLEAN], Elems(a, n, x, h), NEW k \in 1..n,
           NEW pick \in [1..k -> 1..n], Injective(pick), NEW m,
           m = [Mask(a) EXCEPT !.cells = Gather(@, pick), !.bits = Gather(@, pick)]
    PROVE  Shows(m, on, k, Gather(h, pick))
  <1>1. PICK w, c : c = obj[a].mcells /\ w = bits[obj[a].mbuf]
    OBVIOUS
  <1>2. c \in [1..n -> Nat] /\ Injective(c) /\ w \in Seq(BOOLEAN)
        /\ \A i \in 1..n : c[i] \in DOMAIN w
    <2>1. c \in Seq(Nat) /\ Len(c) = n /\ Injective(c) /\ \A i \in DOMAIN c : c[i] \in DOMAIN w
          /\ w \in Seq(BOOLEAN)
      BY <1>1, LiveRecord DEF Elems, Inv, MemInv
    <2>2. DOMAIN c = 1..n /\ c \in [DOMAIN c -> Nat]
      BY <2>1
    <2>3. QED
      BY <2>1, <2>2
  <1>3. h = [i \in 1..n |-> w[c[i]]] /\ Mask(a).bits = h /\ Mask(a).cells = c
        /\ Mask(a).buf = obj[a].mbuf
    <2>1. Mask(a) = [buf |-> obj[a].mbuf, cells |-> c, bits |-> [i \in DOMAIN c |-> w[c[i]]]]
      BY <1>1 DEF Mask
    <2>2. Mask(a).bits = h
      BY DEF Elems
    <2>3. QED
      BY <1>2, <2>1, <2>2
  <1>4. PICK g : g = Gather(h, pick) /\ g = [i \in 1..k |-> h[pick[i]]]
    BY DEF Gather
  <1>5. PICK e : e = [i \in 1..k |-> c[pick[i]]]
    OBVIOUS
  <1>6. m.buf = obj[a].mbuf /\ m.cells = e /\ m.bits = g
    <2>1. Gather(c, pick) = e
      BY <1>5 DEF Gather
    <2>2. PICK q : q = Mask(a)
      OBVIOUS
    <2>3. q = [buf |-> obj[a].mbuf, cells |-> c, bits |-> h]
      BY <1>1, <1>3, <2>2 DEF Mask
    <2>4. m = [q EXCEPT !.cells = Gather(c, pick), !.bits = Gather(h, pick)]
      BY <1>3, <2>2
    <2>5. PICK r : r = [buf |-> obj[a].mbuf, cells |-> e, bits |-> g]
      OBVIOUS
    <2>6. r.buf = obj[a].mbuf /\ r.cells = e /\ r.bits = g
      BY <2>5, Zenon
    <2>7. m = r
      BY <1>4, <2>1, <2>3, <2>4, <2>5
    <2>8. QED
      BY <2>6, <2>7, Zenon
  <1>7. \A i \in 1..k : pick[i] \in 1..n /\ e[i] = c[pick[i]] /\ g[i] = h[pick[i]]
    BY <1>4, <1>5
  <1>8. e \in [1..k -> Nat] /\ e \in Seq(Nat) /\ Len(e) = k /\ DOMAIN e = 1..k
    BY <1>2, <1>5, <1>7
  <1>9. Injective(e)
    BY <1>2, <1>7, <1>8 DEF Injective
  <1>10. m.buf \in Buffers /\ m.buf # NoMask /\ m.buf \notin Unused
    BY <1>6, LiveRecord DEF HasMask, Unused
  <1>11. Allocated(m)[m.buf] = w
    BY <1>1, <1>6, <1>10 DEF Allocated
  <1>12. g \in [1..k -> BOOLEAN]
    BY <1>4, <1>7
  <1>13. \A i \in 1..k : e[i] \in DOMAIN w /\ w[e[i]] = g[i]
    <2> TAKE i \in 1..k
    <2>1. \A j \in 1..n : h[j] = w[c[j]] /\ c[j] \in DOMAIN w
      BY <1>2, <1>3
    <2>2. QED
      BY <1>7, <2>1, Zenon
  <1>14. Held(m, on, g)
    BY <1>6, <1>8, <1>9, <1>10, <1>11, <1>12, <1>13 DEF Held
  <1>15. m # nomask
    BY <1>10 DEF nomask
  <1>16. QED
    BY <1>4, <1>6, <1>8, <1>12, <1>14, <1>15 DEF Shows

LEMMA SelectStep ==
    ASSUME Inv, calls < MaxCalls, NEW o \in Objs, NEW a \in Objs, Sound(a),
           NEW pick \in Slices(Len(Data(a))), View(o, a, pick) \/ Take(o, a, pick)
    PROVE  Good
  <1>1. PICK n \in Nat : \E x \in [1..n -> Value], h \in [1..n -> BOOLEAN] :
              /\ Elems(a, n, x, h) /\ Live(a) /\ Data(a) = x /\ Len(x) = n
              /\ DOMAIN valBar[a] = 1..n
              /\ \A i \in 1..n : x[i] # Masked /\ valBar[a][i] = IF h[i] THEN Masked ELSE x[i]
    BY Operand
  <1>2. PICK x \in [1..n -> Value], h \in [1..n -> BOOLEAN] :
              /\ Elems(a, n, x, h) /\ Live(a) /\ Data(a) = x /\ Len(x) = n
              /\ DOMAIN valBar[a] = 1..n
              /\ \A i \in 1..n : x[i] # Masked /\ valBar[a][i] = IF h[i] THEN Masked ELSE x[i]
    BY <1>1
  <1>3. PICK k \in 1..n : pick \in [1..k -> 1..n] /\ DOMAIN pick = 1..k /\ Injective(pick)
    BY <1>2, SliceInjective
  <1>4. PICK y, g : y = Gather(x, pick) /\ g = Gather(h, pick)
    OBVIOUS
  <1>5. y = [i \in 1..k |-> x[pick[i]]] /\ g = [i \in 1..k |-> h[pick[i]]]
        /\ y \in [1..k -> Value] /\ g \in [1..k -> BOOLEAN] /\ k \in Nat
    BY <1>3, <1>4 DEF Gather
  <1>6. [i \in 1..k |-> IF g[i] THEN Masked ELSE y[i]]
           \in Optional!Result([op |-> "select", on |-> <<a>>, by |-> pick])
    <2>1. Optional!Result([op |-> "select", on |-> <<a>>, by |-> pick])
            = {[i \in DOMAIN pick |-> valBar[a][pick[i]]]}
      BY ResultSelect
    <2>2. [i \in DOMAIN pick |-> valBar[a][pick[i]]]
          = [i \in 1..k |-> IF g[i] THEN Masked ELSE y[i]]
      BY <1>2, <1>3, <1>5
    <2>3. QED
      BY <2>1, <2>2
  <1>7. obj[a].fill \in Value \cup {Unset} /\ FillValue(a) \in Value /\ Default \in Value
    BY <1>2, Fillings
  <1>8. PICK dv : dv = [buf |-> obj[a].buf, cells |-> Gather(obj[a].cells, pick)]
    OBVIOUS
  <1>9. PICK mv : mv = IF HasMask(a)
                       THEN [Mask(a) EXCEPT !.cells = Gather(@, pick), !.bits = Gather(@, pick)]
                       ELSE nomask
    OBVIOUS
  <1>10. PICK mt : mt = IF HasMask(a) THEN Fresh(Gather(Mask(a).bits, pick)) ELSE nomask
    OBVIOUS
  <1>11. PICK d, m, fill : /\ Create(o, d, m, fill) /\ Call("select", <<a>>, pick)
                           /\ fill \in Value \cup {Unset}
                           /\ \/ d = dv /\ m = mv
                              \/ d = FreshData(o, y) /\ m = mt
    <2>1. CASE View(o, a, pick)
      <3>1. PICK f \in {obj[a].fill, FillValue(a)} :
               Create(o, dv, mv, f) /\ Call("select", <<a>>, pick)
        BY <1>8, <1>9, <2>1 DEF View
      <3>2. f \in Value \cup {Unset}
        BY <1>7
      <3>3. QED
        BY <3>1, <3>2
    <2>2. CASE Take(o, a, pick)
      <3>1. PICK f \in {obj[a].fill, FillValue(a), Default} :
               Create(o, FreshData(o, y), mt, f) /\ Call("select", <<a>>, pick)
        BY <1>2, <1>4, <1>10, <2>2 DEF Take
      <3>2. f \in Value \cup {Unset}
        BY <1>7
      <3>3. QED
        BY <3>1, <3>2
    <2>3. QED
      BY <2>1, <2>2
  <1>12. Source(o, d, <<a>>, k, y)
    <2>1. CASE d = dv
      BY <1>2, <1>3, <1>4, <1>8, <2>1, OneOperand, PickedSource
    <2>2. CASE d = FreshData(o, y)
      BY <1>5, <2>2, FreshSource
    <2>3. QED
      BY <1>11, <2>1, <2>2
  <1>13. Shows(m, <<a>>, k, g)
    <2>1. CASE HasMask(a) /\ m = mv
      BY <1>2, <1>3, <1>4, <1>9, <2>1, OneOperand, PickedMask
    <2>2. CASE HasMask(a) /\ m = mt
      <3>1. Mask(a).bits = h
        BY <1>2, <2>2 DEF Elems
      <3>2. QED
        BY <1>4, <1>5, <1>10, <2>2, <3>1, FreshMask
    <2>3. CASE ~HasMask(a)
      <3>1. m = nomask /\ \A i \in 1..n : ~h[i]
        BY <1>2, <1>9, <1>10, <1>11, <2>3 DEF Elems
      <3>2. \A i \in 1..k : ~g[i]
        BY <1>3, <1>5, <3>1
      <3>3. QED
        BY <1>5, <3>1, <3>2, NoMaskShows
    <2>4. QED
      BY <1>11, <2>1, <2>2, <2>3
  <1>14. Computes(o, d, m, fill, "select", <<a>>, pick, k, y, g)
    BY <1>5, <1>6, <1>11, <1>12, <1>13, OneOperand DEF Computes, Shows
  <1>15. QED
    BY <1>14, CallStep

\* The element-wise helpers on arguments of one length.
LEMMA WhereSame ==
    ASSUME NEW n \in Nat, NEW s \in [1..n -> BOOLEAN],
           NEW x \in [1..n -> Value], NEW y \in [1..n -> Value]
    PROVE  Where(s, x, y) = [i \in 1..n |-> IF s[i] THEN x[i] ELSE y[i]]
  <1>1. Len(s) = n /\ Len(x) = n /\ Len(y) = n /\ DOMAIN y = 1..n
    OBVIOUS
  <1>2. QED
    BY <1>1 DEF Where, Broadcast

LEMMA OrSame ==
    ASSUME NEW n \in Nat, NEW s \in [1..n -> BOOLEAN], NEW t \in [1..n -> BOOLEAN]
    PROVE  Or(s, t) = [i \in 1..n |-> s[i] \/ t[i]]
  <1>1. Len(s) = n /\ Len(t) = n
    OBVIOUS
  <1>2. PICK k : k = IF Len(s) = 1 THEN Len(t) ELSE Len(s)
    OBVIOUS
  <1>3. k = n
    BY <1>1, <1>2
  <1>4. Or(s, t) = [i \in 1..k |-> Broadcast(s, k)[i] \/ Broadcast(t, k)[i]]
    BY <1>2 DEF Or, Zip
  <1>5. \A i \in 1..n : Broadcast(s, n)[i] = s[i] /\ Broadcast(t, n)[i] = t[i]
    BY <1>1 DEF Broadcast
  <1>6. QED
    BY <1>3, <1>4, <1>5

LEMMA FilledIs ==
    ASSUME NEW a \in Objs, NEW n \in Nat, NEW x \in [1..n -> Value], NEW h \in [1..n -> BOOLEAN],
           Elems(a, n, x, h), Data(a) = x, NEW v \in Value
    PROVE  filled(a, v) = [i \in 1..n |-> IF h[i] THEN v ELSE x[i]]
  <1>1. PICK c : c = Constant(x, v) /\ c = [i \in 1..n |-> v]
    BY DEF Constant
  <1>2. CASE HasMask(a)
    <2>1. filled(a, v) = Where(h, c, x)
      BY <1>1, <1>2 DEF filled, Elems
    <2>2. c \in [1..n -> Value]
      BY <1>1
    <2>3. Where(h, c, x) = [i \in 1..n |-> IF h[i] THEN c[i] ELSE x[i]]
      BY <2>2, WhereSame
    <2>4. QED
      BY <1>1, <2>1, <2>3
  <1>3. CASE ~HasMask(a)
    BY <1>3 DEF filled, Elems
  <1>4. QED
    BY <1>2, <1>3

LEMMA FilledStep ==
    ASSUME Inv, calls < MaxCalls, NEW o \in Objs, NEW a \in Objs, Sound(a), NEW v \in Fills,
           Filled(o, a, v) \/ masked_values(o, a, v)
    PROVE  Good
  <1>1. PICK n \in Nat : \E x \in [1..n -> Value], h \in [1..n -> BOOLEAN] :
              /\ Elems(a, n, x, h) /\ Live(a) /\ Data(a) = x /\ Len(x) = n
              /\ DOMAIN valBar[a] = 1..n
              /\ \A i \in 1..n : x[i] # Masked /\ valBar[a][i] = IF h[i] THEN Masked ELSE x[i]
    BY Operand
  <1>2. PICK x \in [1..n -> Value], h \in [1..n -> BOOLEAN] :
              /\ Elems(a, n, x, h) /\ Live(a) /\ Data(a) = x /\ Len(x) = n
              /\ DOMAIN valBar[a] = 1..n
              /\ \A i \in 1..n : x[i] # Masked /\ valBar[a][i] = IF h[i] THEN Masked ELSE x[i]
    BY <1>1
  <1>3. v \in Value /\ Unset \in Value \cup {Unset}
    BY MaskedAssumption
  <1>4. PICK y : y = [i \in 1..n |-> IF h[i] THEN v ELSE x[i]]
    OBVIOUS
  <1>5. filled(a, v) = y /\ y \in [1..n -> Value]
    BY <1>2, <1>3, <1>4, FilledIs
  <1>6. PICK s : s = [i \in DOMAIN valBar[a] |-> IF valBar[a][i] = Masked THEN v ELSE valBar[a][i]]
    OBVIOUS
  <1>7. s = y
    BY <1>2, <1>4, <1>6
  <1>8. PICK d : d = FreshData(o, y)
    OBVIOUS
  <1>9. Source(o, d, <<a>>, n, y)
    BY <1>5, <1>8, FreshSource
  <1>10. CASE Filled(o, a, v)
    <2>1. Create(o, d, nomask, Unset) /\ Call("filled", <<a>>, v)
      BY <1>5, <1>8, <1>10 DEF Filled
    <2>2. PICK none : none = [i \in 1..n |-> FALSE]
      OBVIOUS
    <2>3. Shows(nomask, <<a>>, n, none)
      BY <2>2, NoMaskShows
    <2>4. [i \in 1..n |-> IF none[i] THEN Masked ELSE y[i]]
            \in Optional!Result([op |-> "filled", on |-> <<a>>, by |-> v])
      <3>1. [i \in 1..n |-> IF none[i] THEN Masked ELSE y[i]] = y
        BY <1>5, <2>2
      <3>2. Optional!Result([op |-> "filled", on |-> <<a>>, by |-> v]) = {s}
        BY <1>6, ResultFilled
      <3>3. QED
        BY <1>7, <3>1, <3>2
    <2>5. Computes(o, d, nomask, Unset, "filled", <<a>>, v, n, y, none)
      BY <1>3, <1>5, <1>9, <2>1, <2>3, <2>4, OneOperand DEF Computes, Shows
    <2>6. QED
      BY <2>5, CallStep
  <1>11. CASE masked_values(o, a, v)
    <2>1. PICK g : g = [i \in 1..n |-> Eq[y[i]][v]]
      OBVIOUS
    <2>2. g \in [1..n -> BOOLEAN]
      <3>0. Eq \in [Value -> [Value -> BOOLEAN]]
        BY MaskedAssumption
      <3>1. \A i \in 1..n : Eq[y[i]][v] \in BOOLEAN
        BY <1>3, <1>5, <3>0
      <3>2. QED
        BY <2>1, <3>1
    <2>3. PICK shrink \in BOOLEAN : /\ Create(o, d, make_mask(Fresh(g), shrink), v)
                                    /\ Call("values", <<a>>, v)
      BY <1>5, <1>8, <1>11, <2>1 DEF masked_values
    <2>4. PICK m : m = make_mask(Fresh(g), shrink)
      OBVIOUS
    <2>5. Shows(m, <<a>>, n, g)
      BY <2>2, <2>4, FreshMask, MakeMaskShows
    <2>6. [i \in 1..n |-> IF g[i] THEN Masked ELSE y[i]]
            \in Optional!Result([op |-> "values", on |-> <<a>>, by |-> v])
      <3>1. Optional!Result([op |-> "values", on |-> <<a>>, by |-> v])
              = {[i \in DOMAIN valBar[a] |-> IF Eq[s[i]][v] THEN Masked ELSE s[i]]}
        <4>1. Optional!Filled(valBar[a], v) = s
          BY <1>6 DEF Optional!Filled
        <4>2. QED
          BY <4>1, ResultValues
      <3>2. [i \in DOMAIN valBar[a] |-> IF Eq[s[i]][v] THEN Masked ELSE s[i]]
            = [i \in 1..n |-> IF g[i] THEN Masked ELSE y[i]]
        BY <1>2, <1>7, <2>1
      <3>3. QED
        BY <3>1, <3>2
    <2>7. Computes(o, d, m, v, "values", <<a>>, v, n, y, g)
      BY <1>3, <1>5, <1>9, <2>3, <2>4, <2>5, <2>6, OneOperand DEF Computes, Shows
    <2>8. QED
      BY <2>7, CallStep
  <1>12. QED
    BY <1>10, <1>11

\* Functions with a domain: what lies outside it is hidden.
LEMMA DomainedUnaryStep ==
    ASSUME Inv, calls < MaxCalls, NEW o \in Objs, NEW a \in Objs, Sound(a),
           NEW f \in DomainedUnaryFns, DomainedUnary(o, a, f)
    PROVE  Good
  <1>1. PICK n \in Nat : \E x \in [1..n -> Value], h \in [1..n -> BOOLEAN] :
              /\ Elems(a, n, x, h) /\ Live(a) /\ Data(a) = x /\ Len(x) = n
              /\ DOMAIN valBar[a] = 1..n
              /\ \A i \in 1..n : x[i] # Masked /\ valBar[a][i] = IF h[i] THEN Masked ELSE x[i]
    BY Operand
  <1>2. PICK x \in [1..n -> Value], h \in [1..n -> BOOLEAN] :
              /\ Elems(a, n, x, h) /\ Live(a) /\ Data(a) = x /\ Len(x) = n
              /\ DOMAIN valBar[a] = 1..n
              /\ \A i \in 1..n : x[i] # Masked /\ valBar[a][i] = IF h[i] THEN Masked ELSE x[i]
    BY <1>1
  <1>3. f.fn \in [Value -> Value] /\ f.dom \in [Value -> BOOLEAN]
    BY MaskedAssumption
  <1>4. PICK c : c = [i \in 1..n |-> f.fn[x[i]]]
    OBVIOUS
  <1>5. c \in [1..n -> Value] /\ Map(f.fn, x) = c
    BY <1>2, <1>3, <1>4 DEF Map
  <1>6. PICK out : out = [i \in 1..n |-> c[i] \notin Finite \/ f.dom[x[i]]]
    OBVIOUS
  <1>7. out \in [1..n -> BOOLEAN]
    BY <1>6
  <1>8. PICK g : g = [i \in 1..n |-> out[i] \/ h[i]]
    OBVIOUS
  <1>9. g \in [1..n -> BOOLEAN]
    BY <1>8
  <1>10. PICK bad : bad = IF HasMask(a) THEN Or(out, Mask(a).bits) ELSE out
    OBVIOUS
  <1>11. bad = g
    <2>1. CASE HasMask(a)
      <3>1. Or(out, h) = g
        BY <1>7, <1>8, OrSame
      <3>2. Mask(a).bits = h
        BY <1>2, <2>1 DEF Elems
      <3>3. QED
        BY <1>10, <2>1, <3>1, <3>2
    <2>2. CASE ~HasMask(a)
      <3>1. \A i \in 1..n : ~h[i]
        BY <1>2, <2>2 DEF Elems
      <3>2. \A i \in 1..n : g[i] = out[i]
        BY <1>7, <1>8, <3>1
      <3>3. g = out
        BY <1>7, <1>9, <3>2
      <3>4. QED
        BY <1>10, <2>2, <3>3
    <2>3. QED
      BY <2>1, <2>2
  <1>12. PICK y : y = [i \in 1..n |-> IF g[i] THEN x[i] ELSE c[i]]
    OBVIOUS
  <1>13. y \in [1..n -> Value] /\ Where(g, x, c) = y
    BY <1>5, <1>9, <1>12, WhereSame
  <1>14. PICK d, m, fill : /\ Create(o, d, m, fill) /\ Call("domained", <<a>>, f)
                           /\ d = FreshData(o, y) /\ m = Fresh(g) /\ fill = obj[a].fill
    <2>1. DOMAIN c = 1..n
      BY <1>5
    <2>2. out = [i \in DOMAIN c |-> c[i] \notin Finite \/ f.dom[x[i]]]
      BY <1>6, <2>1
    <2>3. QED
      BY <1>2, <1>5, <1>10, <1>11, <1>13, <2>2 DEF DomainedUnary
  <1>15. [i \in 1..n |-> IF g[i] THEN Masked ELSE y[i]]
            \in Optional!Result([op |-> "domained", on |-> <<a>>, by |-> f])
    <2>1. Optional!Result([op |-> "domained", on |-> <<a>>, by |-> f])
            = {[i \in DOMAIN valBar[a] |->
                  IF valBar[a][i] = Masked THEN Masked
                  ELSE IF ~f.dom[valBar[a][i]] /\ f.fn[valBar[a][i]] \in Finite
                       THEN f.fn[valBar[a][i]] ELSE Masked]}
      BY ResultDomained
    <2>2. [i \in DOMAIN valBar[a] |->
              IF valBar[a][i] = Masked THEN Masked
              ELSE IF ~f.dom[valBar[a][i]] /\ f.fn[valBar[a][i]] \in Finite
                   THEN f.fn[valBar[a][i]] ELSE Masked]
          = [i \in 1..n |-> IF g[i] THEN Masked ELSE y[i]]
      BY <1>2, <1>4, <1>6, <1>8, <1>12
    <2>3. QED
      BY <2>1, <2>2
  <1>16. Source(o, d, <<a>>, n, y) /\ Shows(m, <<a>>, n, g) /\ fill \in Value \cup {Unset}
    BY <1>2, <1>9, <1>13, <1>14, FreshSource, FreshMask, Fillings
  <1>17. Computes(o, d, m, fill, "domained", <<a>>, f, n, y, g)
    BY <1>13, <1>14, <1>15, <1>16, OneOperand DEF Computes, Shows
  <1>18. QED
    BY <1>17, CallStep

-----------------------------------------------------------------------------
(* masked_where and its family. *)

\* a, with n elements x hidden by h, is hidden also where cond says, which is g.
Widens(o, a, on, n, x, h, g, cond, copied, shrink, fill) ==
    /\ Elems(a, n, x, h) /\ Live(a) /\ Data(a) = x /\ On(a, on) /\ Held(cond, on, cond.bits)
    /\ ~Mismatched => Shows(cond, on, n, g)
    /\ MaskedWhereImpl(o, a, cond, copied, shrink, fill)

Widened(o, on, n, x, w, fill) ==
    \E d, m : /\ Create(o, d, m, fill) /\ Source(o, d, on, n, x) /\ Held(m, on, m.bits)
              /\ ~Mismatched => Shows(m, on, n, w)

LEMMA WidenMask ==
    ASSUME Inv, NEW o \in Objs, NEW a \in Objs, NEW on, NEW n \in Nat, NEW x \in [1..n -> Value],
           NEW h \in [1..n -> BOOLEAN], NEW g \in [1..n -> BOOLEAN], NEW cond,
           NEW copied \in BOOLEAN, NEW shrink \in BOOLEAN, NEW fill,
           Widens(o, a, on, n, x, h, g, cond, copied, shrink, fill),
           NEW w \in [1..n -> BOOLEAN], Joins(w, h, g, n)
    PROVE  Widened(o, on, n, x, w, fill)
  <1>1. /\ Elems(a, n, x, h) /\ Live(a) /\ Data(a) = x /\ On(a, on) /\ Held(cond, on, cond.bits)
        /\ ~Mismatched => Shows(cond, on, n, g)
        /\ MaskedWhereImpl(o, a, cond, copied, shrink, fill)
    BY DEF Widens
  <1>2. PICK d : d = IF copied THEN FreshData(o, x) ELSE SameData(a)
    OBVIOUS
  <1>3. PICK thin \in BOOLEAN : thin = (shrink /\ ~HasMask(a))
    OBVIOUS
  <1>4. PICK m : m = mask_or(Mask(a), cond, thin)
    OBVIOUS
  <1>5. Create(o, d, m, fill)
    BY <1>1, <1>2, <1>3, <1>4 DEF MaskedWhereImpl
  <1>6. Source(o, d, on, n, x)
    BY <1>1, <1>2, SameSource, FreshSource
  <1>7. Shows(Mask(a), on, n, h)
    BY <1>1, OwnMask
  <1>8. Held(Mask(a), on, Mask(a).bits)
    BY <1>7 DEF Shows
  <1>9. Held(m, on, m.bits)
    BY <1>1, <1>4, <1>8, MaskOrHeld
  <1>10. ~Mismatched => Shows(m, on, n, w)
    BY <1>1, <1>4, <1>7, MaskOrShows
  <1>11. QED
    BY <1>5, <1>6, <1>9, <1>10 DEF Widened

LEMMA ComparatorStep ==
    ASSUME Inv, calls < MaxCalls, NEW o \in Objs, NEW a \in Objs, Sound(a),
           NEW p \in Preds, NEW copied \in BOOLEAN, Comparator(o, a, p, copied)
    PROVE  Good
  <1>1. PICK n \in Nat : \E x \in [1..n -> Value], h \in [1..n -> BOOLEAN] :
              /\ Elems(a, n, x, h) /\ Live(a) /\ Data(a) = x /\ Len(x) = n
              /\ DOMAIN valBar[a] = 1..n
              /\ \A i \in 1..n : x[i] # Masked /\ valBar[a][i] = IF h[i] THEN Masked ELSE x[i]
    BY Operand
  <1>2. PICK x \in [1..n -> Value], h \in [1..n -> BOOLEAN] :
              /\ Elems(a, n, x, h) /\ Live(a) /\ Data(a) = x /\ Len(x) = n
              /\ DOMAIN valBar[a] = 1..n
              /\ \A i \in 1..n : x[i] # Masked /\ valBar[a][i] = IF h[i] THEN Masked ELSE x[i]
    BY <1>1
  <1>3. p \in [Value -> BOOLEAN] /\ Fills \subseteq Value
    BY MaskedAssumption
  <1>4. PICK g : g = [i \in 1..n |-> p[x[i]]]
    OBVIOUS
  <1>5. g \in [1..n -> BOOLEAN] /\ Map(p, x) = g
    BY <1>2, <1>3, <1>4 DEF Map
  <1>6. PICK w : w = [i \in 1..n |-> h[i] \/ g[i]]
    OBVIOUS
  <1>7. w \in [1..n -> BOOLEAN] /\ Joins(w, h, g, n)
    BY <1>6 DEF Joins
  <1>8. PICK shrink \in BOOLEAN, fill \in {FillValue(a)} \cup Fills :
           /\ MaskedWhereImpl(o, a, Fresh(g), copied, shrink, fill)
           /\ Call("test", <<a>>, p)
    BY <1>2, <1>5 DEF Comparator
  <1>9. fill \in Value \cup {Unset}
    BY <1>2, <1>3, <1>8, Fillings
  <1>10. Shows(Fresh(g), <<a>>, n, g)
    BY <1>5, FreshMask
  <1>11. Widens(o, a, <<a>>, n, x, h, g, Fresh(g), copied, shrink, fill)
    BY <1>2, <1>8, <1>10, OneOperand DEF Widens, Shows
  <1>12. Widened(o, <<a>>, n, x, w, fill)
    BY <1>5, <1>7, <1>11, WidenMask
  <1>13. PICK d, m : /\ Create(o, d, m, fill) /\ Source(o, d, <<a>>, n, x) /\ Held(m, <<a>>, m.bits)
                     /\ ~Mismatched => Shows(m, <<a>>, n, w)
    BY <1>12 DEF Widened
  <1>14. [i \in 1..n |-> IF w[i] THEN Masked ELSE x[i]]
            \in Optional!Result([op |-> "test", on |-> <<a>>, by |-> p])
    <2>1. Optional!Result([op |-> "test", on |-> <<a>>, by |-> p])
            = {[i \in DOMAIN valBar[a] |->
                  IF valBar[a][i] = Masked THEN Masked
                  ELSE IF p[valBar[a][i]] THEN Masked ELSE valBar[a][i]]}
      BY ResultTest
    <2>2. [i \in DOMAIN valBar[a] |->
              IF valBar[a][i] = Masked THEN Masked
              ELSE IF p[valBar[a][i]] THEN Masked ELSE valBar[a][i]]
          = [i \in 1..n |-> IF w[i] THEN Masked ELSE x[i]]
      BY <1>2, <1>4, <1>6
    <2>3. QED
      BY <2>1, <2>2
  <1>15. Computes(o, d, m, fill, "test", <<a>>, p, n, x, w)
    BY <1>8, <1>9, <1>13, <1>14, OneOperand DEF Computes
  <1>16. QED
    BY <1>15, CallStep

\* cond is a mask for a, of n elements, that hides what g says: that of an operand or
\* one the call allocates.
Condition(a, n, cond, g, on, by) ==
    /\ On(a, on) /\ on[1] = a /\ \A i \in DOMAIN on : on[i] \in Objs /\ Sound(on[i])
    /\ Held(cond, on, cond.bits)
    /\ ~Mismatched => Shows(cond, on, n, g) /\ g = by

LEMMA WhereOn ==
    ASSUME Inv, calls < MaxCalls, NEW o \in Objs, NEW a \in Objs, NEW n \in Nat,
           NEW x \in [1..n -> Value], NEW h \in [1..n -> BOOLEAN],
           Seen(a, n, x, h),
           NEW copied \in BOOLEAN, NEW cond, NEW g \in [1..n -> BOOLEAN], NEW on, NEW by,
           Condition(a, n, cond, g, on, by), NEW fill \in Value \cup {Unset},
           MaskedWhereImpl(o, a, cond, copied, TRUE, fill), Call("where", on, by)
    PROVE  Good
  <1>0. /\ Elems(a, n, x, h) /\ Live(a) /\ Data(a) = x /\ DOMAIN valBar[a] = 1..n
        /\ \A i \in 1..n : x[i] # Masked /\ valBar[a][i] = IF h[i] THEN Masked ELSE x[i]
    BY DEF Seen
  <1>1. /\ On(a, on) /\ \A i \in DOMAIN on : on[i] \in Objs /\ Sound(on[i])
        /\ Held(cond, on, cond.bits)
    BY DEF Condition
  <1>2. on[1] = a
    BY DEF Condition
  <1>3. ~Mismatched => Shows(cond, on, n, g) /\ g = by
    BY DEF Condition
  <1>5. PICK w : w = [i \in 1..n |-> h[i] \/ g[i]]
    OBVIOUS
  <1>6. w \in [1..n -> BOOLEAN] /\ Joins(w, h, g, n)
    BY <1>5 DEF Joins
  <1>7. Widens(o, a, on, n, x, h, g, cond, copied, TRUE, fill)
    BY <1>0, <1>1, <1>3 DEF Widens
  <1>8. Widened(o, on, n, x, w, fill)
    BY <1>6, <1>7, WidenMask
  <1>9. PICK d, m : /\ Create(o, d, m, fill) /\ Source(o, d, on, n, x) /\ Held(m, on, m.bits)
                    /\ ~Mismatched => Shows(m, on, n, w)
    BY <1>8 DEF Widened
  <1>10. ASSUME ~Mismatched
         PROVE  [i \in 1..n |-> IF w[i] THEN Masked ELSE x[i]]
                  \in Optional!Result([op |-> "where", on |-> on, by |-> by])
    <2>1. Optional!Result([op |-> "where", on |-> on, by |-> by])
            = {[i \in DOMAIN valBar[a] |-> IF by[i] THEN Masked ELSE valBar[a][i]]}
      <3>1. Optional!Result([op |-> "where", on |-> on, by |-> by])
              = {[i \in DOMAIN valBar[on[1]] |-> IF by[i] THEN Masked ELSE valBar[on[1]][i]]}
        BY ResultWhere
      <3>2. QED
        BY <1>2, <3>1
    <2>2. g = by
      BY <1>3, <1>10
    <2>3. [i \in DOMAIN valBar[a] |-> IF by[i] THEN Masked ELSE valBar[a][i]]
          = [i \in 1..n |-> IF w[i] THEN Masked ELSE x[i]]
      BY <1>0, <1>5, <2>2
    <2>4. QED
      BY <2>1, <2>3
  <1>11. Computes(o, d, m, fill, "where", on, by, n, x, w)
    BY <1>1, <1>9, <1>10 DEF Computes
  <1>12. QED
    BY <1>11, CallStep

LEMMA WhereStep ==
    ASSUME Inv, calls < MaxCalls, NEW o \in Objs, NEW a \in Objs, NEW b \in Objs,
           Sound(a), Sound(b), NEW copied \in BOOLEAN, masked_where(o, a, b, copied)
    PROVE  Good
  <1>1. PICK n \in Nat : \E x \in [1..n -> Value], h \in [1..n -> BOOLEAN] :
              /\ Elems(a, n, x, h) /\ Live(a) /\ Data(a) = x /\ Len(x) = n
              /\ DOMAIN valBar[a] = 1..n
              /\ \A i \in 1..n : x[i] # Masked /\ valBar[a][i] = IF h[i] THEN Masked ELSE x[i]
    BY Operand
  <1>2. PICK x \in [1..n -> Value], h \in [1..n -> BOOLEAN] :
              /\ Elems(a, n, x, h) /\ Live(a) /\ Data(a) = x /\ Len(x) = n
              /\ DOMAIN valBar[a] = 1..n
              /\ \A i \in 1..n : x[i] # Masked /\ valBar[a][i] = IF h[i] THEN Masked ELSE x[i]
    BY <1>1
  <1>s. Seen(a, n, x, h)
    BY <1>2 DEF Seen
  <1>3. PICK fill : fill = FillValue(a) /\ fill \in Value \cup {Unset}
    BY <1>2, Fillings
  <1>4. ASSUME NEW c \in NewMasks, Len(c) = Len(Data(a)),
               MaskedWhereImpl(o, a, Fresh(c), copied, TRUE, FillValue(a)),
               Call("where", <<a>>, c)
        PROVE  Good
    <2>1. c \in Seq(BOOLEAN) /\ Len(c) = n
      BY <1>2, <1>4, MaskedAssumption
    <2>2. c \in [1..n -> BOOLEAN]
      BY <2>1
    <2>3. PICK cond, on : cond = Fresh(c) /\ on = <<a>>
      OBVIOUS
    <2>4. Shows(cond, on, n, c)
      BY <2>2, <2>3, FreshMask
    <2>5. Held(cond, on, cond.bits)
      BY <2>4 DEF Shows
    <2>6. On(a, on) /\ on[1] = a /\ \A i \in DOMAIN on : on[i] \in Objs /\ Sound(on[i])
      BY <2>3, OneOperand
    <2>7. Condition(a, n, cond, c, on, c)
      BY <2>4, <2>5, <2>6 DEF Condition
    <2>8. MaskedWhereImpl(o, a, cond, copied, TRUE, fill) /\ Call("where", on, c)
      BY <1>3, <1>4, <2>3
    <2>9. QED
      BY <1>s, <1>3, <2>2, <2>7, <2>8, WhereOn
  <1>5. ASSUME HasMask(b), Fits(Mask(b), Len(Data(a))),
               MaskedWhereImpl(o, a, Mask(b), copied, TRUE, FillValue(a)),
               Call("where", <<a, b>>, Mask(b).bits)
        PROVE  Good
    <2>1. PICK cond, on, by : cond = Mask(b) /\ on = <<a, b>> /\ by = Mask(b).bits
      OBVIOUS
    <2>2. On(a, on) /\ On(b, on) /\ on[1] = a
          /\ \A i \in DOMAIN on : on[i] \in Objs /\ Sound(on[i])
      BY <2>1, TwoOperands
    <2>3. Held(cond, on, cond.bits) /\ cond # nomask
          /\ Len(cond.cells) = Len(obj[b].mcells)
      BY <1>5, <2>1, <2>2, OwnMaskHeld DEF Sound
    <2>4. MaskedWhereImpl(o, a, cond, copied, TRUE, fill) /\ Call("where", on, by)
      BY <1>3, <1>5, <2>1
    <2>5. PICK k \in Nat : \E z \in [1..k -> Value], f \in [1..k -> BOOLEAN] : Elems(b, k, z, f)
      BY SoundElems
    <2>6. PICK z \in [1..k -> Value], f \in [1..k -> BOOLEAN] : Elems(b, k, z, f)
      BY <2>5
    <2>7. CASE Mismatched
      <3>1. Condition(a, n, cond, h, on, by)
        BY <2>2, <2>3, <2>7 DEF Condition
      <3>2. QED
        BY <1>s, <1>3, <2>4, <3>1, WhereOn
    <2>8. CASE ~Mismatched
      <3>1. k = n
        BY <1>2, <1>5, <2>1, <2>3, <2>6, <2>8 DEF Fits, Elems
      <3>2. by = f /\ f \in [1..n -> BOOLEAN]
        BY <1>5, <2>1, <2>6, <3>1 DEF Elems
      <3>3. Shows(cond, on, n, f)
        BY <2>1, <2>2, <2>6, <3>1, OwnMask DEF Sound
      <3>4. Condition(a, n, cond, f, on, by)
        BY <2>2, <2>3, <3>2, <3>3 DEF Condition
      <3>5. QED
        BY <1>s, <1>3, <2>4, <3>2, <3>4, WhereOn
    <2>9. QED
      BY <2>7, <2>8
  <1>6. QED
    BY <1>4, <1>5 DEF masked_where

\* fix_invalid: what is not finite is overwritten and hidden, with what is hidden already.
LEMMA FixStep ==
    ASSUME Inv, calls < MaxCalls, NEW o \in Objs, NEW a \in Objs, Sound(a),
           NEW extra \in NewMasks \cup {Constant(Data(a), FALSE)}, Len(extra) = Len(Data(a)),
           fix_invalid(o, a, extra)
    PROVE  Good
  <1>1. PICK n \in Nat : \E x \in [1..n -> Value], h \in [1..n -> BOOLEAN] :
              /\ Elems(a, n, x, h) /\ Live(a) /\ Data(a) = x /\ Len(x) = n
              /\ DOMAIN valBar[a] = 1..n
              /\ \A i \in 1..n : x[i] # Masked /\ valBar[a][i] = IF h[i] THEN Masked ELSE x[i]
    BY Operand
  <1>2. PICK x \in [1..n -> Value], h \in [1..n -> BOOLEAN] :
              /\ Elems(a, n, x, h) /\ Live(a) /\ Data(a) = x /\ Len(x) = n
              /\ DOMAIN valBar[a] = 1..n
              /\ \A i \in 1..n : x[i] # Masked /\ valBar[a][i] = IF h[i] THEN Masked ELSE x[i]
    BY <1>1
  <1>3. extra \in [1..n -> BOOLEAN]
    <2>1. CASE extra \in NewMasks
      <3>1. extra \in Seq(BOOLEAN) /\ Len(extra) = n
        BY <1>2, <2>1, MaskedAssumption
      <3>2. QED
        BY <3>1
    <2>2. CASE extra = Constant(Data(a), FALSE)
      BY <1>2, <2>2 DEF Constant
    <2>3. QED
      BY <2>1, <2>2
  <1>4. PICK e : e = [i \in 1..n |-> x[i] \notin Finite]
    OBVIOUS
  <1>5. e \in [1..n -> BOOLEAN]
    BY <1>4
  <1>6. PICK g : g = [i \in 1..n |-> e[i] \/ extra[i]]
    OBVIOUS
  <1>7. g \in [1..n -> BOOLEAN] /\ Or(e, extra) = g
    BY <1>3, <1>5, <1>6, OrSame
  <1>8. PICK v : v = FillValue(a) /\ v \in Value
    BY <1>2, Fillings
  <1>9. PICK c \in [1..n -> Value] : c = Constant(x, v) /\ c = [i \in 1..n |-> v]
    <2>1. Constant(x, v) = [i \in 1..n |-> v]
      BY DEF Constant
    <2>2. QED
      BY <1>8, <2>1
  <1>10. PICK y : y = [i \in 1..n |-> IF g[i] THEN c[i] ELSE x[i]]
    OBVIOUS
  <1>11. y \in [1..n -> Value] /\ Where(g, c, x) = y
    <2>1. Where(g, c, x) = y
      BY <1>7, <1>10, WhereSame
    <2>2. y \in [1..n -> Value]
      BY <1>10
    <2>3. QED
      BY <2>1, <2>2
  <1>12. PICK m, d : m = mask_or(Mask(a), Fresh(g), TRUE) /\ d = FreshData(o, y)
    OBVIOUS
  <1>13. Create(o, d, m, v) /\ Call("where", <<a>>, g)
    <2>1. e = [i \in DOMAIN x |-> x[i] \notin Finite]
      BY <1>2, <1>4
    <2>2. QED
      BY <1>2, <1>7, <1>8, <1>9, <1>11, <1>12, <2>1 DEF fix_invalid
  <1>14. PICK w : w = [i \in 1..n |-> h[i] \/ g[i]]
    OBVIOUS
  <1>15. w \in [1..n -> BOOLEAN] /\ Joins(w, h, g, n)
    BY <1>14 DEF Joins
  <1>16. Shows(Mask(a), <<a>>, n, h) /\ Shows(Fresh(g), <<a>>, n, g)
    BY <1>2, <1>7, OneOperand, OwnMask, FreshMask
  <1>17. Shows(m, <<a>>, n, w)
    BY <1>7, <1>12, <1>15, <1>16, MaskOrShows
  <1>18. [i \in 1..n |-> IF w[i] THEN Masked ELSE y[i]]
            \in Optional!Result([op |-> "where", on |-> <<a>>, by |-> g])
    <2>1. PICK on : on = <<a>>
      OBVIOUS
    <2>2. Optional!Result([op |-> "where", on |-> on, by |-> g])
            = {[i \in DOMAIN valBar[on[1]] |-> IF g[i] THEN Masked ELSE valBar[on[1]][i]]}
      BY ResultWhere
    <2>3. on[1] = a
      BY <2>1
    <2>4. [i \in DOMAIN valBar[a] |-> IF g[i] THEN Masked ELSE valBar[a][i]]
          = [i \in 1..n |-> IF w[i] THEN Masked ELSE y[i]]
      BY <1>2, <1>10, <1>14
    <2>5. QED
      BY <2>1, <2>2, <2>3, <2>4
  <1>19. Source(o, d, <<a>>, n, y) /\ v \in Value \cup {Unset}
    BY <1>8, <1>11, <1>12, FreshSource
  <1>20. Computes(o, d, m, v, "where", <<a>>, g, n, y, w)
    BY <1>11, <1>13, <1>17, <1>18, <1>19, OneOperand DEF Computes, Shows
  <1>21. QED
    BY <1>20, CallStep

-----------------------------------------------------------------------------
(* masked_array(a.data, mask=m). *)

LEMMA WrapStep ==
    ASSUME Inv, calls < MaxCalls, NEW o \in Objs, NEW a \in Objs, NEW b \in Objs,
           Sound(a), Sound(b), Wrap(o, a, b)
    PROVE  Good
  <1>1. PICK n \in Nat : \E x \in [1..n -> Value], h \in [1..n -> BOOLEAN] :
              /\ Elems(a, n, x, h) /\ Live(a) /\ Data(a) = x /\ Len(x) = n
              /\ DOMAIN valBar[a] = 1..n
              /\ \A i \in 1..n : x[i] # Masked /\ valBar[a][i] = IF h[i] THEN Masked ELSE x[i]
    BY Operand
  <1>2. PICK x \in [1..n -> Value], h \in [1..n -> BOOLEAN] :
              /\ Elems(a, n, x, h) /\ Live(a) /\ Data(a) = x /\ Len(x) = n
              /\ DOMAIN valBar[a] = 1..n
              /\ \A i \in 1..n : x[i] # Masked /\ valBar[a][i] = IF h[i] THEN Masked ELSE x[i]
    BY <1>1
  <1>3. PICK d : d = SameData(a)
    OBVIOUS
  <1>4. ASSUME NEW on, NEW w \in [1..n -> BOOLEAN], on[1] = a
        PROVE  [i \in 1..n |-> IF w[i] THEN Masked ELSE x[i]]
                 \in Optional!Result([op |-> "wrap", on |-> on, by |-> w])
    <2>1. PICK s : s = valBar[on[1]]
      OBVIOUS
    <2>3. PICK u : u = [i \in 1..n |-> IF w[i] THEN Masked ELSE x[i]]
      OBVIOUS
    <2>4. DOMAIN s = 1..n /\ \A i \in 1..n : s[i] = IF h[i] THEN Masked ELSE x[i]
      BY <1>2, <1>4, <2>1
    <2>5. u \in [DOMAIN s -> Value \cup {Masked}]
      BY <2>3, <2>4
    <2>6. \A i \in DOMAIN s : IF w[i] THEN u[i] = Masked
                              ELSE u[i] \in IF s[i] = Masked THEN Value ELSE {s[i]}
      BY <1>2, <2>3, <2>4
    <2>7. WrapOf(valBar[on[1]], w, u)
      BY <2>1, <2>5, <2>6 DEF WrapOf
    <2>8. QED
      BY <2>3, <2>7, ResultWrap
  <1>5. ASSUME NEW w \in BOOLEAN, NEW m, Create(o, SameData(a), m, Unset),
               Call("wrap", <<a>>, Constant(Data(a), w)),
               m = Fresh(Constant(Data(a), w)) \/ (m = nomask /\ w = FALSE)
        PROVE  Good
    <2>1. PICK g : g = Constant(Data(a), w) /\ g = [i \in 1..n |-> w]
      BY <1>2 DEF Constant
    <2>2. g \in [1..n -> BOOLEAN]
      BY <2>1
    <2>3. Shows(m, <<a>>, n, g)
      BY <1>5, <2>1, <2>2, FreshMask, NoMaskShows
    <2>4. Source(o, d, <<a>>, n, x) /\ Unset \in Value \cup {Unset}
      BY <1>2, <1>3, OneOperand, SameSource
    <2>5. [i \in 1..n |-> IF g[i] THEN Masked ELSE x[i]]
            \in Optional!Result([op |-> "wrap", on |-> <<a>>, by |-> g])
      <3>1. PICK on : on = <<a>>
        OBVIOUS
      <3>2. on[1] = a
        BY <3>1
      <3>3. QED
        BY <1>4, <2>2, <3>1, <3>2
    <2>6. Create(o, d, m, Unset) /\ Call("wrap", <<a>>, g)
      BY <1>3, <1>5, <2>1
    <2>7. Computes(o, d, m, Unset, "wrap", <<a>>, g, n, x, g)
      BY <2>3, <2>4, <2>5, <2>6, OneOperand DEF Computes, Shows
    <2>8. QED
      BY <2>7, CallStep
  <1>6. ASSUME HasMask(b), Fits(Mask(b), Len(Data(a))), Create(o, SameData(a), Mask(b), Unset),
               Call("wrap", <<a, b>>, Mask(b).bits)
        PROVE  Good
    <2>1. PICK m, on, by : m = Mask(b) /\ on = <<a, b>> /\ by = Mask(b).bits
      OBVIOUS
    <2>2. On(a, on) /\ On(b, on) /\ on[1] = a
          /\ \A i \in DOMAIN on : on[i] \in Objs /\ Sound(on[i])
      BY <2>1, TwoOperands
    <2>3. Held(m, on, m.bits) /\ m # nomask /\ Len(m.cells) = Len(obj[b].mcells)
      BY <1>6, <2>1, <2>2, OwnMaskHeld DEF Sound
    <2>4. Create(o, d, m, Unset) /\ Call("wrap", on, by)
      BY <1>3, <1>6, <2>1
    <2>5. PICK k \in Nat : \E z \in [1..k -> Value], f \in [1..k -> BOOLEAN] : Elems(b, k, z, f)
      BY SoundElems
    <2>6. PICK z \in [1..k -> Value], f \in [1..k -> BOOLEAN] : Elems(b, k, z, f)
      BY <2>5
    <2>7. Source(o, d, on, n, x) /\ Unset \in Value \cup {Unset}
      BY <1>2, <1>3, <2>2, SameSource
    <2>8. ASSUME ~Mismatched
          PROVE  /\ Shows(m, on, n, by)
                 /\ [i \in 1..n |-> IF by[i] THEN Masked ELSE x[i]]
                      \in Optional!Result([op |-> "wrap", on |-> on, by |-> by])
      <3>1. k = n
        BY <1>2, <1>6, <2>1, <2>3, <2>6, <2>8 DEF Fits, Elems
      <3>2. by = f /\ by \in [1..n -> BOOLEAN]
        BY <1>6, <2>1, <2>6, <3>1 DEF Elems
      <3>3. Shows(m, on, n, by)
        BY <2>1, <2>2, <2>6, <3>1, <3>2, OwnMask DEF Sound
      <3>4. on[1] = a
        BY <2>2
      <3>5. QED
        BY <1>4, <3>2, <3>3, <3>4
    <2>9. Computes(o, d, m, Unset, "wrap", on, by, n, x, by)
      BY <2>2, <2>3, <2>4, <2>7, <2>8 DEF Computes
    <2>10. QED
      BY <2>9, CallStep
  <1>7. QED
    BY <1>5, <1>6 DEF Wrap

-----------------------------------------------------------------------------
(* Calls on two arrays. *)

\* An operand of a call that computes k elements: its elements x, hidden by g, are those of
\* the array, or its one element k times.
Stretched(a, k, x, g) ==
    /\ Broadcast(Data(a), k) = x /\ Len(Data(a)) \in {1, k} /\ Hides(Mask(a), k, g)
    /\ Broadcast(getmaskarray(a).bits, k) = g /\ getmaskarray(a).bits \in Seq(BOOLEAN)
    /\ Len(getmaskarray(a).bits) \in {1, k}
    /\ \A i \in 1..k : /\ x[i] # Masked
                       /\ Optional!At(valBar[a], i) = IF g[i] THEN Masked ELSE x[i]

Paired(a, b, k, x, g, y, h) ==
    /\ Stretched(a, k, x, g) /\ Stretched(b, k, y, h)
    /\ k = IF Len(Data(a)) = 1 THEN Len(Data(b)) ELSE Len(Data(a))
    /\ k = IF Len(valBar[a]) = 1 THEN Len(valBar[b]) ELSE Len(valBar[a])
    /\ Live(a) /\ Live(b)

LEMMA Stretch ==
    ASSUME NEW a \in Objs, NEW n \in Nat, NEW x \in [1..n -> Value],
           NEW h \in [1..n -> BOOLEAN], Seen(a, n, x, h), NEW k \in Nat, n \in {1, k}
    PROVE  \E y \in [1..k -> Value], g \in [1..k -> BOOLEAN] : Stretched(a, k, y, g)
  <1>1. PICK y, g : y = Broadcast(x, k) /\ g = Broadcast(h, k)
    OBVIOUS
  <1>2. Len(x) = n /\ Len(h) = n /\ Data(a) = x /\ getmaskarray(a).bits = h
    BY DEF Seen, Elems
  <1>3. y = [i \in 1..k |-> IF n = 1 THEN x[1] ELSE x[i]]
        /\ g = [i \in 1..k |-> IF n = 1 THEN h[1] ELSE h[i]]
    BY <1>1, <1>2 DEF Broadcast
  <1>4. y \in [1..k -> Value] /\ g \in [1..k -> BOOLEAN]
    BY <1>3
  <1>5. Hides(Mask(a), k, g)
    BY <1>1, OwnMaskHides DEF Seen
  <1>6. ASSUME NEW i \in 1..k
        PROVE  y[i] # Masked /\ Optional!At(valBar[a], i) = IF g[i] THEN Masked ELSE y[i]
    <2>1. PICK s : s = valBar[a]
      OBVIOUS
    <2>2. s = [j \in 1..n |-> IF h[j] THEN Masked ELSE x[j]]
      BY <2>1 DEF Seen, Elems
    <2>3. Len(s) = n
      BY <2>2
    <2>4. Optional!At(s, i) = IF n = 1 THEN s[1] ELSE s[i]
      BY <2>3 DEF Optional!At
    <2>5. y[i] # Masked
      BY <1>4, MaskedAssumption
    <2>6. QED
      BY <1>3, <2>1, <2>2, <2>4, <2>5
  <1>7. Stretched(a, k, y, g)
    BY <1>1, <1>2, <1>5, <1>6 DEF Stretched
  <1>8. QED
    BY <1>4, <1>7

LEMMA Operands ==
    ASSUME Inv, NEW a \in Objs, NEW b \in Objs, Sound(a), Sound(b), Compatible(a, b)
    PROVE  \E k \in Nat : \E x, y \in [1..k -> Value], g, h \in [1..k -> BOOLEAN] :
              Paired(a, b, k, x, g, y, h)
  <1>1. PICK n \in Nat : \E x \in [1..n -> Value], h \in [1..n -> BOOLEAN] : Seen(a, n, x, h)
    BY Operand DEF Seen
  <1>2. PICK x \in [1..n -> Value], h \in [1..n -> BOOLEAN] : Seen(a, n, x, h)
    BY <1>1
  <1>3. PICK j \in Nat : \E y \in [1..j -> Value], f \in [1..j -> BOOLEAN] : Seen(b, j, y, f)
    BY Operand DEF Seen
  <1>4. PICK y \in [1..j -> Value], f \in [1..j -> BOOLEAN] : Seen(b, j, y, f)
    BY <1>3
  <1>5. Len(Data(a)) = n /\ Len(Data(b)) = j
    BY <1>2, <1>4 DEF Seen
  <1>6. PICK k \in Nat : k = IF n = 1 THEN j ELSE n
    OBVIOUS
  <1>7. n \in {1, k} /\ j \in {1, k}
    BY <1>5, <1>6 DEF Compatible
  <1>8. PICK xk \in [1..k -> Value], gk \in [1..k -> BOOLEAN] : Stretched(a, k, xk, gk)
    BY <1>2, <1>7, Stretch
  <1>9. PICK yk \in [1..k -> Value], hk \in [1..k -> BOOLEAN] : Stretched(b, k, yk, hk)
    BY <1>4, <1>7, Stretch
  <1>10. Len(valBar[a]) = n /\ Len(valBar[b]) = j
    <2>1. valBar[a] = [i \in 1..n |-> IF h[i] THEN Masked ELSE x[i]]
      BY <1>2 DEF Seen, Elems
    <2>2. valBar[b] = [i \in 1..j |-> IF f[i] THEN Masked ELSE y[i]]
      BY <1>4 DEF Seen, Elems
    <2>3. QED
      BY <2>1, <2>2
  <1>11. Live(a) /\ Live(b)
    BY <1>2, <1>4 DEF Seen
  <1>12. Paired(a, b, k, xk, gk, yk, hk)
    BY <1>5, <1>6, <1>8, <1>9, <1>10, <1>11 DEF Paired
  <1>13. QED
    BY <1>12

Each(f, k, x, y) == [i \in 1..k |-> f[x[i]][y[i]]]

LEMMA ComputeIs ==
    ASSUME NEW a, NEW b, NEW k \in Nat, NEW x \in [1..k -> Value], NEW y \in [1..k -> Value],
           NEW g, NEW h, Paired(a, b, k, x, g, y, h), NEW f
    PROVE  Compute(f, a, b) = Each(f, k, x, y)
  <1>1. PICK n : n = IF Len(Data(a)) = 1 THEN Len(Data(b)) ELSE Len(Data(a))
    OBVIOUS
  <1>2. Compute(f, a, b) = [i \in 1..n |-> f[Broadcast(Data(a), n)[i]][Broadcast(Data(b), n)[i]]]
    BY <1>1 DEF Compute, ComputeIn, Data, Zip
  <1>3. n = k /\ Broadcast(Data(a), k) = x /\ Broadcast(Data(b), k) = y
    BY <1>1 DEF Paired, Stretched
  <1>4. QED
    BY <1>2, <1>3 DEF Each

\* The mask of an array, or none, and the two masks together.
LEMMA PairedMasks ==
    ASSUME Inv, NEW a \in Objs, NEW b \in Objs, NEW k \in Nat,
           NEW x, NEW y, NEW g \in [1..k -> BOOLEAN], NEW h \in [1..k -> BOOLEAN],
           Paired(a, b, k, x, g, y, h), NEW on, On(a, on), On(b, on),
           NEW shrink \in BOOLEAN, NEW m, m = mask_or(Mask(a), Mask(b), shrink),
           NEW w \in [1..k -> BOOLEAN], Joins(w, g, h, k)
    PROVE  Held(m, on, m.bits) /\ Hides(m, k, w)
  <1>1. Live(a) /\ Live(b) /\ Hides(Mask(a), k, g) /\ Hides(Mask(b), k, h)
    BY DEF Paired, Stretched
  <1>2. Held(Mask(a), on, Mask(a).bits) /\ Held(Mask(b), on, Mask(b).bits)
    BY <1>1, OwnMaskHeld
  <1>3. QED
    BY <1>1, <1>2, MaskOr

\* What two operands show, as the abstract calls see it.
LEMMA PairedValues ==
    ASSUME NEW a, NEW b, NEW k \in Nat, NEW x, NEW y, NEW g, NEW h, Paired(a, b, k, x, g, y, h),
           NEW i \in 1..k
    PROVE  /\ x[i] # Masked /\ y[i] # Masked
           /\ Optional!At(valBar[a], i) = IF g[i] THEN Masked ELSE x[i]
           /\ Optional!At(valBar[b], i) = IF h[i] THEN Masked ELSE y[i]
  BY DEF Paired, Stretched

LiftEach(f, k, x, g, y, h) == [i \in 1..k |-> IF g[i] \/ h[i] THEN Masked ELSE f[x[i]][y[i]]]
LiftWithin(d, k, x, g, y, h) ==
    [i \in 1..k |-> IF g[i] \/ h[i] THEN Masked ELSE Optional!Within2(d, x[i], y[i])]
LiftRem(k, x, g, y, h) ==
    [i \in 1..k |-> IF g[i] \/ h[i] \/ Rem.dom[x[i]][y[i]] THEN Masked ELSE Rem.fn[x[i]][y[i]]]

LEMMA ResultBinary ==
    ASSUME NEW a, NEW b, NEW w, NEW k \in Nat, NEW x, NEW y, NEW g, NEW h,
           Paired(a, b, k, x, g, y, h)
    PROVE  LiftEach(w, k, x, g, y, h)
             \in Optional!Result([op |-> "binary", on |-> <<a, b>>, by |-> w])
  <1>1. Optional!Result([op |-> "binary", on |-> <<a, b>>, by |-> w])
          = {[i \in 1..(IF Len(valBar[a]) = 1 THEN Len(valBar[b]) ELSE Len(valBar[a])) |->
                IF Optional!At(valBar[a], i) = Masked \/ Optional!At(valBar[b], i) = Masked
                THEN Masked
                ELSE w[Optional!At(valBar[a], i)][Optional!At(valBar[b], i)]]}
    BY DEF Optional!Result, Optional!Lift2
  <1>2. k = IF Len(valBar[a]) = 1 THEN Len(valBar[b]) ELSE Len(valBar[a])
    BY DEF Paired
  <1>3. [i \in 1..k |-> IF Optional!At(valBar[a], i) = Masked \/ Optional!At(valBar[b], i) = Masked
                        THEN Masked
                        ELSE w[Optional!At(valBar[a], i)][Optional!At(valBar[b], i)]]
        = [i \in 1..k |-> IF g[i] \/ h[i] THEN Masked ELSE w[x[i]][y[i]]]
    <2>1. ASSUME NEW i \in 1..k
          PROVE  /\ x[i] # Masked /\ y[i] # Masked
                 /\ Optional!At(valBar[a], i) = IF g[i] THEN Masked ELSE x[i]
                 /\ Optional!At(valBar[b], i) = IF h[i] THEN Masked ELSE y[i]
      BY PairedValues
    <2>2. QED
      BY <2>1
  <1>4. QED
    BY <1>1, <1>2, <1>3 DEF LiftEach

LEMMA ResultDomained2 ==
    ASSUME NEW a, NEW b, NEW w, NEW k \in Nat, NEW x, NEW y, NEW g, NEW h,
           Paired(a, b, k, x, g, y, h)
    PROVE  LiftWithin(w, k, x, g, y, h)
             \in Optional!Result([op |-> "domained2", on |-> <<a, b>>, by |-> w])
  <1>1. Optional!Result([op |-> "domained2", on |-> <<a, b>>, by |-> w])
          = {[i \in 1..(IF Len(valBar[a]) = 1 THEN Len(valBar[b]) ELSE Len(valBar[a])) |->
                IF Optional!At(valBar[a], i) = Masked \/ Optional!At(valBar[b], i) = Masked
                THEN Masked
                ELSE Optional!Within2(w, Optional!At(valBar[a], i), Optional!At(valBar[b], i))]}
    BY DEF Optional!Result, Optional!Lift2
  <1>2. k = IF Len(valBar[a]) = 1 THEN Len(valBar[b]) ELSE Len(valBar[a])
    BY DEF Paired
  <1>3. [i \in 1..k |-> IF Optional!At(valBar[a], i) = Masked \/ Optional!At(valBar[b], i) = Masked
                        THEN Masked
                        ELSE Optional!Within2(w, Optional!At(valBar[a], i),
                                              Optional!At(valBar[b], i))]
        = [i \in 1..k |-> IF g[i] \/ h[i] THEN Masked ELSE Optional!Within2(w, x[i], y[i])]
    <2>1. ASSUME NEW i \in 1..k
          PROVE  /\ x[i] # Masked /\ y[i] # Masked
                 /\ Optional!At(valBar[a], i) = IF g[i] THEN Masked ELSE x[i]
                 /\ Optional!At(valBar[b], i) = IF h[i] THEN Masked ELSE y[i]
      BY PairedValues
    <2>2. QED
      BY <2>1
  <1>4. QED
    BY <1>1, <1>2, <1>3 DEF LiftWithin

LEMMA ResultMod ==
    ASSUME NEW a, NEW b, NEW w, NEW k \in Nat, NEW x, NEW y, NEW g, NEW h,
           Paired(a, b, k, x, g, y, h)
    PROVE  LiftRem(k, x, g, y, h)
             \in Optional!Result([op |-> "mod", on |-> <<a, b>>, by |-> w])
  <1>1. Optional!Result([op |-> "mod", on |-> <<a, b>>, by |-> w])
          = {[i \in 1..(IF Len(valBar[a]) = 1 THEN Len(valBar[b]) ELSE Len(valBar[a])) |->
                IF Optional!At(valBar[a], i) = Masked \/ Optional!At(valBar[b], i) = Masked
                THEN Masked
                ELSE IF Rem.dom[Optional!At(valBar[a], i)][Optional!At(valBar[b], i)]
                     THEN Masked
                     ELSE Rem.fn[Optional!At(valBar[a], i)][Optional!At(valBar[b], i)]]}
    BY DEF Optional!Result, Optional!Lift2
  <1>2. k = IF Len(valBar[a]) = 1 THEN Len(valBar[b]) ELSE Len(valBar[a])
    BY DEF Paired
  <1>3. [i \in 1..k |-> IF Optional!At(valBar[a], i) = Masked \/ Optional!At(valBar[b], i) = Masked
                        THEN Masked
                        ELSE IF Rem.dom[Optional!At(valBar[a], i)][Optional!At(valBar[b], i)]
                             THEN Masked
                             ELSE Rem.fn[Optional!At(valBar[a], i)][Optional!At(valBar[b], i)]]
        = [i \in 1..k |-> IF g[i] \/ h[i] \/ Rem.dom[x[i]][y[i]] THEN Masked
                          ELSE Rem.fn[x[i]][y[i]]]
    <2>1. ASSUME NEW i \in 1..k
          PROVE  /\ x[i] # Masked /\ y[i] # Masked
                 /\ Optional!At(valBar[a], i) = IF g[i] THEN Masked ELSE x[i]
                 /\ Optional!At(valBar[b], i) = IF h[i] THEN Masked ELSE y[i]
      BY PairedValues
    <2>2. QED
      BY <2>1
  <1>4. QED
    BY <1>1, <1>2, <1>3 DEF LiftRem

\* a and b, their operators and comparisons.
LEMMA BinaryStep ==
    ASSUME Inv, calls < MaxCalls, NEW o \in Objs, NEW a \in Objs, NEW b \in Objs,
           Sound(a), Sound(b), Compatible(a, b), NEW f \in BinaryFns,
           Binary(o, a, b, f) \/ BinaryDunder(o, a, b, f) \/ Compare(o, a, b, f)
    PROVE  Good
  <1>1. PICK k \in Nat : \E x, y \in [1..k -> Value], g, h \in [1..k -> BOOLEAN] :
                            Paired(a, b, k, x, g, y, h)
    BY Operands
  <1>2. PICK x \in [1..k -> Value], y \in [1..k -> Value], g \in [1..k -> BOOLEAN],
             h \in [1..k -> BOOLEAN] : Paired(a, b, k, x, g, y, h)
    BY <1>1
  <1>3. f \in [Value -> [Value -> Value]]
    BY MaskedAssumption
  <1>4. PICK s : s = [i \in 1..k |-> f[x[i]][y[i]]]
    OBVIOUS
  <1>5. s \in [1..k -> Value] /\ Len(s) = k /\ Compute(f, a, b) = s
    <2>1. s \in [1..k -> Value]
      BY <1>3, <1>4
    <2>2. Compute(f, a, b) = Each(f, k, x, y)
      BY <1>2, ComputeIs
    <2>3. QED
      BY <1>4, <2>1, <2>2 DEF Each
  <1>6. PICK w : w = [i \in 1..k |-> g[i] \/ h[i]]
    OBVIOUS
  <1>7. w \in [1..k -> BOOLEAN] /\ Joins(w, g, h, k)
    BY <1>6 DEF Joins
  <1>8. PICK on : on = <<a, b>>
    OBVIOUS
  <1>9. On(a, on) /\ On(b, on) /\ \A i \in DOMAIN on : on[i] \in Objs /\ Sound(on[i])
    BY <1>8, TwoOperands
  <1>10. PICK fill : fill = obj[a].fill /\ fill \in Value \cup {Unset}
    BY Fillings DEF Sound
  <1>11. [i \in 1..k |-> IF w[i] THEN Masked ELSE s[i]]
            \in Optional!Result([op |-> "binary", on |-> on, by |-> f])
    <2>1. LiftEach(f, k, x, g, y, h) \in Optional!Result([op |-> "binary", on |-> <<a, b>>, by |-> f])
      BY <1>2, ResultBinary
    <2>2. LiftEach(f, k, x, g, y, h) = [i \in 1..k |-> IF w[i] THEN Masked ELSE s[i]]
      BY <1>4, <1>6 DEF LiftEach
    <2>3. QED
      BY <1>8, <2>1, <2>2
  <1>12. ASSUME NEW shrink \in BOOLEAN, NEW m, m = mask_or(Mask(a), Mask(b), shrink), NEW r,
                r = m \/ (r = IF m = nomask THEN m ELSE Fresh(m.bits)),
                Fits(m, Len(s)), NEW z,
                z = s \/ z = IF m = nomask THEN s ELSE Where(m.bits, Data(a), s),
                Create(o, FreshData(o, z), r, fill), Call("binary", on, f)
         PROVE  Good
    <2>1. Held(m, on, m.bits) /\ Hides(m, k, w)
      BY <1>2, <1>7, <1>9, <1>12, PairedMasks
    <2>2. m = nomask \/ Mismatched \/ Len(m.cells) = k
      BY <1>5, <1>12 DEF Fits
    <2>3. ~Mismatched => Shows(m, on, k, w)
      BY <1>7, <2>1, <2>2, HidesShows
    <2>4. Held(r, on, r.bits) /\ (~Mismatched => Shows(r, on, k, w))
      <3>1. CASE r = m
        BY <2>1, <2>3, <3>1
      <3>2. CASE r # m
        <4>1. PICK t : t = m.bits
          OBVIOUS
        <4>2. r = Fresh(t) /\ t \in Seq(BOOLEAN) /\ m # nomask
          BY <1>12, <2>1, <3>2, <4>1 DEF Held
        <4>3. Held(r, on, r.bits) /\ r.bits = t /\ Len(r.cells) = Len(t) /\ r # nomask
          BY <4>2, FreshHeld
        <4>4. ASSUME ~Mismatched
              PROVE  Shows(r, on, k, w)
          <5>1. Len(t) = k
            BY <2>1, <2>2, <4>1, <4>2, <4>4 DEF Held
          <5>2. Shows(m, on, k, w)
            BY <2>3, <4>4
          <5>3. \A i \in 1..k : t[i] \in BOOLEAN
            BY <4>2, <5>1
          <5>4. \A i \in 1..k : w[i] = t[i]
            BY <1>7, <4>1, <4>2, <5>2, <5>3 DEF Shows
          <5>5. QED
            BY <1>7, <4>2, <4>3, <5>1, <5>4 DEF Shows
        <4>5. QED
          BY <4>3, <4>4
      <3>3. QED
        BY <3>1, <3>2
    <2>5. z \in [1..k -> Value] /\ \A i \in 1..k : ~w[i] => z[i] = s[i]
      <3>1. CASE z = s
        BY <1>5, <3>1
      <3>2. CASE z # s
        <4>1. m # nomask /\ z = Where(m.bits, Data(a), s)
          BY <1>12, <3>2
        <4>2. PICK t : t = Broadcast(m.bits, k)
          OBVIOUS
        <4>3. \A i \in 1..k : w[i] = t[i]
          BY <2>1, <4>1, <4>2 DEF Hides
        <4>4. Broadcast(Data(a), k) = x /\ DOMAIN s = 1..k
          BY <1>2, <1>5 DEF Paired, Stretched
        <4>5. z = [i \in 1..k |-> IF t[i] THEN x[i] ELSE s[i]]
          BY <1>5, <4>1, <4>2, <4>4 DEF Where
        <4>6. QED
          BY <1>5, <1>7, <4>3, <4>5
      <3>3. QED
        BY <3>1, <3>2
    <2>6. [i \in 1..k |-> IF w[i] THEN Masked ELSE z[i]]
          = [i \in 1..k |-> IF w[i] THEN Masked ELSE s[i]]
      BY <2>5
    <2>7. PICK d : d = FreshData(o, z)
      OBVIOUS
    <2>8. Source(o, d, on, k, z)
      BY <2>5, <2>7, FreshSource
    <2>9. Computes(o, d, r, fill, "binary", on, f, k, z, w)
      BY <1>9, <1>10, <1>11, <1>12, <2>4, <2>5, <2>6, <2>7, <2>8 DEF Computes
    <2>10. QED
      BY <2>9, CallStep
  <1>13. CASE Binary(o, a, b, f)
    <2>1. PICK m, z : /\ m = mask_or(Mask(a), Mask(b), FALSE)
                      /\ z = IF m = nomask THEN s ELSE Where(m.bits, Data(a), s)
      OBVIOUS
    <2>2. Fits(m, Len(s)) /\ Create(o, FreshData(o, z), m, fill) /\ Call("binary", on, f)
      BY <1>5, <1>8, <1>10, <1>13, <2>1 DEF Binary
    <2>3. QED
      BY <1>12, <2>1, <2>2
  <1>14. CASE BinaryDunder(o, a, b, f)
    <2>1. PICK m : m = mask_or(Mask(a), Mask(b), TRUE)
      OBVIOUS
    <2>2. Fits(m, Len(s)) /\ Create(o, FreshData(o, s), m, fill) /\ Call("binary", on, f)
      BY <1>5, <1>8, <1>10, <1>14, <2>1 DEF BinaryDunder
    <2>3. QED
      BY <1>12, <2>1, <2>2
  <1>15. CASE Compare(o, a, b, f)
    <2>1. PICK m, r : /\ m = mask_or(Mask(a), Mask(b), TRUE)
                      /\ r = IF m = nomask THEN m ELSE Fresh(m.bits)
      OBVIOUS
    <2>2. Fits(m, Len(s)) /\ Create(o, FreshData(o, s), r, fill) /\ Call("binary", on, f)
      BY <1>5, <1>8, <1>10, <1>15, <2>1 DEF Compare
    <2>3. QED
      BY <1>12, <2>1, <2>2
  <1>16. QED
    BY <1>13, <1>14, <1>15

LEMMA OrStretched ==
    ASSUME NEW k \in Nat, NEW s \in [1..k -> BOOLEAN], NEW t \in Seq(BOOLEAN),
           Len(t) \in {1, k}, NEW u \in [1..k -> BOOLEAN], u = Broadcast(t, k),
           NEW r \in [1..k -> BOOLEAN], Joins(r, s, u, k)
    PROVE  Or(s, t) = r
  <1>1. Len(s) = k
    OBVIOUS
  <1>2. PICK n : n = IF Len(s) = 1 THEN Len(t) ELSE Len(s)
    OBVIOUS
  <1>3. n = k
    BY <1>1, <1>2
  <1>4. Or(s, t) = [i \in 1..n |-> Broadcast(s, n)[i] \/ Broadcast(t, n)[i]]
    BY <1>2 DEF Or, Zip
  <1>5. \A i \in 1..k : Broadcast(s, k)[i] = s[i]
    BY <1>1 DEF Broadcast
  <1>6. QED
    BY <1>3, <1>4, <1>5 DEF Joins

\* Functions of two arguments with a domain.
LEMMA DomainedBinaryStep ==
    ASSUME Inv, calls < MaxCalls, NEW o \in Objs, NEW a \in Objs, NEW b \in Objs,
           Sound(a), Sound(b), Compatible(a, b), NEW f \in DomainedBinaryFns,
           DomainedBinary(o, a, b, f)
    PROVE  Good
  <1>1. PICK k \in Nat : \E x, y \in [1..k -> Value], g, h \in [1..k -> BOOLEAN] :
                            Paired(a, b, k, x, g, y, h)
    BY Operands
  <1>2. PICK x \in [1..k -> Value], y \in [1..k -> Value], g \in [1..k -> BOOLEAN],
             h \in [1..k -> BOOLEAN] : Paired(a, b, k, x, g, y, h)
    BY <1>1
  <1>3. f.fn \in [Value -> [Value -> Value]] /\ f.dom \in [Value -> [Value -> BOOLEAN]]
    BY MaskedAssumption
  <1>4. PICK c, e : c = [i \in 1..k |-> f.fn[x[i]][y[i]]] /\ e = [i \in 1..k |-> f.dom[x[i]][y[i]]]
    OBVIOUS
  <1>5. c \in [1..k -> Value] /\ e \in [1..k -> BOOLEAN] /\ Len(c) = k /\ DOMAIN c = 1..k
    <2>1. c \in [1..k -> Value] /\ e \in [1..k -> BOOLEAN]
      BY <1>3, <1>4
    <2>2. QED
      BY <2>1
  <1>6. Compute(f.fn, a, b) = c /\ Compute(f.dom, a, b) = e
    <2>1. Compute(f.fn, a, b) = Each(f.fn, k, x, y) /\ Compute(f.dom, a, b) = Each(f.dom, k, x, y)
      BY <1>2, ComputeIs
    <2>2. QED
      BY <1>4, <2>1 DEF Each
  <1>7. PICK r : r = [i \in 1..k |-> c[i] \notin Finite]
    OBVIOUS
  <1>8. PICK out : out = [i \in 1..k |-> r[i] \/ e[i]]
    OBVIOUS
  <1>9. r \in [1..k -> BOOLEAN] /\ out \in [1..k -> BOOLEAN] /\ Or(r, e) = out
    <2>1. r \in [1..k -> BOOLEAN]
      BY <1>7
    <2>e. e \in [1..k -> BOOLEAN]
      BY <1>5
    <2>2. Or(r, e) = out
      BY <1>8, <2>1, <2>e, OrSame
    <2>3. QED
      BY <1>8, <2>1, <2>2
  <1>10. PICK ga, gb : ga = getmaskarray(a).bits /\ gb = getmaskarray(b).bits
    OBVIOUS
  <1>11. /\ ga \in Seq(BOOLEAN) /\ Len(ga) \in {1, k} /\ g = Broadcast(ga, k)
         /\ gb \in Seq(BOOLEAN) /\ Len(gb) \in {1, k} /\ h = Broadcast(gb, k)
    BY <1>2, <1>10 DEF Paired, Stretched
  <1>12. PICK w1, w : w1 = [i \in 1..k |-> out[i] \/ g[i]] /\ w = [i \in 1..k |-> w1[i] \/ h[i]]
    OBVIOUS
  <1>13. /\ w1 \in [1..k -> BOOLEAN] /\ Joins(w1, out, g, k)
         /\ w \in [1..k -> BOOLEAN] /\ Joins(w, w1, h, k)
    BY <1>12 DEF Joins
  <1>14. Or(Or(out, ga), gb) = w
    <2>1. Or(out, ga) = w1
      BY <1>9, <1>11, <1>13, OrStretched
    <2>2. Or(w1, gb) = w
      BY <1>11, <1>13, OrStretched
    <2>3. QED
      BY <2>1, <2>2
  <1>15. PICK z : z = Where(w, Data(a), c)
    OBVIOUS
  <1>16. z = [i \in 1..k |-> IF w[i] THEN x[i] ELSE c[i]] /\ z \in [1..k -> Value]
    <2>1. Broadcast(Data(a), k) = x
      BY <1>2 DEF Paired, Stretched
    <2>2. \A i \in 1..k : Broadcast(w, k)[i] = w[i]
      BY <1>13 DEF Broadcast
    <2>3. z = [i \in 1..k |-> IF Broadcast(w, k)[i] THEN x[i] ELSE c[i]]
      BY <1>5, <1>15, <2>1 DEF Where
    <2>4. z = [i \in 1..k |-> IF w[i] THEN x[i] ELSE c[i]]
      BY <2>2, <2>3
    <2>5. QED
      BY <1>5, <2>4
  <1>17. PICK on, d, m, fill : /\ on = <<a, b>> /\ d = FreshData(o, z) /\ m = Fresh(w)
                               /\ fill = obj[a].fill
    OBVIOUS
  <1>18. Create(o, d, m, fill) /\ Call("domained2", on, f)
    <2>1. r = [i \in DOMAIN c |-> c[i] \notin Finite]
      BY <1>5, <1>7
    <2>2. QED
      BY <1>6, <1>9, <1>10, <1>14, <1>15, <1>17, <2>1 DEF DomainedBinary
  <1>19. [i \in 1..k |-> IF w[i] THEN Masked ELSE z[i]]
            \in Optional!Result([op |-> "domained2", on |-> on, by |-> f])
    <2>1. LiftWithin(f, k, x, g, y, h)
            \in Optional!Result([op |-> "domained2", on |-> <<a, b>>, by |-> f])
      BY <1>2, ResultDomained2
    <2>2. \A i \in 1..k : Optional!Within2(f, x[i], y[i])
                          = IF ~e[i] /\ c[i] \in Finite THEN c[i] ELSE Masked
      BY <1>4 DEF Optional!Within2
    <2>3. \A i \in 1..k : w[i] = (((c[i] \notin Finite \/ e[i]) \/ g[i]) \/ h[i])
      BY <1>7, <1>8, <1>12
    <2>4. LiftWithin(f, k, x, g, y, h) = [i \in 1..k |-> IF w[i] THEN Masked ELSE z[i]]
      BY <1>16, <2>2, <2>3 DEF LiftWithin
    <2>5. QED
      BY <1>17, <2>1, <2>4
  <1>20. Source(o, d, on, k, z) /\ Shows(m, on, k, w) /\ fill \in Value \cup {Unset}
    BY <1>13, <1>16, <1>17, FreshSource, FreshMask, Fillings DEF Sound
  <1>21. Computes(o, d, m, fill, "domained2", on, f, k, z, w)
    BY <1>16, <1>17, <1>18, <1>19, <1>20, TwoOperands DEF Computes, Shows
  <1>22. QED
    BY <1>21, CallStep

\* r has the elements of s, n of them, and then those of t.
Joint(S, n, j, k, s, t, r) ==
    /\ n \in Nat /\ j \in Nat /\ k \in Nat /\ k = n + j
    /\ s \in [1..n -> S] /\ t \in [1..j -> S] /\ r \in [1..k -> S]
    /\ \A i \in 1..k : r[i] = IF i <= n THEN s[i] ELSE t[i - n]

LEMMA ConcatIs ==
    ASSUME NEW S, NEW n, NEW j, NEW k, NEW s, NEW t, NEW r, Joint(S, n, j, k, s, t, r)
    PROVE  s \o t = r
  <1>0. /\ n \in Nat /\ j \in Nat /\ k \in Nat /\ k = n + j
        /\ s \in [1..n -> S] /\ t \in [1..j -> S] /\ r \in [1..k -> S]
        /\ \A i \in 1..k : r[i] = IF i <= n THEN s[i] ELSE t[i - n]
    BY DEF Joint
  <1>1. s \in Seq(S) /\ Len(s) = n /\ t \in Seq(S) /\ Len(t) = j
    BY <1>0
  <1>2. PICK c : c = s \o t
    OBVIOUS
  <1>3. c \in Seq(S) /\ Len(c) = k
    <2>1. s \o t \in Seq(S) /\ Len(s \o t) = Len(s) + Len(t)
      BY <1>1, ConcatProperties
    <2>2. QED
      BY <1>0, <1>1, <1>2, <2>1
  <1>4. c \in [1..k -> S]
    BY <1>0, <1>3
  <1>5. \A i \in 1..k : c[i] = IF i <= n THEN s[i] ELSE t[i - n]
    <2>1. \A i \in 1..(Len(s) + Len(t)) :
            (s \o t)[i] = IF i <= Len(s) THEN s[i] ELSE t[i - Len(s)]
      BY <1>1, ConcatProperties
    <2>2. QED
      BY <1>0, <1>1, <1>2, <2>1
  <1>6. \A i \in 1..k : c[i] = r[i]
    BY <1>0, <1>5
  <1>7. c = r
    BY <1>0, <1>4, <1>6
  <1>8. QED
    BY <1>2, <1>7

\* append and hstack.
LEMMA StackStep ==
    ASSUME Inv, calls < MaxCalls, NEW o \in Objs, NEW a \in Objs, NEW b \in Objs,
           Sound(a), Sound(b), Stack(o, a, b)
    PROVE  Good
  <1>1. PICK n \in Nat : \E x \in [1..n -> Value], h \in [1..n -> BOOLEAN] : Seen(a, n, x, h)
    BY Operand DEF Seen
  <1>2. PICK x \in [1..n -> Value], h \in [1..n -> BOOLEAN] : Seen(a, n, x, h)
    BY <1>1
  <1>3. PICK j \in Nat : \E y \in [1..j -> Value], f \in [1..j -> BOOLEAN] : Seen(b, j, y, f)
    BY Operand DEF Seen
  <1>4. PICK y \in [1..j -> Value], f \in [1..j -> BOOLEAN] : Seen(b, j, y, f)
    BY <1>3
  <1>5. PICK k \in Nat : k = n + j
    OBVIOUS
  <1>6. PICK z, w : z = x \o y /\ w = h \o f
    OBVIOUS
  <1>7. /\ z = [i \in 1..k |-> IF i <= n THEN x[i] ELSE y[i - n]]
        /\ w = [i \in 1..k |-> IF i <= n THEN h[i] ELSE f[i - n]]
        /\ z \in [1..k -> Value] /\ w \in [1..k -> BOOLEAN]
    <2>1. PICK r, u : /\ r = [i \in 1..k |-> IF i <= n THEN x[i] ELSE y[i - n]]
                      /\ u = [i \in 1..k |-> IF i <= n THEN h[i] ELSE f[i - n]]
      OBVIOUS
    <2>2. r \in [1..k -> Value] /\ u \in [1..k -> BOOLEAN]
      BY <1>5, <2>1
    <2>3. \A i \in 1..k : r[i] = IF i <= n THEN x[i] ELSE y[i - n]
      BY <2>1
    <2>4. \A i \in 1..k : u[i] = IF i <= n THEN h[i] ELSE f[i - n]
      BY <2>1
    <2>5. Joint(Value, n, j, k, x, y, r) /\ Joint(BOOLEAN, n, j, k, h, f, u)
      BY <1>5, <2>2, <2>3, <2>4 DEF Joint
    <2>6. z = r /\ w = u
      BY <1>6, <2>5, ConcatIs, SMTT(30)
    <2>7. QED
      BY <2>1, <2>2, <2>6
  <1>8. z \in [1..k -> Value] /\ w \in [1..k -> BOOLEAN]
    BY <1>7
  <1>9. /\ Data(a) \o Data(b) = z /\ getmaskarray(a).bits \o getmaskarray(b).bits = w
    BY <1>2, <1>4, <1>6 DEF Seen, Elems
  <1>10. PICK shrink \in BOOLEAN :
            /\ Create(o, FreshData(o, z), make_mask(Fresh(w), shrink), Default)
            /\ Call("concat", <<a, b>>, <<>>)
    BY <1>9 DEF Stack
  <1>11. PICK d, m, on : d = FreshData(o, z) /\ m = make_mask(Fresh(w), shrink) /\ on = <<a, b>>
    OBVIOUS
  <1>12. Shows(Fresh(w), on, k, w)
    BY <1>8, FreshMask
  <1>13. Shows(m, on, k, w)
    BY <1>8, <1>11, <1>12, MakeMaskShows
  <1>14. [i \in 1..k |-> IF w[i] THEN Masked ELSE z[i]]
            \in Optional!Result([op |-> "concat", on |-> on, by |-> <<>>])
    <2>1. Optional!Result([op |-> "concat", on |-> <<a, b>>, by |-> <<>>])
            = {valBar[a] \o valBar[b]}
      BY ResultConcat
    <2>2. PICK p, q : p = valBar[a] /\ q = valBar[b]
      OBVIOUS
    <2>3. /\ p = [i \in 1..n |-> IF h[i] THEN Masked ELSE x[i]]
          /\ q = [i \in 1..j |-> IF f[i] THEN Masked ELSE y[i]]
      BY <1>2, <1>4, <2>2 DEF Seen, Elems
    <2>4. PICK r : r = [i \in 1..k |-> IF w[i] THEN Masked ELSE z[i]]
      OBVIOUS
    <2>5. /\ p \in [1..n -> Value \cup {Masked}] /\ q \in [1..j -> Value \cup {Masked}]
          /\ r \in [1..k -> Value \cup {Masked}]
      BY <1>8, <2>3, <2>4
    <2>6. \A i \in 1..k : r[i] = IF i <= n THEN p[i] ELSE q[i - n]
      BY <1>5, <1>7, <2>3, <2>4
    <2>7. p \o q = r
      <3>1. Joint(Value \cup {Masked}, n, j, k, p, q, r)
        BY <1>5, <2>5, <2>6 DEF Joint
      <3>2. QED
        BY <3>1, ConcatIs
    <2>8. QED
      BY <1>11, <2>1, <2>2, <2>4, <2>7
  <1>15. Source(o, d, on, k, z) /\ Default \in Value \cup {Unset}
    BY <1>8, <1>11, FreshSource, MaskedAssumption
  <1>16. Computes(o, d, m, Default, "concat", on, <<>>, k, z, w)
    BY <1>8, <1>10, <1>11, <1>13, <1>14, <1>15, TwoOperands DEF Computes, Shows
  <1>17. QED
    BY <1>16, CallStep

\* The mask of a remainder hides what an operand hides, and what lies outside the domain.
Covers(w, g, h, e, k) == w = [i \in 1..k |-> (g[i] \/ h[i]) \/ e[i]]

LEMMA RemMaskIs ==
    ASSUME Inv, NEW a \in Objs, NEW b \in Objs, NEW k \in Nat, NEW x, NEW y,
           NEW g \in [1..k -> BOOLEAN], NEW h \in [1..k -> BOOLEAN], Paired(a, b, k, x, g, y, h),
           NEW on, On(a, on), On(b, on), NEW e \in [1..k -> BOOLEAN], NEW w, Covers(w, g, h, e, k),
           NEW m2, m2 = RemMask(a, b, e)
    PROVE  Held(m2, on, m2.bits) /\ Hides(m2, k, w)
  <1>1. PICK w1 : w1 = [i \in 1..k |-> g[i] \/ h[i]]
    OBVIOUS
  <1>2. w1 \in [1..k -> BOOLEAN] /\ Joins(w1, g, h, k)
    BY <1>1 DEF Joins
  <1>3. w = [i \in 1..k |-> w1[i] \/ e[i]] /\ w \in [1..k -> BOOLEAN]
    BY <1>1 DEF Covers
  <1>4. Joins(w, w1, e, k)
    BY <1>3 DEF Joins
  <1>5. PICK m : m = mask_or(Mask(a), Mask(b), TRUE)
    OBVIOUS
  <1>6. m2 = IF \E i \in DOMAIN e : e[i] THEN mask_or(m, Fresh(e), TRUE) ELSE m
    BY <1>5 DEF RemMask
  <1>7. Held(m, on, m.bits) /\ Hides(m, k, w1)
    BY <1>2, <1>5, PairedMasks
  <1>8. CASE \E i \in DOMAIN e : e[i]
    <2>1. PICK f : f = Fresh(e)
      OBVIOUS
    <2>2. Shows(f, on, k, e)
      BY <2>1, FreshMask
    <2>3. Held(f, on, f.bits) /\ Hides(f, k, e)
      BY <2>2, ShowsHides DEF Shows
    <2>4. m2 = mask_or(m, f, TRUE)
      BY <1>6, <1>8, <2>1
    <2>5. QED
      BY <1>2, <1>3, <1>4, <1>7, <2>3, <2>4, MaskOr
  <1>9. CASE ~\E i \in DOMAIN e : e[i]
    <2>1. m2 = m
      BY <1>6, <1>9
    <2>2. \A i \in 1..k : ~e[i]
      BY <1>9
    <2>3. \A i \in 1..k : w1[i] \in BOOLEAN
      BY <1>2
    <2>4. w = w1
      BY <1>2, <1>3, <2>2, <2>3
    <2>5. QED
      BY <1>7, <2>1, <2>4
  <1>10. QED
    BY <1>8, <1>9

\* a % b: outside the domain a constant is stored and hidden.
LEMMA ModStep ==
    ASSUME Inv, calls < MaxCalls, NEW o \in Objs, NEW a \in Objs, NEW b \in Objs,
           Sound(a), Sound(b), Compatible(a, b), Mod(o, a, b)
    PROVE  Good
  <1>1. PICK k \in Nat : \E x, y \in [1..k -> Value], g, h \in [1..k -> BOOLEAN] :
                            Paired(a, b, k, x, g, y, h)
    BY Operands
  <1>2. PICK x \in [1..k -> Value], y \in [1..k -> Value], g \in [1..k -> BOOLEAN],
             h \in [1..k -> BOOLEAN] : Paired(a, b, k, x, g, y, h)
    BY <1>1
  <1>3. Rem.fn \in [Value -> [Value -> Value]] /\ Rem.dom \in [Value -> [Value -> BOOLEAN]]
        /\ RemFill \in Value
    BY MaskedAssumption
  <1>4. PICK c, e : c = Each(Rem.fn, k, x, y) /\ e = Each(Rem.dom, k, x, y)
    OBVIOUS
  <1>5. c \in [1..k -> Value]
    BY <1>3, <1>4 DEF Each
  <1>6. e \in [1..k -> BOOLEAN]
    BY <1>3, <1>4 DEF Each
  <1>7. Compute(Rem.fn, a, b) = c /\ Compute(Rem.dom, a, b) = e
    BY <1>2, <1>4, ComputeIs
  <1>10. PICK w : Covers(w, g, h, e, k)
    BY DEF Covers
  <1>11. w \in [1..k -> BOOLEAN]
    BY <1>6, <1>10 DEF Covers
  <1>12. PICK on : on = <<a, b>>
    OBVIOUS
  <1>13. On(a, on) /\ On(b, on) /\ \A i \in DOMAIN on : on[i] \in Objs /\ Sound(on[i])
    BY <1>12, TwoOperands
  <1>15. PICK m2 : m2 = RemMask(a, b, e)
    OBVIOUS
  <1>16. PICK z : z = Where(e, Constant(c, RemFill), c)
    OBVIOUS
  <1>17. PICK fill : /\ Create(o, FreshData(o, z), m2, fill) /\ Call("mod", on, <<>>)
                     /\ fill \in {obj[a].fill, obj[b].fill} /\ Fits(m2, Len(c))
    BY <1>7, <1>12, <1>15, <1>16 DEF Mod
  <1>18. fill \in Value \cup {Unset}
    BY <1>17, Fillings DEF Sound
  <1>20. Held(m2, on, m2.bits) /\ Hides(m2, k, w)
    BY <1>2, <1>6, <1>10, <1>13, <1>15, RemMaskIs
  <1>21. ~Mismatched => Shows(m2, on, k, w)
    <2>1. Len(c) = k
      BY <1>5
    <2>2. m2 = nomask \/ Mismatched \/ Len(m2.cells) = k
      BY <1>17, <2>1 DEF Fits
    <2>3. QED
      BY <1>11, <1>20, <2>2, HidesShows
  <1>22. z = [i \in 1..k |-> IF e[i] THEN RemFill ELSE c[i]]
    <2>1. PICK r : r = Constant(c, RemFill) /\ r = [i \in 1..k |-> RemFill]
      BY <1>5 DEF Constant
    <2>2. r \in [1..k -> Value]
      BY <1>3, <2>1
    <2>3. Where(e, r, c) = [i \in 1..k |-> IF e[i] THEN r[i] ELSE c[i]]
      BY <1>5, <1>6, <2>2, WhereSame
    <2>4. QED
      BY <1>16, <2>1, <2>3
  <1>23. z \in [1..k -> Value]
    BY <1>3, <1>5, <1>22
  <1>24. [i \in 1..k |-> IF w[i] THEN Masked ELSE z[i]]
            \in Optional!Result([op |-> "mod", on |-> on, by |-> <<>>])
    <2>1. LiftRem(k, x, g, y, h) \in Optional!Result([op |-> "mod", on |-> <<a, b>>, by |-> <<>>])
      BY <1>2, ResultMod
    <2>2. LiftRem(k, x, g, y, h) = [i \in 1..k |-> IF w[i] THEN Masked ELSE z[i]]
      <3>1. ASSUME NEW i \in 1..k
            PROVE  /\ e[i] = Rem.dom[x[i]][y[i]] /\ c[i] = Rem.fn[x[i]][y[i]]
                   /\ w[i] = ((g[i] \/ h[i]) \/ e[i])
        BY <1>4, <1>10 DEF Each, Covers
      <3>2. QED
        BY <1>22, <3>1 DEF LiftRem
    <2>3. QED
      BY <1>12, <2>1, <2>2
  <1>25. PICK d : d = FreshData(o, z)
    OBVIOUS
  <1>26. Source(o, d, on, k, z)
    BY <1>23, <1>25, FreshSource
  <1>27. Computes(o, d, m2, fill, "mod", on, <<>>, k, z, w)
    BY <1>13, <1>17, <1>18, <1>20, <1>21, <1>23, <1>24, <1>25, <1>26 DEF Computes
  <1>28. QED
    BY <1>27, CallStep

\* What the user builds: the given values, hidden where the given mask says.
LEMMA NewStep ==
    ASSUME Inv, calls < MaxCalls, NEW o \in Objs, New(o)
    PROVE  Good
  <1>1. PICK s \in NewData, fill \in Fills \cup {Unset} :
           /\ \/ Create(o, FreshData(o, s), nomask, fill)
              \/ \E m \in NewMasks : Len(m) = Len(s) /\ Create(o, FreshData(o, s), Fresh(m), fill)
           /\ Call("new", <<>>, <<>>)
    BY DEF New
  <1>2. PICK n \in Nat : s \in [1..n -> Value] /\ Len(s) = n
    <2>1. s \in Seq(Value)
      BY MaskedAssumption
    <2>2. QED
      BY <2>1
  <1>3. fill \in Value \cup {Unset}
    BY MaskedAssumption
  <1>4. PICK on, d : on = <<>> /\ d = FreshData(o, s)
    OBVIOUS
  <1>5. \E m, h : /\ Create(o, d, m, fill) /\ Held(m, on, h) /\ (m = nomask \/ Len(m.cells) = n)
    <2>1. CASE Create(o, d, nomask, fill)
      BY <2>1, NomaskHeld
    <2>2. CASE \E m \in NewMasks : Len(m) = Len(s) /\ Create(o, d, Fresh(m), fill)
      <3>1. PICK h \in NewMasks : Len(h) = n /\ Create(o, d, Fresh(h), fill)
        BY <1>2, <2>2
      <3>2. h \in Seq(BOOLEAN)
        BY MaskedAssumption
      <3>3. Held(Fresh(h), on, h) /\ Len(Fresh(h).cells) = n
        BY <3>1, <3>2, FreshHeld
      <3>4. QED
        BY <3>1, <3>3
    <2>3. QED
      BY <1>1, <1>4, <2>1, <2>2
  <1>6. PICK m, h : Create(o, d, m, fill) /\ Held(m, on, h) /\ (m = nomask \/ Len(m.cells) = n)
    BY <1>5
  <1>7. Source(o, d, on, n, s)
    BY <1>2, <1>4, FreshSource
  <1>8. Call("new", on, <<>>)
    BY <1>1, <1>4
  <1>9. PICK v : v = [i \in 1..n |-> IF m # nomask /\ h[i] THEN Masked ELSE s[i]]
    OBVIOUS
  <1>10. /\ Inv' /\ ~Live(o)
         /\ SameShape => SameShape'
         /\ Optional!Appear(o, v)
    <2>1. /\ Inv' /\ ~Live(o)
          /\ m = nomask \/ Len(m.cells) = n =>
                /\ SameShape => SameShape'
                /\ \A w : w = [i \in 1..n |-> IF m # nomask /\ h[i] THEN Masked ELSE s[i]]
                          => Optional!Appear(o, w)
      BY <1>2, <1>3, <1>6, <1>7, <1>8, CreateStep
    <2>2. QED
      BY <1>6, <1>9, <2>1
  <1>11. Optional!New(o)
    <2>1. valBar' = [valBar EXCEPT ![o] = v]
      BY <1>10 DEF Optional!Appear
    <2>2. valBar'[o] = v
      BY <2>1 DEF valBar
    <2>3. v \in Seq(Value \cup {Masked})
      BY <1>2, <1>9
    <2>4. last'.op = "new"
      BY <1>8 DEF Call
    <2>5. ~Optional!Exists(o)
      BY <1>10, SoundExists
    <2>6. QED
      BY <1>10, <2>2, <2>3, <2>4, <2>5 DEF Optional!New
  <1>12. Optional!Next
    BY <1>11 DEF Optional!Next
  <1>13. QED
    BY <1>10, <1>12 DEF Good

-----------------------------------------------------------------------------
(* Calls that change an array in place. *)

\* The mask of a is now at mc in mb; the data keep their cells, as do the masks in use.
Changes(a, mb, mc) ==
    /\ calls' = calls + 1
    /\ obj' = [obj EXCEPT ![a].mbuf = mb, ![a].mcells = mc]
    /\ data' \in [Objs -> Seq(Value)] /\ bits' \in [Buffers -> Seq(BOOLEAN)]
    /\ \A o \in Objs : DOMAIN data'[o] = DOMAIN data[o]
    /\ \A o \in Objs : Live(o) /\ HasMask(o) => DOMAIN bits'[obj[o].mbuf] = DOMAIN bits[obj[o].mbuf]
    /\ mb # NoMask => Injective(mc) /\ \A i \in DOMAIN mc : mc[i] \in DOMAIN bits'[mb]

LEMMA ChangeStep ==
    ASSUME Inv, calls < MaxCalls, NEW a \in Objs, Live(a), NEW mb \in Buffers \cup {NoMask},
           NEW mc \in Seq(Nat), Changes(a, mb, mc)
    PROVE  /\ Inv'
           /\ \A o \in Objs : /\ Live(o)' <=> Live(o)
                              /\ o # a => obj'[o] = obj[o]
           /\ obj'[a].mbuf = mb /\ obj'[a].mcells = mc
           /\ obj'[a].buf = obj[a].buf /\ obj'[a].cells = obj[a].cells
           /\ SameShape /\ (mb # NoMask => Len(mc) = Len(obj[a].cells)) => SameShape'
  <1>1. PICK r : r = [buf |-> obj[a].buf, cells |-> obj[a].cells, mbuf |-> mb, mcells |-> mc,
                      fill |-> obj[a].fill]
    OBVIOUS
  <1>2. /\ r.buf = obj[a].buf /\ r.cells = obj[a].cells /\ r.mbuf = mb /\ r.mcells = mc
    BY <1>1, Zenon
  <1>3. r \in ObjRec /\ r # None
    <2>1. r \in ObjRec
      BY <1>1, LiveRecord DEF ObjRec
    <2>2. QED
      BY <2>1, MaskedAssumption
  <1>4. obj' = [obj EXCEPT ![a] = r]
    <2>1. obj[a] \in ObjRec
      BY LiveRecord
    <2>2. [obj[a] EXCEPT !.mbuf = mb, !.mcells = mc] = r
      <3>1. PICK q : q = obj[a] /\ q \in ObjRec
        BY <2>1
      <3>2. PICK q1 : q1 = [q EXCEPT !.mbuf = mb]
        OBVIOUS
      <3>3. q1 = [buf |-> q.buf, cells |-> q.cells, mbuf |-> mb, mcells |-> q.mcells,
                  fill |-> q.fill]
        BY <3>1, <3>2 DEF ObjRec
      <3>4. [q1 EXCEPT !.mcells = mc] = [buf |-> q.buf, cells |-> q.cells, mbuf |-> mb,
                                         mcells |-> mc, fill |-> q.fill]
        BY <3>3
      <3>5. QED
        BY <1>1, <3>1, <3>2, <3>4
    <2>3. obj' = [obj EXCEPT ![a] = [obj[a] EXCEPT !.mbuf = mb, !.mcells = mc]]
      BY DEF Changes, Inv, TypeOK
    <2>4. QED
      BY <2>2, <2>3
  <1>5. obj'[a] = r /\ obj' \in [Objs -> {None} \cup ObjRec]
        /\ \A o \in Objs \ {a} : obj'[o] = obj[o]
    BY <1>3, <1>4 DEF Inv, TypeOK
  <1>6. \A o \in Objs : Live(o)' <=> Live(o)
    BY <1>3, <1>5 DEF Live
  <1>7. TypeOK'
    <2>1. calls' \in 0..MaxCalls
      BY MaskedAssumption DEF Changes, Inv, TypeOK
    <2>2. ASSUME NEW o \in Objs, obj'[o] # None
          PROVE  /\ \A i \in DOMAIN obj'[o].cells : obj'[o].cells[i] \in DOMAIN data'[obj'[o].buf]
                 /\ obj'[o].mbuf # NoMask =>
                       \A i \in DOMAIN obj'[o].mcells :
                          obj'[o].mcells[i] \in DOMAIN bits'[obj'[o].mbuf]
      <3>1. Live(o)
        BY <1>6, <2>2 DEF Live
      <3>2. obj'[o].cells = obj[o].cells /\ obj'[o].buf = obj[o].buf
        BY <1>2, <1>5
      <3>3. \A i \in DOMAIN obj'[o].cells : obj'[o].cells[i] \in DOMAIN data'[obj'[o].buf]
        BY <3>1, <3>2, LiveRecord DEF Changes
      <3>4. CASE o = a
        BY <1>2, <1>5, <3>3, <3>4 DEF Changes
      <3>5. CASE o # a
        BY <1>5, <3>1, <3>3, <3>5, LiveRecord DEF Changes, HasMask
      <3>6. QED
        BY <3>4, <3>5
    <2>3. QED
      BY <1>5, <2>1, <2>2 DEF TypeOK, Changes
  <1>8. MemInv'
    <2> SUFFICES ASSUME NEW o \in Objs, Live(o)'
                 PROVE  (/\ Live(obj[o].buf)
                         /\ Injective(obj[o].cells)
                         /\ HasMask(o) => Injective(obj[o].mcells))'
      BY DEF MemInv
    <2>1. Live(o) /\ obj'[o].cells = obj[o].cells /\ obj'[o].buf = obj[o].buf
      BY <1>2, <1>5, <1>6
    <2>2. Live(obj[o].buf)' /\ Injective(obj[o].cells)'
      <3>1. PICK p \in Objs : p = obj[o].buf
        BY <2>1, LiveRecord
      <3>2. Live(p)
        BY <2>1, <3>1 DEF Inv, MemInv
      <3>3. Live(p)'
        BY <1>6, <3>2
      <3>4. PICK c : c = obj[o].cells /\ c = obj'[o].cells
        BY <2>1
      <3>5. Injective(c)
        BY <2>1, <3>4 DEF Inv, MemInv
      <3>6. QED
        BY <2>1, <3>1, <3>3, <3>4, <3>5
    <2>3. HasMask(o)' => Injective(obj[o].mcells)'
      <3>1. CASE o = a
        <4>1. obj'[o].mcells = mc /\ obj'[o].mbuf = mb
          BY <1>2, <1>5, <3>1
        <4>2. mb # NoMask => Injective(mc)
          BY DEF Changes
        <4>3. HasMask(o)' => mb # NoMask
          BY <4>1 DEF HasMask
        <4>4. QED
          BY <4>1, <4>2, <4>3
      <3>2. CASE o # a
        <4>1. PICK c : c = obj[o].mcells /\ c = obj'[o].mcells /\ obj'[o] = obj[o]
          BY <1>5, <3>2
        <4>2. HasMask(o)' => Injective(c)
          BY <2>1, <4>1 DEF Inv, MemInv, HasMask
        <4>3. QED
          BY <4>1, <4>2
      <3>3. QED
        BY <3>1, <3>2
    <2>4. QED
      BY <2>2, <2>3
  <1>9. ASSUME SameShape, mb # NoMask => Len(mc) = Len(obj[a].cells)
        PROVE  SameShape'
    <2> SUFFICES ASSUME NEW o \in Objs, Live(o)' PROVE Sound(o)'
      BY DEF SameShape
    <2>1. CASE o = a
      BY <1>2, <1>5, <1>9, <2>1 DEF Sound, HasMask
    <2>2. CASE o # a
      BY <1>5, <1>9, <2>2 DEF Sound, SameShape, HasMask, Live
    <2>3. QED
      BY <2>1, <2>2
  <1>10. QED
    BY <1>2, <1>5, <1>6, <1>7, <1>8, <1>9 DEF Inv

\* One element of a, or of its mask, may be another: all other memory stays.
Touches(a, i, n) ==
    /\ data' \in [Objs -> Seq(Value)] /\ bits' \in [Buffers -> Seq(BOOLEAN)]
    /\ \A o \in Objs : /\ DOMAIN data'[o] = DOMAIN data[o]
                       /\ o # obj[a].buf => data'[o] = data[o]
    /\ \A b \in Buffers : /\ DOMAIN bits'[b] = DOMAIN bits[b]
                          /\ b # obj[a].mbuf => bits'[b] = bits[b]
    /\ \A j \in (1..n) \ {i} :
          /\ data'[obj[a].buf][obj[a].cells[j]] = data[obj[a].buf][obj[a].cells[j]]
          /\ HasMask(a) =>
                bits'[obj[a].mbuf][obj[a].mcells[j]] = bits[obj[a].mbuf][obj[a].mcells[j]]

LEMMA SetDataTouches ==
    ASSUME Inv, NEW a \in Objs, Live(a), NEW n \in Nat, Len(obj[a].cells) = n, NEW i \in 1..n,
           NEW v \in Value, SetData(a, i, v)
    PROVE  Touches(a, i, n)
  <1>1. PICK k, c, w : k = obj[a].buf /\ c = obj[a].cells /\ w = data[k]
    OBVIOUS
  <1>2. k \in Objs /\ w \in Seq(Value) /\ c \in Seq(Nat) /\ DOMAIN c = 1..n /\ Injective(c)
        /\ \A j \in 1..n : c[j] \in DOMAIN w
    BY <1>1, LiveRecord DEF Inv, MemInv
  <1>3. PICK w1 : w1 = [w EXCEPT ![c[i]] = v]
    OBVIOUS
  <1>4. w1 \in Seq(Value) /\ DOMAIN w1 = DOMAIN w
    BY <1>2, <1>3
  <1>5. data' = [data EXCEPT ![k] = w1] /\ bits' = bits
    BY <1>1, <1>3 DEF SetData
  <1>6. data \in [Objs -> Seq(Value)] /\ bits \in [Buffers -> Seq(BOOLEAN)]
    BY DEF Inv, TypeOK
  <1>7. \A j \in (1..n) \ {i} : w1[c[j]] = w[c[j]]
    BY <1>2, <1>3 DEF Injective
  <1>8. data' \in [Objs -> Seq(Value)] /\ data'[k] = w1
        /\ \A o \in Objs : o # k => data'[o] = data[o]
    BY <1>2, <1>4, <1>5, <1>6
  <1>9. \A o \in Objs : DOMAIN data'[o] = DOMAIN data[o]
    BY <1>1, <1>4, <1>8
  <1>10. QED
    BY <1>1, <1>5, <1>6, <1>7, <1>8, <1>9 DEF Touches

LEMMA SetMaskTouches ==
    ASSUME Inv, NEW a \in Objs, Live(a), NEW n \in Nat,
           HasMask(a) => Len(obj[a].mcells) = n, NEW i \in 1..n,
           NEW h \in BOOLEAN, SetMask(a, i, h)
    PROVE  Touches(a, i, n)
  <1>1. PICK k, c, w : k = obj[a].mbuf /\ c = obj[a].mcells /\ w = bits[k]
    OBVIOUS
  <1>2. HasMask(a)
    BY DEF SetMask
  <1>3. k \in Buffers /\ w \in Seq(BOOLEAN) /\ c \in Seq(Nat) /\ DOMAIN c = 1..n /\ Injective(c)
        /\ \A j \in 1..n : c[j] \in DOMAIN w
    BY <1>1, <1>2, LiveRecord DEF Inv, MemInv
  <1>4. PICK w1 : w1 = [w EXCEPT ![c[i]] = h]
    OBVIOUS
  <1>5. w1 \in Seq(BOOLEAN) /\ DOMAIN w1 = DOMAIN w
    BY <1>3, <1>4
  <1>6. bits' = [bits EXCEPT ![k] = w1] /\ data' = data
    BY <1>1, <1>4 DEF SetMask
  <1>7. data \in [Objs -> Seq(Value)] /\ bits \in [Buffers -> Seq(BOOLEAN)]
    BY DEF Inv, TypeOK
  <1>8. \A j \in (1..n) \ {i} : w1[c[j]] = w[c[j]]
    BY <1>3, <1>4 DEF Injective
  <1>9. bits' \in [Buffers -> Seq(BOOLEAN)] /\ bits'[k] = w1
        /\ \A b \in Buffers : b # k => bits'[b] = bits[b]
    BY <1>3, <1>5, <1>6, <1>7
  <1>10. \A b \in Buffers : DOMAIN bits'[b] = DOMAIN bits[b]
    BY <1>1, <1>5, <1>9
  <1>11. \A j \in (1..n) \ {i} : bits'[k][c[j]] = bits[k][c[j]]
    BY <1>1, <1>8, <1>9
  <1>12. QED
    BY <1>1, <1>6, <1>7, <1>9, <1>10, <1>11 DEF Touches

\* The user writes one element of the data or of the mask.
LEMMA WriteStep ==
    ASSUME Inv, calls < MaxCalls, NEW a \in Objs, Sound(a), NEW i \in DOMAIN Data(a),
           \/ \E v \in Value : SetData(a, i, v)
           \/ \E h \in BOOLEAN : SetMask(a, i, h)
    PROVE  Good
  <1>1. Live(a) /\ (HasMask(a) => Len(obj[a].mcells) = Len(obj[a].cells))
    BY DEF Sound
  <1>2. PICK n \in Nat : n = Len(obj[a].cells) /\ DOMAIN obj[a].cells = 1..n
    BY <1>1, LiveRecord
  <1>3. i \in 1..n
    <2>1. PICK x : x = Data(a)
      OBVIOUS
    <2>2. DOMAIN x = DOMAIN obj[a].cells
      BY <2>1 DEF Data, DataIn
    <2>3. QED
      BY <1>2, <2>1, <2>2
  <1>4. obj' = obj /\ calls' = calls + 1 /\ last' = [op |-> "write", on |-> <<a>>, by |-> i]
    BY DEF SetData, SetMask, Call
  <1>5. Touches(a, i, n)
    BY <1>1, <1>2, <1>3, SetDataTouches, SetMaskTouches
  <1>6. PICK r : r = obj[a]
    OBVIOUS
  <1>7. r.mbuf \in Buffers \cup {NoMask} /\ r.mcells \in Seq(Nat)
    BY <1>1, <1>6, LiveRecord
  <1>8. Changes(a, r.mbuf, r.mcells)
    <2>1. [r EXCEPT !.mbuf = r.mbuf, !.mcells = r.mcells] = r
      <3>1. r \in ObjRec
        BY <1>1, <1>6, LiveRecord
      <3>2. [r EXCEPT !.mbuf = r.mbuf] = r
        BY <3>1 DEF ObjRec
      <3>3. [r EXCEPT !.mcells = r.mcells] = r
        BY <3>1 DEF ObjRec
      <3>4. QED
        BY <3>2, <3>3
    <2>2. obj' = [obj EXCEPT ![a] = [r EXCEPT !.mbuf = r.mbuf, !.mcells = r.mcells]]
      BY <1>4, <1>6, <2>1 DEF Inv, TypeOK
    <2>3. obj' = [obj EXCEPT ![a].mbuf = r.mbuf, ![a].mcells = r.mcells]
      BY <1>6, <2>2 DEF Inv, TypeOK
    <2>4. \A o \in Objs : Live(o) /\ HasMask(o) => DOMAIN bits'[obj[o].mbuf] = DOMAIN bits[obj[o].mbuf]
      BY <1>5, LiveRecord DEF Touches
    <2>5. r.mbuf # NoMask => Injective(r.mcells)
                             /\ \A j \in DOMAIN r.mcells : r.mcells[j] \in DOMAIN bits'[r.mbuf]
      BY <1>1, <1>5, <1>6, LiveRecord DEF Touches, Inv, MemInv, HasMask
    <2>6. QED
      BY <1>4, <1>5, <2>3, <2>4, <2>5 DEF Changes, Touches
  <1>9. /\ Inv' /\ \A o \in Objs : Live(o)' <=> Live(o)
        /\ SameShape => SameShape'
    <2>1. PICK mb \in Buffers \cup {NoMask}, mc \in Seq(Nat) : mb = r.mbuf /\ mc = r.mcells
      BY <1>7
    <2>2. Changes(a, mb, mc)
      BY <1>8, <2>1
    <2>3. mb # NoMask => Len(mc) = Len(obj[a].cells)
      BY <1>1, <1>6, <2>1 DEF HasMask
    <2>4. QED
      BY <1>1, <2>2, <2>3, ChangeStep
  <1>10. kinBar' = kinBar
    <2>1. ASSUME NEW p \in Objs
          PROVE  kinBar'[p] = kinBar[p]
      <3>1. kinBar'[p] = {q \in Objs : Live(p)' /\ Live(q)' /\ (q = p \/ KinTo(obj'[p], obj'[q]))}
        BY KinsBecome
      <3>2. kinBar[p] = {q \in Objs : Live(p) /\ Live(q) /\ (q = p \/ KinTo(obj[p], obj[q]))}
        BY KinsAre
      <3>3. QED
        BY <1>4, <1>9, <3>1, <3>2
    <2>2. QED
      BY <2>1 DEF kinBar
  <1>11. PICK B, D, B1, D1 : B = bits /\ D = data /\ B1 = bits' /\ D1 = data'
    OBVIOUS
  <1>12. ASSUME NEW x \in Objs \ kinBar[a]
         PROVE  valBar'[x] = valBar[x]
    <2>1. CASE Live(x)
      <3>1. x # a /\ obj[x].buf # r.buf /\ (HasMask(x) => obj[x].mbuf # r.mbuf)
        BY <1>1, <1>6, <2>1, KinsAre DEF KinTo, HasMask
      <3>2. PICK q : q = obj[x]
        OBVIOUS
      <3>3. D1[q.buf] = D[q.buf] /\ (q.mbuf # NoMask => B1[q.mbuf] = B[q.mbuf])
        BY <1>5, <1>6, <1>11, <2>1, <3>1, <3>2, LiveRecord DEF Touches, HasMask
      <3>4. ValueOf(q, B1, D1) = ValueOf(q, B, D)
        BY <3>3 DEF ValueOf
      <3>5. valBar[x] = ValueOf(q, B, D)
        BY <1>11, <2>1, <3>2, ValuesAre
      <3>6. valBar'[x] = ValueOf(q, B1, D1)
        BY <1>4, <1>9, <1>11, <2>1, <3>2, ValuesBecome
      <3>7. QED
        BY <3>4, <3>5, <3>6
    <2>2. CASE ~Live(x)
      BY <1>9, <2>2, ValuesAre, ValuesBecome
    <2>3. QED
      BY <2>1, <2>2
  <1>13. PICK v, v1 : v = ValueOf(r, B, D) /\ v1 = ValueOf(r, B1, D1)
    OBVIOUS
  <1>14. valBar[a] = v /\ valBar'[a] = v1
    <2>1. valBar[a] = v
      BY <1>1, <1>6, <1>11, <1>13, ValuesAre
    <2>2. valBar'[a] = v1
      BY <1>1, <1>4, <1>6, <1>9, <1>11, <1>13, ValuesBecome
    <2>3. QED
      BY <2>1, <2>2
  <1>15. DOMAIN v = 1..n /\ DOMAIN v1 = 1..n /\ Len(v1) = n /\ Len(v) = n
         /\ \A j \in (1..n) \ {i} : v1[j] = v[j]
    <2>1. DOMAIN r.cells = 1..n /\ (r.mbuf # NoMask => DOMAIN r.mcells = 1..n)
      BY <1>1, <1>2, <1>6, <1>7 DEF HasMask
    <2>2. \A j \in (1..n) \ {i} :
             /\ D1[r.buf][r.cells[j]] = D[r.buf][r.cells[j]]
             /\ r.mbuf # NoMask => B1[r.mbuf][r.mcells[j]] = B[r.mbuf][r.mcells[j]]
      BY <1>5, <1>6, <1>11 DEF Touches, HasMask
    <2>3. CASE r.mbuf = NoMask
      <3>1. v = [j \in 1..n |-> D[r.buf][r.cells[j]]] /\ v1 = [j \in 1..n |-> D1[r.buf][r.cells[j]]]
        BY <1>13, <2>1, <2>3 DEF ValueOf
      <3>2. QED
        BY <2>2, <3>1
    <2>4. CASE r.mbuf # NoMask
      <3>1. /\ v = [j \in 1..n |-> IF B[r.mbuf][r.mcells[j]] THEN Masked ELSE D[r.buf][r.cells[j]]]
            /\ v1 = [j \in 1..n |-> IF B1[r.mbuf][r.mcells[j]] THEN Masked
                                    ELSE D1[r.buf][r.cells[j]]]
        BY <1>13, <2>1, <2>4 DEF ValueOf
      <3>2. QED
        BY <2>2, <2>4, <3>1
    <2>5. QED
      BY <2>3, <2>4
  <1>16. Optional!Exists(a)
    BY SoundExists
  <1>17. Optional!Write(a, i)
    BY <1>3, <1>10, <1>12, <1>14, <1>15, <1>16 DEF Optional!Write
  <1>18. Optional!Next
    <2>1. last'.op = "write" /\ last'.on[1] = a /\ last'.by = i
      BY <1>4
    <2>2. QED
      BY <1>17, <2>1 DEF Optional!Next
  <1>19. QED
    BY <1>9, <1>18 DEF Good

\* The m cells of a window lie in the memory, apart from each other.
Window(cells, m, mem) ==
    /\ DOMAIN cells = 1..m /\ Injective(cells)
    /\ \A i \in 1..m : cells[i] \in DOMAIN mem

Lands(mem, cells, vals, m) == \A i \in 1..m : mem[cells[i]] = vals[i]

LEMMA AssignApart ==
    ASSUME NEW mem, NEW m \in Nat, NEW cells, Window(cells, m, mem), NEW vals,
           NEW mem1, mem1 = Assign(mem, cells, vals)
    PROVE  Lands(mem1, cells, vals, m)
  <1> SUFFICES ASSUME NEW i \in 1..m PROVE mem1[cells[i]] = vals[i]
    BY DEF Lands
  <1>1. PICK c : c = cells[i]
    OBVIOUS
  <1>2. PICK hits : hits = {j \in DOMAIN cells : cells[j] = c}
    OBVIOUS
  <1>3. hits = {i}
    BY <1>1, <1>2 DEF Window, Injective
  <1>4. Max(hits) = i
    <2>1. hits \in SUBSET Int /\ i \in hits /\ \A j \in hits : j <= i
      BY <1>3
    <2>2. QED
      BY <2>1, MaxIs
  <1>5. Assign(mem, cells, vals)[c] = IF hits = {} THEN mem[c] ELSE vals[Max(hits)]
    BY <1>1, <1>2 DEF Assign, Window
  <1>6. QED
    BY <1>1, <1>3, <1>4, <1>5

\* What `a %= b` leaves in the memory of a: the remainders, then the constant where the
\* domain ends.
Remainders(w, k, c, r, e, w2) ==
    /\ w2 \in Seq(Value) /\ DOMAIN w2 = DOMAIN w
    /\ \A i \in 1..k : w2[c[i]] = IF e[i] THEN RemFill ELSE r[i]

LEMMA RemMemory ==
    ASSUME NEW w \in Seq(Value), NEW k \in Nat, NEW c, Window(c, k, w),
           NEW r \in [1..k -> Value], NEW e \in [1..k -> BOOLEAN],
           NEW w1, w1 = Assign(w, c, r)
    PROVE  Remainders(w, k, c, r, e, Refilled(w1, c, e))
  <1>0. PICK w2 : w2 = Refilled(w1, c, e)
    OBVIOUS
  <1>1. PICK n \in Nat : w \in [1..n -> Value]
    OBVIOUS
  <1>2. w1 \in [1..n -> Value]
    BY <1>1, AssignType DEF Window
  <1>3. RemFill \in Value
    BY MaskedAssumption
  <1>4. w2 \in [1..n -> Value]
    BY <1>0, <1>2, <1>3 DEF Refilled
  <1>5. \A i \in 1..k : w1[c[i]] = r[i]
    <2>1. Lands(w1, c, r, k)
      BY AssignApart
    <2>2. QED
      BY <2>1 DEF Lands
  <1>6. \A i \in 1..k : w2[c[i]] = IF e[i] THEN RemFill ELSE r[i]
    <2> TAKE i \in 1..k
    <2>1. c[i] \in DOMAIN w1
      BY <1>1, <1>2 DEF Window
    <2>2. (\E j \in DOMAIN e : e[j] /\ c[j] = c[i]) <=> e[i]
      BY DEF Window, Injective
    <2>3. w2[c[i]] = IF e[i] THEN RemFill ELSE w1[c[i]]
      BY <1>0, <2>1, <2>2 DEF Refilled
    <2>4. QED
      BY <1>5, <2>3
  <1>7. DOMAIN w2 = DOMAIN w /\ w2 \in Seq(Value)
    BY <1>1, <1>4
  <1>8. QED
    BY <1>0, <1>6, <1>7 DEF Remainders

Remasks(a, m) == obj' = [obj EXCEPT ![a].mbuf = m.buf, ![a].mcells = m.cells]

\* `a %= b` on k elements: where e says, the remainder lies outside the domain; m hides
\* what w says.
Remade(a, b, k, x, g, y, h, e, w, m) ==
    /\ Paired(a, b, k, x, g, y, h) /\ Len(obj[a].cells) = k
    /\ data' \in [Objs -> Seq(Value)]
    /\ \A o \in Objs : /\ DOMAIN data'[o] = DOMAIN data[o]
                       /\ o # obj[a].buf => data'[o] = data[o]
    /\ \A i \in 1..k : data'[obj[a].buf][obj[a].cells[i]]
                         = IF e[i] THEN RemFill ELSE Rem.fn[x[i]][y[i]]
    /\ obj[b].buf # obj[a].buf => e = [i \in 1..k |-> Rem.dom[Rem.fn[x[i]][y[i]]][y[i]]]
    /\ Covers(w, g, h, e, k)
    /\ Held(m, <<a, b>>, m.bits) /\ Hides(m, k, w) /\ Fits(m, k)
    /\ bits' = Allocated(m) /\ Remasks(a, m)
    /\ Call("imod", <<a, b>>, <<>>)

LEMMA ImodIs ==
    ASSUME Inv, NEW a \in Objs, NEW b \in Objs, Sound(a), Sound(b), Imod(a, b)
    PROVE  \E k \in Nat : \E x, y \in [1..k -> Value], g, h, e, w \in [1..k -> BOOLEAN] :
              \E m : Remade(a, b, k, x, g, y, h, e, w, m)
  <1>1. Len(Data(b)) \in {1, Len(Data(a))} /\ Compatible(a, b)
    BY DEF Imod, Compatible
  <1>2. PICK k \in Nat : \E x, y \in [1..k -> Value], g, h \in [1..k -> BOOLEAN] :
                            Paired(a, b, k, x, g, y, h)
    BY <1>1, Operands
  <1>3. PICK x \in [1..k -> Value], y \in [1..k -> Value], g \in [1..k -> BOOLEAN],
             h \in [1..k -> BOOLEAN] : Paired(a, b, k, x, g, y, h)
    BY <1>2
  <1>4. Live(a) /\ Live(b)
    BY DEF Sound
  <1>5. PICK B, c, w0 : B = obj[a].buf /\ c = obj[a].cells /\ w0 = data[B]
    OBVIOUS
  <1>6. PICK C, q, j : C = obj[b].buf /\ q = obj[b].cells /\ j = Len(q)
    OBVIOUS
  <1>7. B \in Objs /\ c \in Seq(Nat) /\ w0 \in Seq(Value) /\ Injective(c)
        /\ \A i \in DOMAIN c : c[i] \in DOMAIN w0
    BY <1>4, <1>5, LiveRecord DEF Inv, MemInv
  <1>8. C \in Objs /\ q \in Seq(Nat) /\ j \in Nat /\ DOMAIN q = 1..j
        /\ \A i \in 1..j : q[i] \in DOMAIN data[C]
    BY <1>4, <1>6, LiveRecord
  <1>9. Data(a) = [i \in DOMAIN c |-> w0[c[i]]] /\ Data(b) = [i \in 1..j |-> data[C][q[i]]]
    BY <1>5, <1>6, <1>8 DEF Data, DataIn
  <1>10. DOMAIN c = 1..k /\ Len(c) = k /\ j \in {1, k}
    <2>1. Len(Data(a)) = Len(c) /\ Len(Data(b)) = j
      BY <1>7, <1>8, <1>9
    <2>2. Len(c) = k
      BY <1>1, <1>3, <2>1 DEF Paired
    <2>3. QED
      BY <1>1, <1>7, <2>1, <2>2
  <1>0. Window(c, k, w0)
    BY <1>7, <1>10 DEF Window
  <1>11. Rem.fn \in [Value -> [Value -> Value]] /\ Rem.dom \in [Value -> [Value -> BOOLEAN]]
    BY MaskedAssumption
  <1>12. PICK r : r = [i \in 1..k |-> Rem.fn[x[i]][y[i]]]
    OBVIOUS
  <1>13. r \in [1..k -> Value] /\ Compute(Rem.fn, a, b) = r
    <2>1. r \in [1..k -> Value]
      BY <1>11, <1>12
    <2>2. Compute(Rem.fn, a, b) = Each(Rem.fn, k, x, y)
      BY <1>3, ComputeIs
    <2>3. QED
      BY <1>12, <2>1, <2>2 DEF Each
  <1>14. PICK w1, d1 : w1 = Assign(w0, c, r) /\ d1 = [data EXCEPT ![B] = w1]
    OBVIOUS
  <1>15. PICK na, nb : na = DataIn(d1, a) /\ nb = DataIn(d1, b)
    OBVIOUS
  <1>16. PICK e : e = ComputeIn(d1, Rem.dom, a, b)
    OBVIOUS
  <1>17. PICK w2 : w2 = Refilled(w1, c, e)
    OBVIOUS
  <1>18. PICK m2 : m2 = RemMask(a, b, e)
    OBVIOUS
  <1>19. /\ Fits(m2, k) /\ data' = [d1 EXCEPT ![B] = w2]
         /\ Remasks(a, m2)
         /\ bits' = Allocated(m2) /\ Call("imod", <<a, b>>, <<>>)
    <2>1. Len(Data(a)) = k
      BY <1>9, <1>10
    <2>2. d1 = [data EXCEPT ![obj[a].buf] = Assign(data[obj[a].buf], obj[a].cells,
                                                   Compute(Rem.fn, a, b))]
      BY <1>5, <1>13, <1>14
    <2>3. d1[B] = w1
      BY <1>7, <1>14 DEF Inv, TypeOK
    <2>4. QED
      BY <1>5, <1>16, <1>17, <1>18, <2>1, <2>2, <2>3 DEF Imod, Remasks
  <1>20. w1 \in Seq(Value) /\ DOMAIN w1 = DOMAIN w0 /\ \A i \in 1..k : w1[c[i]] = r[i]
    <2>1. PICK n \in Nat : w0 \in [1..n -> Value]
      BY <1>7
    <2>2. w1 \in [1..n -> Value]
      BY <1>10, <1>13, <1>14, <2>1, AssignType
    <2>3. \A i \in 1..k : w1[c[i]] = r[i]
      <3>1. Lands(w1, c, r, k)
        BY <1>0, <1>14, AssignApart
      <3>2. QED
        BY <3>1 DEF Lands
    <2>4. QED
      BY <2>1, <2>2, <2>3
  <1>21. /\ d1[B] = w1 /\ \A p \in Objs : /\ d1[p] \in Seq(Value) /\ DOMAIN d1[p] = DOMAIN data[p]
                                          /\ p # B => d1[p] = data[p]
    BY <1>5, <1>7, <1>14, <1>20 DEF Inv, TypeOK
  <1>22. na = r
    <2>1. na = [i \in 1..k |-> w1[c[i]]]
      BY <1>5, <1>10, <1>15, <1>21 DEF DataIn
    <2>2. QED
      BY <1>13, <1>20, <2>1
  <1>23. nb \in [1..j -> Value] /\ (C # B => nb = Data(b))
    <2>1. nb = [i \in 1..j |-> d1[C][q[i]]]
      BY <1>6, <1>8, <1>15 DEF DataIn
    <2>2. PICK u : u = d1[C] /\ u \in Seq(Value) /\ DOMAIN u = DOMAIN data[C]
                   /\ (C # B => u = data[C])
      <3>1. C \in Objs
        BY <1>8
      <3>2. d1[C] \in Seq(Value)
        BY <1>21, <3>1
      <3>3. DOMAIN d1[C] = DOMAIN data[C]
        BY <1>21, <3>1
      <3>4. C # B => d1[C] = data[C]
        BY <1>21, <3>1
      <3>5. QED
        BY <3>2, <3>3, <3>4
    <2>3. nb \in [1..j -> Value]
      <3>1. \A i \in 1..j : u[q[i]] \in Value
        BY <1>8, <2>2
      <3>2. QED
        BY <2>1, <2>2, <3>1
    <2>4. C # B => nb = Data(b)
      BY <1>9, <2>1, <2>2
    <2>5. QED
      BY <2>3, <2>4
  <1>24. PICK v : v = Broadcast(nb, k)
    OBVIOUS
  <1>25. v \in [1..k -> Value] /\ (C # B => v = y)
    <2>1. Len(nb) = j
      BY <1>8, <1>23
    <2>2. v = [i \in 1..k |-> IF j = 1 THEN nb[1] ELSE nb[i]]
      BY <1>24, <2>1 DEF Broadcast
    <2>3. v \in [1..k -> Value]
      BY <1>10, <1>23, <2>2
    <2>4. Broadcast(Data(b), k) = y
      BY <1>3 DEF Paired, Stretched
    <2>5. QED
      BY <1>23, <1>24, <2>3, <2>4
  <1>26. e = [i \in 1..k |-> Rem.dom[r[i]][v[i]]]
    <2>1. PICK t : t = IF Len(na) = 1 THEN Len(nb) ELSE Len(na)
      OBVIOUS
    <2>2. e = [i \in 1..t |-> Rem.dom[Broadcast(na, t)[i]][Broadcast(nb, t)[i]]]
      BY <1>15, <1>16, <2>1 DEF ComputeIn, Zip
    <2>3. Len(na) = k /\ Len(nb) = j
      BY <1>8, <1>13, <1>22, <1>23
    <2>4. t = k
      BY <1>10, <2>1, <2>3
    <2>5. Broadcast(na, k) = r
      BY <1>13, <1>22, <2>3 DEF Broadcast
    <2>6. QED
      BY <1>24, <2>2, <2>4, <2>5
  <1>27. e \in [1..k -> BOOLEAN]
    BY <1>11, <1>13, <1>25, <1>26
  <1>28. w2 \in Seq(Value) /\ DOMAIN w2 = DOMAIN w0
         /\ \A i \in 1..k : w2[c[i]] = IF e[i] THEN RemFill ELSE r[i]
    <2>1. w0 \in Seq(Value)
      BY <1>7
    <2>2. r \in [1..k -> Value]
      BY <1>13
    <2>3. w1 = Assign(w0, c, r)
      BY <1>14
    <2>4. Remainders(w0, k, c, r, e, Refilled(w1, c, e))
      BY <1>0, <1>27, <2>1, <2>2, <2>3, RemMemory
    <2>5. QED
      BY <1>17, <2>4 DEF Remainders
  <1>29. data' \in [Objs -> Seq(Value)] /\ data'[B] = w2
         /\ \A p \in Objs : /\ DOMAIN data'[p] = DOMAIN data[p]
                            /\ p # B => data'[p] = data[p]
    <2>1. data' = [data EXCEPT ![B] = w2]
      BY <1>14, <1>19
    <2>2. QED
      BY <1>5, <1>7, <1>28, <2>1 DEF Inv, TypeOK
  <1>30. PICK w : Covers(w, g, h, e, k)
    BY DEF Covers
  <1>31. w \in [1..k -> BOOLEAN]
    BY <1>27, <1>30 DEF Covers
  <1>32. PICK on : on = <<a, b>>
    OBVIOUS
  <1>33. Held(m2, on, m2.bits) /\ Hides(m2, k, w)
    <2>1. On(a, on) /\ On(b, on)
      BY <1>32, TwoOperands
    <2>2. QED
      BY <1>3, <1>18, <1>27, <1>30, <2>1, RemMaskIs
  <1>34. obj[b].buf # obj[a].buf => e = [i \in 1..k |-> Rem.dom[Rem.fn[x[i]][y[i]]][y[i]]]
    BY <1>5, <1>6, <1>12, <1>25, <1>26
  <1>35. \A i \in 1..k : data'[obj[a].buf][obj[a].cells[i]]
                            = IF e[i] THEN RemFill ELSE Rem.fn[x[i]][y[i]]
    BY <1>5, <1>12, <1>28, <1>29
  <1>36. Remade(a, b, k, x, g, y, h, e, w, m2)
    <2>1. Held(m2, <<a, b>>, m2.bits) /\ Hides(m2, k, w)
      BY <1>32, <1>33
    <2>2. Len(obj[a].cells) = k
      BY <1>5, <1>10
    <2>3. \A p \in Objs : /\ DOMAIN data'[p] = DOMAIN data[p]
                          /\ p # obj[a].buf => data'[p] = data[p]
      BY <1>5, <1>29
    <2>4. /\ data' \in [Objs -> Seq(Value)] /\ Fits(m2, k) /\ bits' = Allocated(m2)
          /\ Call("imod", <<a, b>>, <<>>)
      BY <1>19, <1>29
    <2>5. QED
      BY <1>3, <1>19, <1>30, <1>34, <1>35, <2>1, <2>2, <2>3, <2>4 DEF Remade
  <1>37. QED
    BY <1>27, <1>31, <1>36

LiftImod(k, x, g, y, h) ==
    [i \in 1..k |-> IF g[i] \/ h[i] THEN Masked
                    ELSE IF Rem.dom[Rem.fn[x[i]][y[i]]][y[i]] THEN Masked
                         ELSE Rem.fn[x[i]][y[i]]]
ShownImod(s, t) ==
    [i \in 1..(IF Len(s) = 1 THEN Len(t) ELSE Len(s)) |->
        IF Optional!At(s, i) = Masked \/ Optional!At(t, i) = Masked THEN Masked
        ELSE IF Rem.dom[Rem.fn[Optional!At(s, i)][Optional!At(t, i)]][Optional!At(t, i)]
             THEN Masked ELSE Rem.fn[Optional!At(s, i)][Optional!At(t, i)]]

LEMMA ResultImod ==
    ASSUME NEW a, NEW b, NEW k \in Nat, NEW x, NEW y, NEW g, NEW h, Paired(a, b, k, x, g, y, h)
    PROVE  ShownImod(valBar[a], valBar[b]) = LiftImod(k, x, g, y, h)
  <1>1. k = IF Len(valBar[a]) = 1 THEN Len(valBar[b]) ELSE Len(valBar[a])
    BY DEF Paired
  <1>2. ASSUME NEW i \in 1..k
        PROVE  /\ x[i] # Masked /\ y[i] # Masked
               /\ Optional!At(valBar[a], i) = IF g[i] THEN Masked ELSE x[i]
               /\ Optional!At(valBar[b], i) = IF h[i] THEN Masked ELSE y[i]
    BY PairedValues
  <1>3. QED
    BY <1>1, <1>2 DEF ShownImod, LiftImod

\* `a %= b` as the abstract call: a shows the remainders, the others but its kin stay.
LEMMA RemadeStep ==
    ASSUME Inv, calls < MaxCalls, NEW a \in Objs, NEW b \in Objs, Sound(a), Sound(b),
           NEW k \in Nat, NEW x \in [1..k -> Value], NEW y \in [1..k -> Value],
           NEW g \in [1..k -> BOOLEAN], NEW h \in [1..k -> BOOLEAN],
           NEW e \in [1..k -> BOOLEAN], NEW w \in [1..k -> BOOLEAN], NEW m,
           Remade(a, b, k, x, g, y, h, e, w, m)
    PROVE  Good
  <1>1. PICK on : on = <<a, b>> /\ Held(m, on, m.bits)
    BY DEF Remade
  <1>2. Live(a) /\ Live(b)
    BY DEF Sound
  <1>3. PICK mb, mc : mb = m.buf /\ mc = m.cells
    OBVIOUS
  <1>4. mb \in Buffers \cup {NoMask} /\ mc \in Seq(Nat) /\ Injective(mc)
        /\ m.bits \in [DOMAIN mc -> BOOLEAN] /\ (m = nomask <=> mb = NoMask)
    BY <1>1, <1>3 DEF Held, nomask
  <1>5. /\ bits' \in [Buffers -> Seq(BOOLEAN)]
        /\ \A p \in Objs : Live(p) /\ HasMask(p) => bits'[obj[p].mbuf] = bits[obj[p].mbuf]
        /\ mb # NoMask => \A i \in DOMAIN mc : /\ mc[i] \in DOMAIN bits'[mb]
                                               /\ bits'[mb][mc[i]] = m.bits[i]
    <2>1. bits' = Allocated(m)
      BY DEF Remade
    <2>2. bits' \in [Buffers -> Seq(BOOLEAN)]
      BY <1>1, <2>1 DEF Allocated, Held, Inv, TypeOK
    <2>3. \A p \in Objs : Live(p) /\ HasMask(p) => bits'[obj[p].mbuf] = bits[obj[p].mbuf]
      BY <2>1 DEF Allocated, Unused
    <2>4. mb # NoMask => \A i \in DOMAIN mc : /\ mc[i] \in DOMAIN bits'[mb]
                                              /\ bits'[mb][mc[i]] = m.bits[i]
      BY <1>1, <1>3, <2>1 DEF Held
    <2>5. QED
      BY <2>2, <2>3, <2>4
  <1>6. Changes(a, mb, mc)
    <2>1. obj' = [obj EXCEPT ![a].mbuf = mb, ![a].mcells = mc]
      BY <1>3 DEF Remade, Remasks
    <2>2. /\ calls' = calls + 1 /\ data' \in [Objs -> Seq(Value)]
          /\ \A o \in Objs : DOMAIN data'[o] = DOMAIN data[o]
      BY DEF Remade, Call
    <2>3. mb # NoMask => Injective(mc) /\ \A i \in DOMAIN mc : mc[i] \in DOMAIN bits'[mb]
      BY <1>4, <1>5
    <2>4. \A o \in Objs : Live(o) /\ HasMask(o) => DOMAIN bits'[obj[o].mbuf] = DOMAIN bits[obj[o].mbuf]
      BY <1>5
    <2>5. QED
      BY <1>5, <2>1, <2>2, <2>3, <2>4 DEF Changes
  <1>7. /\ Inv'
        /\ \A o \in Objs : /\ Live(o)' <=> Live(o)
                           /\ o # a => obj'[o] = obj[o]
        /\ obj'[a].mbuf = mb /\ obj'[a].mcells = mc
        /\ obj'[a].buf = obj[a].buf /\ obj'[a].cells = obj[a].cells
        /\ SameShape /\ (mb # NoMask => Len(mc) = Len(obj[a].cells)) => SameShape'
    BY <1>2, <1>4, <1>6, ChangeStep
  <1>8. ASSUME SameShape, ~Mismatched
        PROVE  SameShape' /\ Optional!Next
    <2>1. Len(obj[a].cells) = k /\ Paired(a, b, k, x, g, y, h) /\ Covers(w, g, h, e, k)
          /\ Hides(m, k, w)
      BY DEF Remade
    <2>2. m = nomask \/ Len(m.cells) = k
      BY <1>8 DEF Remade, Fits
    <2>3. SameShape'
      BY <1>3, <1>4, <1>7, <1>8, <2>1, <2>2
    <2>4. Shows(m, on, k, w)
      BY <1>1, <2>1, <2>2, HidesShows
    <2>5. PICK z : z = [i \in 1..k |-> IF e[i] THEN RemFill ELSE Rem.fn[x[i]][y[i]]]
      OBVIOUS
    <2>6. PICK B, D, B1, D1 : B = bits /\ D = data /\ B1 = bits' /\ D1 = data'
      OBVIOUS
    <2>7. PICK r, r1 : r = obj[a] /\ r1 = obj'[a]
      OBVIOUS
    <2>8. r1.mbuf = mb /\ r1.mcells = mc /\ r1.buf = r.buf /\ r1.cells = r.cells
          /\ DOMAIN r.cells = 1..k
      BY <1>2, <1>7, <2>1, <2>7, LiveRecord
    <2>9. \A i \in 1..k : D1[r.buf][r.cells[i]] = z[i]
      BY <2>5, <2>6, <2>7 DEF Remade
    <2>10. valBar'[a] = [i \in 1..k |-> IF w[i] THEN Masked ELSE z[i]]
      <3>1. valBar'[a] = ValueOf(r1, B1, D1)
        BY <1>2, <1>7, <2>6, <2>7, ValuesBecome
      <3>2. CASE m = nomask
        <4>1. ValueOf(r1, B1, D1) = [i \in 1..k |-> D1[r.buf][r.cells[i]]]
          BY <1>4, <2>8, <3>2 DEF ValueOf
        <4>2. \A i \in 1..k : ~w[i]
          BY <2>1, <3>2 DEF Hides
        <4>3. QED
          BY <2>9, <3>1, <4>1, <4>2
      <3>3. CASE m # nomask
        <4>1. DOMAIN mc = 1..k /\ mb # NoMask
          BY <1>3, <1>4, <2>2, <3>3
        <4>2. ValueOf(r1, B1, D1) = [i \in 1..k |-> IF B1[mb][mc[i]] THEN Masked
                                                   ELSE D1[r.buf][r.cells[i]]]
          BY <2>8, <4>1 DEF ValueOf
        <4>3. \A i \in 1..k : B1[mb][mc[i]] = m.bits[i]
          BY <1>5, <2>6, <4>1
        <4>4. \A i \in 1..k : m.bits[i] \in BOOLEAN
          BY <1>4, <4>1
        <4>5. \A i \in 1..k : w[i] = m.bits[i]
          BY <2>4, <3>3, <4>4 DEF Shows
        <4>6. \A i \in 1..k : B1[mb][mc[i]] = w[i]
          BY <4>3, <4>5
        <4>7. QED
          BY <2>9, <3>1, <4>2, <4>6
      <3>4. QED
        BY <3>2, <3>3
    <2>11. b \notin kinBar[a] =>
              valBar'[a] = Optional!Lift2(LAMBDA s, t : IF Rem.dom[Rem.fn[s][t]][t] THEN Masked
                                                        ELSE Rem.fn[s][t], valBar[a], valBar[b])
      <3> HAVE b \notin kinBar[a]
      <3>1. obj[b].buf # obj[a].buf
        BY <1>2, KinsAre DEF KinTo
      <3>2. e = [i \in 1..k |-> Rem.dom[Rem.fn[x[i]][y[i]]][y[i]]]
        BY <3>1 DEF Remade
      <3>3. [i \in 1..k |-> IF w[i] THEN Masked ELSE z[i]]
            = LiftImod(k, x, g, y, h)
        BY <2>1, <2>5, <3>2 DEF Covers, LiftImod
      <3>4. PICK s, t : s = valBar[a] /\ t = valBar[b]
        OBVIOUS
      <3>5. valBar'[a] = ShownImod(s, t)
        <4>1. Paired(a, b, k, x, g, y, h)
          BY <2>1
        <4>2. ShownImod(valBar[a], valBar[b]) = LiftImod(k, x, g, y, h)
          BY <4>1, ResultImod
        <4>3. QED
          BY <2>10, <3>3, <3>4, <4>2
      <3>6. QED
        BY <3>4, <3>5 DEF ShownImod, Optional!Lift2
    <2>12. ASSUME NEW p \in Objs \ kinBar[a]
           PROVE  valBar'[p] = valBar[p]
      <3>1. CASE Live(p)
        <4>1. p # a /\ obj[p].buf # r.buf
          BY <1>2, <2>7, <3>1, KinsAre DEF KinTo
        <4>2. PICK q : q = obj[p] /\ q = obj'[p]
          BY <1>7, <4>1
        <4>3. D1[q.buf] = D[q.buf] /\ (q.mbuf # NoMask => B1[q.mbuf] = B[q.mbuf])
          <5>1. q.buf \in Objs /\ q.buf # obj[a].buf
            BY <2>7, <3>1, <4>1, <4>2, LiveRecord
          <5>2. \A u \in Objs : u # obj[a].buf => data'[u] = data[u]
            BY DEF Remade
          <5>3. D1[q.buf] = D[q.buf]
            BY <2>6, <5>1, <5>2
          <5>4. q.mbuf # NoMask => B1[q.mbuf] = B[q.mbuf]
            BY <1>5, <2>6, <3>1, <4>2 DEF HasMask
          <5>5. QED
            BY <5>3, <5>4
        <4>4. ValueOf(q, B1, D1) = ValueOf(q, B, D)
          BY <4>3 DEF ValueOf
        <4>5. valBar[p] = ValueOf(q, B, D)
          BY <2>6, <3>1, <4>2, ValuesAre
        <4>6. valBar'[p] = ValueOf(q, B1, D1)
          BY <1>7, <2>6, <3>1, <4>2, ValuesBecome
        <4>7. QED
          BY <4>4, <4>5, <4>6
      <3>2. CASE ~Live(p)
        BY <1>7, <3>2, ValuesAre, ValuesBecome
      <3>3. QED
        BY <3>1, <3>2
    <2>13. kinBar'[a] \subseteq kinBar[a] \cup kinBar[b]
      <3> SUFFICES ASSUME NEW q \in Objs, q \in kinBar'[a]
                   PROVE  q \in kinBar[a] \cup kinBar[b]
        BY KinsBecome
      <3>1. Live(q) /\ (q = a \/ KinTo(obj'[a], obj'[q]))
        BY <1>7, KinsBecome
      <3>2. CASE q = a
        BY <1>2, <3>2, KinsAre
      <3>3. CASE q # a
        <4>1. obj'[q] = obj[q] /\ (obj[q].buf = obj[a].buf \/ (mb # NoMask /\ obj[q].mbuf = mb))
          BY <1>7, <3>1, <3>3 DEF KinTo
        <4>2. CASE obj[q].buf = obj[a].buf
          BY <1>2, <3>1, <4>2, KinsAre DEF KinTo
        <4>3. CASE mb # NoMask /\ obj[q].mbuf = mb
          <5>1. mb \notin Unused
            BY <3>1, <4>3 DEF Unused
          <5>2. PICK p \in Objs : On(p, on) /\ Live(p) /\ mb = obj[p].mbuf
            BY <1>1, <1>3, <4>3, <5>1 DEF Held
          <5>3. p = a \/ p = b
            <6>1. PICK i \in DOMAIN <<a, b>> : <<a, b>>[i] = p
              BY <1>1, <5>2 DEF On
            <6>2. i = 1 \/ i = 2
              BY <6>1
            <6>3. QED
              BY <6>1, <6>2
          <5>4. q \in kinBar[p]
            BY <3>1, <4>3, <5>2, KinsAre DEF KinTo
          <5>5. QED
            BY <5>3, <5>4
        <4>4. QED
          BY <4>1, <4>2, <4>3
      <3>4. QED
        BY <3>2, <3>3
    <2>14. \A p, q \in Objs \ {a} : q \in kinBar'[p] <=> q \in kinBar[p]
      <3> TAKE p, q \in Objs \ {a}
      <3>1. q \in kinBar'[p] <=> (Live(p)' /\ Live(q)' /\ (q = p \/ KinTo(obj'[p], obj'[q])))
        BY KinsBecome
      <3>2. q \in kinBar[p] <=> (Live(p) /\ Live(q) /\ (q = p \/ KinTo(obj[p], obj[q])))
        BY KinsAre
      <3>3. QED
        BY <1>7, <3>1, <3>2
    <2>15. \A p \in Objs : a \in kinBar'[p] <=> p \in kinBar'[a]
      <3> TAKE p \in Objs
      <3>1. a \in kinBar'[p] <=> (Live(p)' /\ Live(a)' /\ (a = p \/ KinTo(obj'[p], obj'[a])))
        BY KinsBecome
      <3>2. p \in kinBar'[a] <=> (Live(a)' /\ Live(p)' /\ (p = a \/ KinTo(obj'[a], obj'[p])))
        BY KinsBecome
      <3>3. QED
        BY <3>1, <3>2 DEF KinTo
    <2>16. Optional!Exists(a) /\ Optional!Exists(b)
      BY SoundExists
    <2>17. Optional!InPlaceRem(a, b)
      BY <2>11, <2>12, <2>13, <2>14, <2>15, <2>16 DEF Optional!InPlaceRem
    <2>18. last'.op = "imod" /\ last'.on[1] = a /\ last'.on[2] = b
      BY DEF Remade, Call
    <2>19. QED
      BY <2>3, <2>17, <2>18 DEF Optional!Next
  <1>9. QED
    BY <1>7, <1>8 DEF Good

LEMMA ImodStep ==
    ASSUME Inv, calls < MaxCalls, NEW a \in Objs, NEW b \in Objs, Sound(a), Sound(b), Imod(a, b)
    PROVE  Good
  <1>1. PICK k \in Nat : \E x, y \in [1..k -> Value], g, h, e, w \in [1..k -> BOOLEAN] :
                            \E m : Remade(a, b, k, x, g, y, h, e, w, m)
    BY ImodIs
  <1>2. PICK x \in [1..k -> Value], y \in [1..k -> Value], g \in [1..k -> BOOLEAN],
             h \in [1..k -> BOOLEAN], e \in [1..k -> BOOLEAN], w \in [1..k -> BOOLEAN] :
             \E m : Remade(a, b, k, x, g, y, h, e, w, m)
    BY <1>1
  <1>3. PICK m : Remade(a, b, k, x, g, y, h, e, w, m)
    BY <1>2
  <1>4. QED
    BY <1>3, RemadeStep

-----------------------------------------------------------------------------
(* Loops: values computed one from another. *)

\* f starts at b and takes the steps one after the other, as long as it stays in S.
Chain(f, n, S, b, step) ==
    f[0] = b /\ \A i \in 1..n : f[i - 1] \in S => f[i] = step[i][f[i - 1]]

LEMMA ChainExists ==
    ASSUME NEW n \in Nat, NEW S, NEW b \in S, NEW step \in [1..n -> [S -> S]]
    PROVE  \E f \in [0..n -> S] : Chain(f, n, S, b, step)
  <1> DEFINE Run(j) == \E f \in [0..j -> S] : Chain(f, j, S, b, step)
             T == {j \in 0..n : ~Run(j)}
  <1>1. b \in S
    OBVIOUS
  <1>2. Run(0)
    <2>1. PICK f : f = [i \in 0..0 |-> b]
      OBVIOUS
    <2>2. f \in [0..0 -> S] /\ Chain(f, 0, S, b, step)
      BY <1>1, <2>1 DEF Chain
    <2>3. QED
      BY <2>2
  <1>3. ASSUME NEW j \in 0..(n - 1), Run(j)
        PROVE  Run(j + 1)
    <2>1. PICK f \in [0..j -> S] : Chain(f, j, S, b, step)
      BY <1>3
    <2>2. PICK u : u = step[j + 1][f[j]]
      OBVIOUS
    <2>3. u \in S
      <3>1. j + 1 \in 1..n /\ f[j] \in S
        OBVIOUS
      <3>2. QED
        BY <2>2, <3>1
    <2>4. PICK r : r = [i \in 0..(j + 1) |-> IF i = j + 1 THEN u ELSE f[i]]
      OBVIOUS
    <2>5. r \in [0..(j + 1) -> S] /\ r[j + 1] = u /\ \A i \in 0..j : r[i] = f[i]
      BY <2>3, <2>4
    <2>6. Chain(r, j + 1, S, b, step)
      <3>1. r[0] = b
        BY <2>1, <2>5 DEF Chain
      <3>2. ASSUME NEW i \in 1..(j + 1)
            PROVE  r[i] = step[i][r[i - 1]]
        <4>1. CASE i = j + 1
          BY <2>2, <2>5, <4>1
        <4>2. CASE i # j + 1
          <5>1. i \in 1..j /\ i - 1 \in 0..j /\ f[i - 1] \in S
            BY <4>2
          <5>2. QED
            BY <2>1, <2>5, <5>1 DEF Chain
        <4>3. QED
          BY <4>1, <4>2
      <3>3. QED
        BY <3>1, <3>2 DEF Chain
    <2>7. QED
      BY <2>5, <2>6
  <1> HIDE DEF Run
  <1>4. T = {}
    <2> SUFFICES ASSUME T # {} PROVE FALSE
      OBVIOUS
    <2>1. PICK m \in T : \A j \in T : m <= j
      <3>1. T \in SUBSET Nat
        OBVIOUS
      <3>2. QED
        BY <3>1, Least
    <2>2. m # 0 /\ m - 1 \in 0..(n - 1) /\ m - 1 \notin T
      BY <1>2, <2>1
    <2>3. Run(m - 1)
      BY <2>2
    <2>4. Run((m - 1) + 1)
      BY <1>3, <2>2, <2>3
    <2>5. (m - 1) + 1 = m
      BY <2>1
    <2>6. QED
      BY <2>1, <2>4, <2>5
  <1>5. Run(n)
    BY <1>4
  <1>6. QED
    BY <1>5 DEF Run

LEMMA ChainUnique ==
    ASSUME NEW n \in Nat, NEW S, NEW b, NEW step, NEW f \in [0..n -> S],
           Chain(f, n, S, b, step), NEW g, Chain(g, n, S, b, step), NEW i \in 0..n
    PROVE  g[i] = f[i]
  <1> DEFINE T == {j \in 0..n : g[j] # f[j]}
  <1>1. ASSUME T # {}
        PROVE  FALSE
    <2>1. PICK m \in T : \A j \in T : m <= j
      <3>1. T \in SUBSET Nat
        OBVIOUS
      <3>2. QED
        BY <1>1, <3>1, Least
    <2>2. m # 0
      BY <2>1 DEF Chain
    <2>3. m \in 1..n /\ m - 1 \in 0..n /\ m - 1 \notin T
      BY <2>1, <2>2
    <2>4. g[m - 1] = f[m - 1] /\ f[m - 1] \in S
      BY <2>3
    <2>5. g[m] = f[m]
      BY <2>3, <2>4 DEF Chain
    <2>6. QED
      BY <2>1, <2>5
  <1>2. QED
    BY <1>1

-----------------------------------------------------------------------------
(* Cumulative sums: what is added for a hidden element changes nothing. *)

\* f starts at zero and takes the steps one after the other.
Follows(f, n, step) == Chain(f, n, Value, Zero, step)

LEMMA RunExists ==
    ASSUME NEW n \in Nat, NEW step \in [1..n -> [Value -> Value]]
    PROVE  \E f \in [0..n -> Value] : Follows(f, n, step)
  BY ChainExists, MaskedAssumption DEF Follows

LEMMA RunUnique ==
    ASSUME NEW n \in Nat, NEW step, NEW f \in [0..n -> Value], Follows(f, n, step),
           NEW g, Follows(g, n, step), NEW i \in 0..n
    PROVE  g[i] = f[i]
  BY ChainUnique DEF Follows

Adds(n, x) == [i \in 1..n |-> [v \in Value |-> Plus[v][x[i]]]]

LEMMA SumsAre ==
    ASSUME NEW n \in Nat, NEW x \in [1..n -> Value], NEW f \in [0..n -> Value],
           Follows(f, n, Adds(n, x))
    PROVE  Sums(x) = [i \in 1..n |-> f[i]]
  <1>1. Len(x) = n /\ DOMAIN x = 1..n
    OBVIOUS
  <1>2. \A i \in 1..n : f[i] = Plus[f[i - 1]][x[i]]
    <2> TAKE i \in 1..n
    <2>1. f[i - 1] \in Value
      OBVIOUS
    <2>2. QED
      BY <2>1 DEF Follows, Chain, Adds
  <1>3. f = [i \in 0..n |-> IF i = 0 THEN Zero ELSE Plus[f[i - 1]][x[i]]]
    BY <1>2 DEF Follows, Chain
  <1>4. PICK q : q = CHOOSE s : s = [i \in 0..n |-> IF i = 0 THEN Zero ELSE Plus[s[i - 1]][x[i]]]
    OBVIOUS
  <1>5. q = [i \in 0..n |-> IF i = 0 THEN Zero ELSE Plus[q[i - 1]][x[i]]]
    BY <1>3, <1>4
  <1>6. Follows(q, n, Adds(n, x))
    BY <1>5 DEF Follows, Chain, Adds
  <1>7. \A i \in 0..n : q[i] = f[i]
    BY <1>6, RunUnique
  <1>8. Sums(x) = [i \in 1..n |-> q[i]]
    BY <1>1, <1>4 DEF Sums
  <1>9. QED
    BY <1>7, <1>8

\* s shows x where h does not hide it, and x is zero where it does.
Zeroed(s, n, x, h) ==
    \A i \in 1..n : /\ h[i] => s[i] = Masked /\ x[i] = Zero
                    /\ ~h[i] => s[i] = x[i] /\ s[i] # Masked

LEMMA SeenSumsAre ==
    ASSUME NEW n \in Nat, NEW x \in [1..n -> Value], NEW f \in [0..n -> Value],
           Follows(f, n, Adds(n, x)), NEW h \in [1..n -> BOOLEAN], NEW s, DOMAIN s = 1..n,
           Len(s) = n, Zeroed(s, n, x, h)
    PROVE  Optional!Sums(s) = [i \in 1..n |-> IF h[i] THEN Masked ELSE f[i]]
  <1>1. \A i \in 1..n : f[i] = IF s[i] = Masked THEN f[i - 1] ELSE Plus[f[i - 1]][s[i]]
    <2> TAKE i \in 1..n
    <2>1. f[i - 1] \in Value
      OBVIOUS
    <2>2. f[i] = Plus[f[i - 1]][x[i]]
      BY <2>1 DEF Follows, Chain, Adds
    <2>3. QED
      BY <2>1, <2>2, MaskedAssumption DEF Zeroed
  <1>2. f = [i \in 0..n |-> IF i = 0 THEN Zero
                            ELSE IF s[i] = Masked THEN f[i - 1] ELSE Plus[f[i - 1]][s[i]]]
    BY <1>1, SMTT(30) DEF Follows, Chain
  <1>3. PICK q : q = CHOOSE t : t = [i \in 0..n |->
                        IF i = 0 THEN Zero
                        ELSE IF s[i] = Masked THEN t[i - 1] ELSE Plus[t[i - 1]][s[i]]]
    OBVIOUS
  <1>4. q = [i \in 0..n |-> IF i = 0 THEN Zero
                            ELSE IF s[i] = Masked THEN q[i - 1] ELSE Plus[q[i - 1]][s[i]]]
    BY <1>2, <1>3
  <1>5. Follows(q, n, Adds(n, x))
    <2>1. q[0] = Zero
      BY <1>4
    <2>2. ASSUME NEW i \in 1..n, q[i - 1] \in Value
          PROVE  q[i] = Adds(n, x)[i][q[i - 1]]
      <3>1. Adds(n, x)[i][q[i - 1]] = Plus[q[i - 1]][x[i]]
        BY <2>2 DEF Adds
      <3>2. q[i] = IF s[i] = Masked THEN q[i - 1] ELSE Plus[q[i - 1]][s[i]]
        BY <1>4
      <3>3. Plus[q[i - 1]][Zero] = q[i - 1]
        BY <2>2, MaskedAssumption
      <3>4. QED
        BY <3>1, <3>2, <3>3 DEF Zeroed
    <2>3. QED
      BY <2>1, <2>2 DEF Follows, Chain
  <1>6. \A i \in 0..n : q[i] = f[i]
    BY <1>5, RunUnique
  <1>7. Optional!Sums(s) = [i \in 1..n |-> IF s[i] = Masked THEN Masked ELSE q[i]]
    BY <1>3 DEF Optional!Sums
  <1>8. QED
    BY <1>6, <1>7 DEF Zeroed

LEMMA ResultCumsum ==
    ASSUME NEW a, NEW w
    PROVE  Optional!Result([op |-> "cumsum", on |-> <<a>>, by |-> w]) = {Optional!Sums(valBar[a])}
  BY DEF Optional!Result

\* a.cumsum().
LEMMA CumsumStep ==
    ASSUME Inv, calls < MaxCalls, NEW o \in Objs, NEW a \in Objs, Sound(a), cumsum(o, a)
    PROVE  Good
  <1>1. PICK n \in Nat : \E x \in [1..n -> Value], h \in [1..n -> BOOLEAN] :
              /\ Elems(a, n, x, h) /\ Live(a) /\ Data(a) = x /\ Len(x) = n
              /\ DOMAIN valBar[a] = 1..n
              /\ \A i \in 1..n : x[i] # Masked /\ valBar[a][i] = IF h[i] THEN Masked ELSE x[i]
    BY Operand
  <1>2. PICK x \in [1..n -> Value], h \in [1..n -> BOOLEAN] :
              /\ Elems(a, n, x, h) /\ Live(a) /\ Data(a) = x /\ Len(x) = n
              /\ DOMAIN valBar[a] = 1..n
              /\ \A i \in 1..n : x[i] # Masked /\ valBar[a][i] = IF h[i] THEN Masked ELSE x[i]
    BY <1>1
  <1>3. Zero \in Value /\ Unset \in Value \cup {Unset}
    BY MaskedAssumption
  <1>4. PICK y : y = [i \in 1..n |-> IF h[i] THEN Zero ELSE x[i]]
    OBVIOUS
  <1>5. filled(a, Zero) = y /\ y \in [1..n -> Value]
    BY <1>2, <1>3, <1>4, FilledIs
  <1>6. PICK f \in [0..n -> Value] : Follows(f, n, Adds(n, y))
    <2>1. \A i \in 1..n, v \in Value : Plus[v][y[i]] \in Value
      BY <1>5, MaskedAssumption
    <2>2. Adds(n, y) \in [1..n -> [Value -> Value]]
      BY <2>1 DEF Adds
    <2>3. QED
      BY <2>2, RunExists
  <1>7. PICK z : z = [i \in 1..n |-> f[i]]
    OBVIOUS
  <1>8. Sums(y) = z /\ z \in [1..n -> Value]
    BY <1>5, <1>6, <1>7, SumsAre
  <1>9. PICK s : s = valBar[a] /\ s = [i \in 1..n |-> IF h[i] THEN Masked ELSE x[i]]
    BY <1>2 DEF Elems
  <1>10. DOMAIN s = 1..n /\ Len(s) = n
    BY <1>9
  <1>11. Zeroed(s, n, y, h)
    BY <1>2, <1>4, <1>9 DEF Zeroed
  <1>12. Optional!Sums(s) = [i \in 1..n |-> IF h[i] THEN Masked ELSE f[i]]
    BY <1>5, <1>6, <1>10, <1>11, SeenSumsAre
  <1>13. [i \in 1..n |-> IF h[i] THEN Masked ELSE z[i]]
           \in Optional!Result([op |-> "cumsum", on |-> <<a>>, by |-> <<>>])
    <2>1. [i \in 1..n |-> IF h[i] THEN Masked ELSE z[i]] = Optional!Sums(s)
      BY <1>7, <1>12
    <2>2. QED
      BY <1>9, <2>1, ResultCumsum
  <1>14. PICK d, m : d = FreshData(o, z) /\ m = Mask(a)
    OBVIOUS
  <1>15. Create(o, d, m, Unset) /\ Call("cumsum", <<a>>, <<>>)
    BY <1>5, <1>8, <1>14 DEF cumsum
  <1>16. Source(o, d, <<a>>, n, z)
    BY <1>8, <1>14, FreshSource
  <1>17. Shows(m, <<a>>, n, h)
    BY <1>2, <1>14, OneOperand, OwnMask
  <1>18. Computes(o, d, m, Unset, "cumsum", <<a>>, <<>>, n, z, h)
    BY <1>3, <1>8, <1>13, <1>15, <1>16, <1>17, OneOperand DEF Computes, Shows
  <1>19. QED
    BY <1>18, CallStep

-----------------------------------------------------------------------------
(* Every step. *)

LEMMA InitHolds ==
    ASSUME Init
    PROVE  Inv /\ SameShape /\ Optional!Init
  <1>1. \A o \in Objs : ~Live(o)
    BY DEF Init, Live
  <1>2. TypeOK
    <2>1. <<>> \in Seq(Value) /\ <<>> \in Seq(BOOLEAN) /\ 0 \in 0..MaxCalls
      BY MaskedAssumption
    <2>2. QED
      BY <1>1, <2>1 DEF Init, TypeOK, Live
  <1>3. MemInv /\ SameShape
    BY <1>1 DEF MemInv, SameShape
  <1>4. valBar = [o \in Objs |-> None]
    BY <1>1 DEF valBar
  <1>5. kinBar = [o \in Objs |-> {}]
    BY <1>1 DEF kinBar
  <1>6. QED
    BY <1>2, <1>3, <1>4, <1>5 DEF Init, Inv, Optional!Init

LEMMA OneArrayStep ==
    ASSUME Inv, calls < MaxCalls, NEW o \in Objs, NEW a \in Objs, Sound(a), OneArray(o, a)
    PROVE  Good
  <1>1. CASE Rewrap(o, a) \/ Copy(o, a)
    BY <1>1, CopyStep
  <1>2. CASE cumsum(o, a)
    BY <1>2, CumsumStep
  <1>3. CASE \E f \in UnaryFns : Unary(o, a, f) \/ UnaryDunder(o, a, f)
    <2>1. PICK f \in UnaryFns : Unary(o, a, f) \/ UnaryDunder(o, a, f)
      BY <1>3
    <2>2. QED
      BY <2>1, UnaryStep
  <1>4. CASE \E f \in DomainedUnaryFns : DomainedUnary(o, a, f)
    <2>1. PICK f \in DomainedUnaryFns : DomainedUnary(o, a, f)
      BY <1>4
    <2>2. QED
      BY <2>1, DomainedUnaryStep
  <1>5. CASE \E pick \in Slices(Len(Data(a))) : View(o, a, pick) \/ Take(o, a, pick)
    <2>1. PICK pick \in Slices(Len(Data(a))) : View(o, a, pick) \/ Take(o, a, pick)
      BY <1>5
    <2>2. QED
      BY <2>1, SelectStep
  <1>6. CASE \E v \in Fills : Filled(o, a, v) \/ masked_values(o, a, v)
    <2>1. PICK v \in Fills : Filled(o, a, v) \/ masked_values(o, a, v)
      BY <1>6
    <2>2. QED
      BY <2>1, FilledStep
  <1>7. CASE \E p \in Preds, copied \in BOOLEAN : Comparator(o, a, p, copied)
    <2>1. PICK p \in Preds, copied \in BOOLEAN : Comparator(o, a, p, copied)
      BY <1>7
    <2>2. QED
      BY <2>1, ComparatorStep
  <1>8. CASE \E m \in NewMasks \cup {Constant(Data(a), FALSE)} :
                Len(m) = Len(Data(a)) /\ fix_invalid(o, a, m)
    <2>1. PICK m \in NewMasks \cup {Constant(Data(a), FALSE)} :
                  Len(m) = Len(Data(a)) /\ fix_invalid(o, a, m)
      BY <1>8
    <2>2. QED
      BY <2>1, FixStep
  <1>9. QED
    BY <1>1, <1>2, <1>3, <1>4, <1>5, <1>6, <1>7, <1>8 DEF OneArray

LEMMA TwoArraysStep ==
    ASSUME Inv, calls < MaxCalls, NEW o \in Objs, NEW a \in Objs, NEW b \in Objs,
           Sound(a), Sound(b), TwoArrays(o, a, b)
    PROVE  Good
  <1>1. CASE Wrap(o, a, b)
    BY <1>1, WrapStep
  <1>2. CASE \E copied \in BOOLEAN : masked_where(o, a, b, copied)
    <2>1. PICK copied \in BOOLEAN : masked_where(o, a, b, copied)
      BY <1>2
    <2>2. QED
      BY <2>1, WhereStep
  <1>3. CASE /\ Compatible(a, b)
             /\ \E f \in BinaryFns : Binary(o, a, b, f) \/ BinaryDunder(o, a, b, f)
                                     \/ Compare(o, a, b, f)
    <2>1. PICK f \in BinaryFns : Binary(o, a, b, f) \/ BinaryDunder(o, a, b, f)
                                 \/ Compare(o, a, b, f)
      BY <1>3
    <2>2. QED
      BY <1>3, <2>1, BinaryStep
  <1>4. CASE Compatible(a, b) /\ \E f \in DomainedBinaryFns : DomainedBinary(o, a, b, f)
    <2>1. PICK f \in DomainedBinaryFns : DomainedBinary(o, a, b, f)
      BY <1>4
    <2>2. QED
      BY <1>4, <2>1, DomainedBinaryStep
  <1>5. CASE Compatible(a, b) /\ Mod(o, a, b)
    BY <1>5, ModStep
  <1>6. CASE Stack(o, a, b)
    BY <1>6, StackStep
  <1>7. QED
    BY <1>1, <1>2, <1>3, <1>4, <1>5, <1>6 DEF TwoArrays

LEMMA NextStep ==
    ASSUME Inv, Next
    PROVE  Good
  <1>1. calls < MaxCalls
    BY DEF Next
  <1>2. CASE \E o \in Objs : New(o)
    <2>1. PICK o \in Objs : New(o)
      BY <1>2
    <2>2. QED
      BY <1>1, <2>1, NewStep
  <1>3. CASE \E o, a \in Objs : Sound(a) /\ OneArray(o, a)
    <2>1. PICK o \in Objs, a \in Objs : Sound(a) /\ OneArray(o, a)
      BY <1>3
    <2>2. QED
      BY <1>1, <2>1, OneArrayStep
  <1>4. CASE \E o, a, b \in Objs : Sound(a) /\ Sound(b) /\ TwoArrays(o, a, b)
    <2>1. PICK o \in Objs, a \in Objs, b \in Objs : Sound(a) /\ Sound(b) /\ TwoArrays(o, a, b)
      BY <1>4
    <2>2. QED
      BY <1>1, <2>1, TwoArraysStep
  <1>5. CASE \E a, b \in Objs : Sound(a) /\ Sound(b) /\ Imod(a, b)
    <2>1. PICK a \in Objs, b \in Objs : Sound(a) /\ Sound(b) /\ Imod(a, b)
      BY <1>5
    <2>2. QED
      BY <1>1, <2>1, ImodStep
  <1>6. CASE \E a \in Objs : /\ Sound(a)
                             /\ \E i \in DOMAIN Data(a) :
                                  \/ \E v \in Value : SetData(a, i, v)
                                  \/ \E h \in BOOLEAN : SetMask(a, i, h)
    <2>1. PICK a \in Objs : /\ Sound(a)
                            /\ \E i \in DOMAIN Data(a) :
                                 \/ \E v \in Value : SetData(a, i, v)
                                 \/ \E h \in BOOLEAN : SetMask(a, i, h)
      BY <1>6
    <2>2. PICK i \in DOMAIN Data(a) : \/ \E v \in Value : SetData(a, i, v)
                                      \/ \E h \in BOOLEAN : SetMask(a, i, h)
      BY <2>1
    <2>3. QED
      BY <1>1, <2>1, <2>2, WriteStep
  <1>7. QED
    BY <1>2, <1>3, <1>4, <1>5, <1>6 DEF Next

LEMMA StutterStep ==
    ASSUME Inv, UNCHANGED vars
    PROVE  /\ Inv' /\ (SameShape => SameShape')
           /\ UNCHANGED Optional!vars
  <1>1. obj' = obj /\ data' = data /\ bits' = bits /\ last' = last /\ calls' = calls
    BY DEF vars
  <1>2. TypeOK'
    BY <1>1 DEF Inv, TypeOK
  <1>3. MemInv'
    BY <1>1 DEF Inv, MemInv, Live, HasMask
  <1>4. SameShape => SameShape'
    BY <1>1 DEF SameShape, Sound, Live, HasMask
  <1>5. \A o \in Objs : Live(o)' <=> Live(o)
    BY <1>1 DEF Live
  <1>6. valBar' = valBar
    <2>1. \A o \in Objs : valBar'[o] = valBar[o]
      BY <1>1, <1>5, ValuesAre, ValuesBecome
    <2>2. QED
      BY <2>1 DEF valBar
  <1>7. kinBar' = kinBar
    <2>1. \A o \in Objs : kinBar'[o] = kinBar[o]
      BY <1>1, <1>5, KinsAre, KinsBecome
    <2>2. QED
      BY <2>1 DEF kinBar
  <1>8. QED
    BY <1>1, <1>2, <1>3, <1>4, <1>6, <1>7 DEF Inv, Optional!vars

LEMMA InvAlways == Spec => []Inv
  <1>1. Init => Inv
    BY InitHolds
  <1>2. Inv /\ [Next]_vars => Inv'
    BY NextStep, StutterStep DEF Good
  <1>3. QED
    BY <1>1, <1>2, PTL DEF Spec

LEMMA ShapeAlways ==
    ASSUME ~Mismatched
    PROVE  Spec => [](Inv /\ SameShape)
  <1>1. Init => Inv /\ SameShape
    BY InitHolds
  <1>2. Inv /\ SameShape /\ [Next]_vars => (Inv /\ SameShape)'
    BY NextStep, StutterStep DEF Good
  <1>3. QED
    BY <1>1, <1>2, PTL DEF Spec

\* Whatever calls are made on masked arrays, also when masks of another length are let in:
\* every element of the data and of the mask of an object lies inside the memory that the
\* object refers to (`MaskedArray`).
THEOREM MaskedTypeCorrect == Spec => []TypeOK
  <1>1. Inv => TypeOK
    BY DEF Inv
  <1>2. QED
    BY <1>1, InvAlways, PTL

\* As long as no mask of another length is let in: every call hands its result a mask of
\* the length of its data, or none (the class docstring of `MaskedArray`).
THEOREM ShapesStay ==
    ASSUME ~Mismatched
    PROVE  Spec => []SameShape
  BY ShapeAlways, PTL

\* Under the same condition data and mask, shared or copied by each call in its own way,
\* behave as arrays of optional values: a call computes its result from the visible
\* elements, and no call but a write or an in-place remainder changes an array.
THEOREM MaskedImplementsOptional ==
    ASSUME ~Mismatched
    PROVE  Spec => ImplementsMaskedValues
  <1>1. Init => Optional!Init
    BY InitHolds
  <1>2. Inv /\ SameShape /\ [Next]_vars => [Optional!Next]_(Optional!vars)
    BY NextStep, StutterStep DEF Good
  <1>3. QED
    BY <1>1, <1>2, ShapeAlways, PTL DEF Spec, ImplementsMaskedValues, Optional!Spec

-----------------------------------------------------------------------------
(* Reductions: the visible elements of an array, and what a fold makes of   *)
(* them.                                                                    *)

LEMMA UpTo ==
    ASSUME NEW n \in Nat, NEW T \in SUBSET (0..n), 0 \in T,
           \A k \in 0..(n - 1) : k \in T => k + 1 \in T
    PROVE  T = 0..n
  <1> DEFINE S == (0..n) \ T
  <1>1. ASSUME S # {}
        PROVE  FALSE
    <2>1. PICK m \in S : \A x \in S : m <= x
      <3>1. S \in SUBSET Nat
        OBVIOUS
      <3>2. QED
        BY <1>1, <3>1, Least
    <2>2. m # 0 /\ m - 1 \in 0..(n - 1) /\ m - 1 \notin S
      BY <2>1
    <2>3. (m - 1) + 1 = m
      BY <2>1
    <2>4. QED
      BY <2>1, <2>2, <2>3
  <1>2. QED
    BY <1>1

\* V[i] are those of the first i elements of x that h does not hide.
Seeing(V, n, x, h) ==
    /\ V \in [0..n -> Seq(Value)] /\ V[0] = <<>>
    /\ \A i \in 1..n : V[i] = IF h[i] THEN V[i - 1] ELSE Append(V[i - 1], x[i])

\* s shows the elements x, where h does not hide them.
Veils(s, n, x, h) == s = [i \in 1..n |-> IF h[i] THEN Masked ELSE x[i]]

LEMMA VisibleIs ==
    ASSUME NEW n \in Nat, NEW x \in [1..n -> Value], NEW h \in [1..n -> BOOLEAN],
           NEW s, Veils(s, n, x, h)
    PROVE  \E V : Seeing(V, n, x, h) /\ Visible(s) = V[n]
  <1> DEFINE S == Seq(Value)
             step == [i \in 1..n |-> [t \in S |-> IF h[i] THEN t ELSE Append(t, x[i])]]
  <1>1. step \in [1..n -> [S -> S]] /\ <<>> \in S
    <2>1. \A i \in 1..n, t \in S : (IF h[i] THEN t ELSE Append(t, x[i])) \in S
      OBVIOUS
    <2>2. QED
      BY <2>1
  <1>2. PICK V \in [0..n -> S] : Chain(V, n, S, <<>>, step)
    BY <1>1, ChainExists
  <1>3. ASSUME NEW i \in 1..n
        PROVE  V[i] = IF h[i] THEN V[i - 1] ELSE Append(V[i - 1], x[i])
    <2>1. V[i - 1] \in S
      OBVIOUS
    <2>2. V[i] = step[i][V[i - 1]]
      BY <1>2, <2>1 DEF Chain
    <2>3. QED
      BY <2>1, <2>2
  <1>4. V[0] = <<>>
    BY <1>2 DEF Chain
  <1>5. Seeing(V, n, x, h)
    BY <1>3, <1>4 DEF Seeing
  <1>6. \A i \in 1..n : (s[i] = Masked <=> h[i]) /\ (~h[i] => s[i] = x[i])
    BY MaskedAssumption DEF Veils
  <1>7. \A i \in 1..n : V[i] = IF s[i] = Masked THEN V[i - 1] ELSE Append(V[i - 1], s[i])
    BY <1>3, <1>6
  <1>8. V = [i \in 0..n |-> IF i = 0 THEN <<>>
                            ELSE IF s[i] = Masked THEN V[i - 1] ELSE Append(V[i - 1], s[i])]
    <2>1. \A i \in 0..n : V[i] = IF i = 0 THEN <<>>
                            ELSE IF s[i] = Masked THEN V[i - 1] ELSE Append(V[i - 1], s[i])
      <3> TAKE i \in 0..n
      <3>1. CASE i = 0
        BY <1>4, <3>1
      <3>2. CASE i # 0
        <4>1. i \in 1..n
          BY <3>2
        <4>2. QED
          BY <1>7, <3>2, <4>1, Zenon
      <3>3. QED
        BY <3>1, <3>2
    <2>2. V = [i \in 0..n |-> V[i]]
      OBVIOUS
    <2>3. QED
      BY <2>1, <2>2, Zenon
  <1>9. PICK q : q = CHOOSE t : t = [i \in 0..n |->
                        IF i = 0 THEN <<>>
                        ELSE IF s[i] = Masked THEN t[i - 1] ELSE Append(t[i - 1], s[i])]
    OBVIOUS
  <1>10. q = [i \in 0..n |-> IF i = 0 THEN <<>>
                             ELSE IF s[i] = Masked THEN q[i - 1] ELSE Append(q[i - 1], s[i])]
    BY <1>8, <1>9
  <1>11. Chain(q, n, S, <<>>, step)
    <2>1. q[0] = <<>>
      BY <1>10
    <2>2. ASSUME NEW i \in 1..n, q[i - 1] \in S
          PROVE  q[i] = step[i][q[i - 1]]
      <3>1. i \in 0..n /\ i # 0
        OBVIOUS
      <3>2. q[i] = IF s[i] = Masked THEN q[i - 1] ELSE Append(q[i - 1], s[i])
        BY <1>10, <3>1, Zenon
      <3>3. QED
        BY <1>6, <2>2, <3>2
    <2>3. QED
      BY <2>1, <2>2 DEF Chain
  <1>12. q[n] = V[n]
    <2>1. n \in 0..n
      OBVIOUS
    <2>2. QED
      BY <1>2, <1>11, <2>1, ChainUnique
  <1>13. Visible(s) = q[n]
    <2>1. Len(s) = n
      BY DEF Veils
    <2>2. QED
      BY <1>9, <2>1 DEF Visible
  <1>14. QED
    BY <1>5, <1>12, <1>13

\* The steps of a fold.
Folds(f, r, t) ==
    /\ f \in [0..Len(t) -> Value] /\ f[0] = r.id
    /\ \A i \in 1..Len(t) : f[i] = r.fn[f[i - 1]][t[i]]

LEMMA FoldIs ==
    ASSUME NEW r \in Reductions, NEW t \in Seq(Value)
    PROVE  \E f : Folds(f, r, t) /\ Fold(r, t) = f[Len(t)]
  <1>1. PICK n \in Nat : n = Len(t) /\ DOMAIN t = 1..n
    OBVIOUS
  <1>2. PICK F \in [Value -> [Value -> Value]], b \in Value : F = r.fn /\ b = r.id
    BY MaskedAssumption
  <1> DEFINE step == [i \in 1..n |-> [v \in Value |-> F[v][t[i]]]]
  <1>3. step \in [1..n -> [Value -> Value]]
    <2>1. \A i \in 1..n, v \in Value : F[v][t[i]] \in Value
      BY <1>1, <1>2
    <2>2. QED
      BY <2>1
  <1>4. PICK f \in [0..n -> Value] : Chain(f, n, Value, b, step)
    BY <1>3, ChainExists
  <1>5. ASSUME NEW i \in 1..n
        PROVE  f[i] = F[f[i - 1]][t[i]]
    <2>1. f[i - 1] \in Value
      OBVIOUS
    <2>2. f[i] = step[i][f[i - 1]]
      BY <1>4, <2>1 DEF Chain
    <2>3. QED
      BY <2>1, <2>2
  <1>6. f[0] = b
    BY <1>4 DEF Chain
  <1>7. f = [i \in 0..n |-> IF i = 0 THEN b ELSE F[f[i - 1]][t[i]]]
    <2>1. \A i \in 0..n : f[i] = IF i = 0 THEN b ELSE F[f[i - 1]][t[i]]
      BY <1>5, <1>6
    <2>2. QED
      BY <2>1
  <1>8. PICK q : q = CHOOSE g : g = [i \in 0..n |-> IF i = 0 THEN b ELSE F[g[i - 1]][t[i]]]
    OBVIOUS
  <1>9. q = [i \in 0..n |-> IF i = 0 THEN b ELSE F[q[i - 1]][t[i]]]
    BY <1>7, <1>8
  <1>10. Chain(q, n, Value, b, step)
    BY <1>9 DEF Chain
  <1>11. q[n] = f[n]
    <2>1. n \in 0..n
      OBVIOUS
    <2>2. QED
      BY <1>4, <1>10, <2>1, ChainUnique
  <1>12. Fold(r, t) = q[n]
    BY <1>1, <1>2, <1>8 DEF Fold
  <1>13. Folds(f, r, t)
    BY <1>1, <1>2, <1>5, <1>6 DEF Folds
  <1>14. QED
    BY <1>1, <1>11, <1>12, <1>13

\* A fold takes the elements one after the other.
LEMMA FoldSteps ==
    ASSUME NEW r \in Reductions, NEW t \in Seq(Value)
    PROVE  /\ Fold(r, t) \in Value /\ Fold(r, <<>>) = r.id
           /\ \A v \in Value : Fold(r, Append(t, v)) = r.fn[Fold(r, t)][v]
  <1>1. PICK f : Folds(f, r, t) /\ Fold(r, t) = f[Len(t)]
    BY FoldIs
  <1>2. Fold(r, t) \in Value
    <2>1. Len(t) \in 0..Len(t) /\ f \in [0..Len(t) -> Value]
      BY <1>1 DEF Folds
    <2>2. QED
      BY <1>1, <2>1
  <1>3. Fold(r, <<>>) = r.id
    <2>1. <<>> \in Seq(Value) /\ Len(<<>>) = 0
      OBVIOUS
    <2>2. PICK g : Folds(g, r, <<>>) /\ Fold(r, <<>>) = g[Len(<<>>)]
      BY <2>1, FoldIs
    <2>3. QED
      BY <2>1, <2>2 DEF Folds
  <1>4. ASSUME NEW v \in Value
        PROVE  Fold(r, Append(t, v)) = r.fn[Fold(r, t)][v]
    <2>8. PICK n \in Nat : n = Len(t)
      OBVIOUS
    <2>9. PICK u : u = Append(t, v)
      OBVIOUS
    <2>1. /\ n = Len(t) /\ u = Append(t, v) /\ Len(u) = n + 1 /\ u[n + 1] = v
          /\ u \in Seq(Value) /\ \A i \in 1..n : u[i] = t[i]
      BY <2>8, <2>9
    <2>2. PICK g : Folds(g, r, u) /\ Fold(r, u) = g[Len(u)]
      BY <2>1, FoldIs
    <2>3. /\ g[0] = r.id /\ g[n + 1] = r.fn[g[n]][v]
          /\ \A i \in 1..n : g[i] = r.fn[g[i - 1]][t[i]]
      <3>1. n + 1 \in 1..(n + 1) /\ (n + 1) - 1 = n /\ \A i \in 1..n : i \in 1..(n + 1)
        OBVIOUS
      <3>2. QED
        BY <2>1, <2>2, <3>1 DEF Folds
    <2>4. /\ f[0] = r.id
          /\ \A i \in 1..n : f[i] = r.fn[f[i - 1]][t[i]]
      BY <1>1, <2>1 DEF Folds
    <2> DEFINE T == {i \in 0..n : f[i] = g[i]}
    <2>5. T = 0..n
      <3>1. 0 \in T
        BY <2>3, <2>4
      <3>2. ASSUME NEW i \in 0..(n - 1), i \in T
            PROVE  i + 1 \in T
        <4>1. i + 1 \in 1..n /\ (i + 1) - 1 = i
          OBVIOUS
        <4>2. QED
          BY <2>3, <2>4, <3>2, <4>1
      <3>3. QED
        BY <3>1, <3>2, UpTo
    <2>6. g[n] = f[n]
      BY <2>5
    <2>7. QED
      BY <1>1, <2>1, <2>2, <2>3, <2>6
  <1>5. QED
    BY <1>2, <1>3, <1>4

\* Filled with the identity, hidden elements change nothing.
LEMMA FoldFilled ==
    ASSUME NEW r \in Reductions, NEW n \in Nat, NEW x \in [1..n -> Value],
           NEW h \in [1..n -> BOOLEAN], NEW V, Seeing(V, n, x, h),
           NEW y, y = [i \in 1..n |-> IF h[i] THEN r.id ELSE x[i]]
    PROVE  Fold(r, y) = Fold(r, V[n])
  <1>1. r.id \in Value /\ \A v \in Value : r.fn[v][r.id] = v
    BY MaskedAssumption
  <1>2. y \in Seq(Value) /\ Len(y) = n
    BY <1>1
  <1>3. PICK f : Folds(f, r, y) /\ Fold(r, y) = f[n]
    BY <1>2, FoldIs
  <1>4. /\ f \in [0..n -> Value] /\ f[0] = r.id
        /\ \A i \in 1..n : f[i] = r.fn[f[i - 1]][y[i]]
    BY <1>2, <1>3 DEF Folds
  <1> DEFINE T == {i \in 0..n : f[i] = Fold(r, V[i])}
  <1>5. 0 \in T
    <2>1. V[0] = <<>> /\ <<>> \in Seq(Value)
      BY DEF Seeing
    <2>2. Fold(r, <<>>) = r.id
      BY <2>1, FoldSteps
    <2>3. QED
      BY <1>4, <2>1, <2>2
  <1>6. ASSUME NEW i \in 0..(n - 1), i \in T
        PROVE  i + 1 \in T
    <2>1. PICK j \in 1..n : j = i + 1 /\ j - 1 = i
      OBVIOUS
    <2>2. f[j] = r.fn[f[i]][y[j]] /\ f[i] \in Value /\ f[i] = Fold(r, V[i])
      BY <1>4, <1>6, <2>1
    <2>3. V[j] = (IF h[j] THEN V[i] ELSE Append(V[i], x[j])) /\ V[i] \in Seq(Value)
      <3>1. V[j] = (IF h[j] THEN V[j - 1] ELSE Append(V[j - 1], x[j])) /\ i \in 0..n
        BY DEF Seeing
      <3>2. V[i] \in Seq(Value)
        BY <3>1 DEF Seeing
      <3>3. QED
        BY <2>1, <3>1, <3>2
    <2>4. CASE h[j]
      <3>1. y[j] = r.id
        BY <2>4
      <3>2. f[j] = f[i]
        BY <1>1, <2>2, <3>1
      <3>3. QED
        BY <2>1, <2>2, <2>3, <2>4, <3>2
    <2>5. CASE ~h[j]
      <3>1. y[j] = x[j] /\ x[j] \in Value
        BY <2>5
      <3>2. Fold(r, Append(V[i], x[j])) = r.fn[Fold(r, V[i])][x[j]]
        BY <2>3, <3>1, FoldSteps
      <3>3. f[j] = Fold(r, V[j])
        BY <2>2, <2>3, <2>5, <3>1, <3>2, Zenon
      <3>4. QED
        BY <2>1, <3>3
    <2>6. QED
      BY <2>4, <2>5
  <1> HIDE DEF T
  <1>7. T = 0..n
    <2>1. T \in SUBSET (0..n)
      BY DEF T
    <2>2. QED
      BY <1>5, <1>6, <2>1, UpTo
  <1>8. f[n] = Fold(r, V[n])
    <2>1. n \in T
      BY <1>7
    <2>2. QED
      BY <2>1 DEF T
  <1>9. QED
    BY <1>3, <1>8

\* Of n elements, those that h does not hide, up to the i-th.
Shown(n, h) == {j \in 1..n : ~h[j]}
ShownTo(n, h, i) == {j \in Shown(n, h) : j <= i}

LEMMA ShownCounts ==
    ASSUME NEW n \in Nat, NEW h
    PROVE  /\ IsFiniteSet(Shown(n, h)) /\ Cardinality(Shown(n, h)) \in Nat
           /\ \A i : /\ IsFiniteSet(ShownTo(n, h, i)) /\ Cardinality(ShownTo(n, h, i)) \in Nat
                     /\ Cardinality(ShownTo(n, h, i)) <= Cardinality(Shown(n, h))
  <1>1. IsFiniteSet(1..n)
    BY FS_Interval
  <1>2. Shown(n, h) \in SUBSET (1..n) /\ \A i : ShownTo(n, h, i) \in SUBSET Shown(n, h)
    BY DEF Shown, ShownTo
  <1>3. IsFiniteSet(Shown(n, h))
    BY <1>1, <1>2, FS_Subset
  <1>4. \A i : /\ IsFiniteSet(ShownTo(n, h, i))
               /\ Cardinality(ShownTo(n, h, i)) <= Cardinality(Shown(n, h))
    BY <1>2, <1>3, FS_Subset
  <1>5. QED
    BY <1>3, <1>4, FS_CardinalityType

LEMMA ShownStep ==
    ASSUME NEW n \in Nat, NEW h \in [1..n -> BOOLEAN], NEW i \in 1..n
    PROVE  Cardinality(ShownTo(n, h, i)) =
             IF h[i] THEN Cardinality(ShownTo(n, h, i - 1))
             ELSE Cardinality(ShownTo(n, h, i - 1)) + 1
  <1>1. CASE h[i]
    <2>1. ShownTo(n, h, i) = ShownTo(n, h, i - 1)
      BY <1>1 DEF ShownTo, Shown
    <2>2. QED
      BY <1>1, <2>1
  <1>2. CASE ~h[i]
    <2>1. ShownTo(n, h, i) = ShownTo(n, h, i - 1) \cup {i} /\ i \notin ShownTo(n, h, i - 1)
      BY <1>2 DEF ShownTo, Shown
    <2>2. QED
      BY <1>2, <2>1, ShownCounts, FS_AddElement
  <1>3. QED
    BY <1>1, <1>2

\* Two visible elements have different ranks.
LEMMA RanksDiffer ==
    ASSUME NEW n \in Nat, NEW h, NEW i \in Shown(n, h), NEW j \in Shown(n, h),
           Cardinality(ShownTo(n, h, i)) = Cardinality(ShownTo(n, h, j))
    PROVE  i = j
  <1>1. i \in 1..n /\ j \in 1..n
    BY DEF Shown
  <1>2. ASSUME NEW p \in 1..n, NEW q \in 1..n, p < q, q \in Shown(n, h),
               Cardinality(ShownTo(n, h, p)) = Cardinality(ShownTo(n, h, q))
        PROVE  FALSE
    <2>1. ShownTo(n, h, p) \in SUBSET ShownTo(n, h, q)
      BY <1>2 DEF ShownTo, Shown
    <2>2. q \in ShownTo(n, h, q) /\ q \notin ShownTo(n, h, p)
      BY <1>2 DEF ShownTo
    <2>3. ShownTo(n, h, q) = ShownTo(n, h, p)
      BY <1>2, <2>1, ShownCounts, FS_Subset
    <2>4. QED
      BY <2>2, <2>3
  <1>3. i < j \/ j < i \/ i = j
    BY <1>1
  <1>4. QED
    BY <1>1, <1>2, <1>3

\* The k-th visible element is the one of rank k.
Ranked(V, n, x, h, i) ==
    /\ Len(V[i]) = Cardinality(ShownTo(n, h, i))
    /\ \A k \in 1..Len(V[i]) :
          \E j \in ShownTo(n, h, i) : Cardinality(ShownTo(n, h, j)) = k /\ V[i][k] = x[j]

LEMMA SeeingRanks ==
    ASSUME NEW n \in Nat, NEW x \in [1..n -> Value], NEW h \in [1..n -> BOOLEAN],
           NEW V, Seeing(V, n, x, h)
    PROVE  \A i \in 0..n : Ranked(V, n, x, h, i)
  <1> DEFINE T == {i \in 0..n : Ranked(V, n, x, h, i)}
  <1>1. 0 \in T
    <2>1. ShownTo(n, h, 0) = {}
      BY DEF ShownTo, Shown
    <2>2. V[0] = <<>> /\ Len(V[0]) = 0
      BY DEF Seeing
    <2>3. Ranked(V, n, x, h, 0)
      <3>1. Len(V[0]) = Cardinality(ShownTo(n, h, 0))
        BY <2>1, <2>2, FS_EmptySet
      <3>2. 1..Len(V[0]) = {}
        BY <2>2
      <3>3. QED
        BY <3>1, <3>2 DEF Ranked
    <2>4. QED
      BY <2>3
  <1>2. ASSUME NEW k \in 0..(n - 1), k \in T
        PROVE  k + 1 \in T
    <2>1. PICK i \in 1..n : i = k + 1 /\ i - 1 = k
      OBVIOUS
    <2>2. Ranked(V, n, x, h, k)
      BY <1>2
    <2>3. PICK s : s = V[k]
      OBVIOUS
    <2>4. s \in Seq(Value) /\ V[i] = (IF h[i] THEN s ELSE Append(s, x[i]))
      <3>1. V[i] = (IF h[i] THEN V[i - 1] ELSE Append(V[i - 1], x[i])) /\ k \in 0..n
        BY DEF Seeing
      <3>2. V[k] \in Seq(Value)
        BY <3>1 DEF Seeing
      <3>3. QED
        BY <2>1, <2>3, <3>1, <3>2
    <2>5. ShownTo(n, h, k) \subseteq ShownTo(n, h, i)
      BY <2>1 DEF ShownTo, Shown
    <2>6. CASE h[i]
      <3>1. V[i] = V[k] /\ Cardinality(ShownTo(n, h, i)) = Cardinality(ShownTo(n, h, k))
        BY <2>1, <2>3, <2>4, <2>6, ShownStep
      <3>2. Ranked(V, n, x, h, i)
        BY <2>2, <2>5, <3>1 DEF Ranked
      <3>3. QED
        BY <2>1, <3>2
    <2>7. CASE ~h[i]
      <3>1. PICK c \in Nat : c = Cardinality(ShownTo(n, h, k))
        BY ShownCounts
      <3>2. Cardinality(ShownTo(n, h, i)) = c + 1
        BY <2>1, <2>7, <3>1, ShownStep
      <3>3. Len(s) = c
        BY <2>2, <2>3, <3>1 DEF Ranked
      <3>4. /\ Len(V[i]) = c + 1 /\ V[i][c + 1] = x[i]
            /\ \A l \in 1..c : V[i][l] = s[l]
        BY <2>4, <2>7, <3>3
      <3>5. ASSUME NEW l \in 1..(c + 1)
            PROVE  \E j \in ShownTo(n, h, i) :
                      Cardinality(ShownTo(n, h, j)) = l /\ V[i][l] = x[j]
        <4>1. CASE l = c + 1
          <5>1. i \in ShownTo(n, h, i)
            BY <2>7 DEF ShownTo, Shown
          <5>2. QED
            BY <3>2, <3>4, <4>1, <5>1
        <4>2. CASE l # c + 1
          <5>1. l \in 1..c
            BY <4>2
          <5>2. PICK j \in ShownTo(n, h, k) :
                   Cardinality(ShownTo(n, h, j)) = l /\ s[l] = x[j]
            BY <2>2, <2>3, <3>3, <5>1 DEF Ranked
          <5>3. QED
            BY <2>5, <3>4, <5>1, <5>2
        <4>3. QED
          BY <4>1, <4>2
      <3>6. Ranked(V, n, x, h, i)
        BY <3>2, <3>4, <3>5 DEF Ranked
      <3>7. QED
        BY <2>1, <3>6
    <2>8. QED
      BY <2>6, <2>7
  <1> HIDE DEF T
  <1>3. T = 0..n
    <2>1. T \in SUBSET (0..n)
      BY DEF T
    <2>2. QED
      BY <1>1, <1>2, <2>1, UpTo
  <1>4. QED
    BY <1>3 DEF T

\* The elements of s at the places of D that m does not hide, by rank.
ByRank(D, s, m) ==
    [k \in 1..Cardinality({i \in D : ~m[i]}) |->
       s[CHOOSE i \in {i \in D : ~m[i]} :
           Cardinality({j \in {i_1 \in D : ~m[i_1]} : j <= i}) = k]]

\* `compressed` picks them by rank.
LEMMA CompressedIs ==
    ASSUME NEW n \in Nat, NEW x \in [1..n -> Value], NEW h \in [1..n -> BOOLEAN],
           NEW V, Seeing(V, n, x, h)
    PROVE  /\ V[n] \in Seq(Value) /\ Len(V[n]) = Cardinality(Shown(n, h))
           /\ V[n] = ByRank(1..n, x, h)
  <1>1. n \in 0..n /\ V[n] \in Seq(Value)
    BY DEF Seeing
  <1>2. Ranked(V, n, x, h, n)
    BY <1>1, SeeingRanks
  <1>3. ShownTo(n, h, n) = Shown(n, h)
    BY DEF ShownTo, Shown
  <1>4. PICK c \in Nat : c = Cardinality(Shown(n, h))
    BY ShownCounts
  <1>5. Len(V[n]) = c
    BY <1>2, <1>3, <1>4 DEF Ranked
  <1>6. ASSUME NEW k \in 1..c
        PROVE  V[n][k] = x[CHOOSE i \in Shown(n, h) : Cardinality(ShownTo(n, h, i)) = k]
    <2>1. PICK j \in Shown(n, h) : Cardinality(ShownTo(n, h, j)) = k /\ V[n][k] = x[j]
      BY <1>2, <1>3, <1>5 DEF Ranked
    <2>2. PICK p : p = CHOOSE i \in Shown(n, h) : Cardinality(ShownTo(n, h, i)) = k
      OBVIOUS
    <2>3. p \in Shown(n, h) /\ Cardinality(ShownTo(n, h, p)) = k
      BY <2>1, <2>2
    <2>4. p = j
      BY <2>1, <2>3, RanksDiffer
    <2>5. QED
      BY <2>1, <2>2, <2>4
  <1>7. V[n] = [k \in 1..c |-> V[n][k]]
    BY <1>1, <1>5
  <1>8. V[n] = [k \in 1..c |->
                   x[CHOOSE i \in Shown(n, h) : Cardinality(ShownTo(n, h, i)) = k]]
    BY <1>6, <1>7
  <1>9. ByRank(1..n, x, h) =
          [k \in 1..Cardinality(Shown(n, h)) |->
             x[CHOOSE i \in Shown(n, h) : Cardinality(ShownTo(n, h, i)) = k]]
    BY DEF ByRank, Shown, ShownTo
  <1>10. QED
    BY <1>1, <1>4, <1>5, <1>8, <1>9

LEMMA AllVisible ==
    ASSUME NEW n \in Nat, NEW x \in [1..n -> Value], NEW h \in [1..n -> BOOLEAN],
           NEW V, Seeing(V, n, x, h), \A i \in 1..n : ~h[i]
    PROVE  V[n] = x
  <1> DEFINE T == {i \in 0..n : Len(V[i]) = i /\ \A k \in 1..i : V[i][k] = x[k]}
  <1>1. 0 \in T
    <2>1. V[0] = <<>> /\ Len(V[0]) = 0
      BY DEF Seeing
    <2>2. QED
      BY <2>1
  <1>2. ASSUME NEW k \in 0..(n - 1), k \in T
        PROVE  k + 1 \in T
    <2>1. PICK i \in 1..n : i = k + 1 /\ i - 1 = k
      OBVIOUS
    <2>2. PICK s : s = V[k]
      OBVIOUS
    <2>3. s \in Seq(Value) /\ V[i] = Append(s, x[i])
      <3>1. V[i] = (IF h[i] THEN V[i - 1] ELSE Append(V[i - 1], x[i])) /\ k \in 0..n
        BY DEF Seeing
      <3>2. V[k] \in Seq(Value)
        BY <3>1 DEF Seeing
      <3>3. QED
        BY <2>1, <2>2, <3>1, <3>2
    <2>4. Len(s) = k /\ \A j \in 1..k : s[j] = x[j]
      BY <1>2, <2>2
    <2>5. Len(V[i]) = i /\ V[i][i] = x[i] /\ \A j \in 1..k : V[i][j] = x[j]
      BY <2>1, <2>3, <2>4
    <2>6. \A j \in 1..i : V[i][j] = x[j]
      BY <2>1, <2>5
    <2>7. QED
      BY <2>1, <2>5, <2>6
  <1> HIDE DEF T
  <1>3. T = 0..n
    <2>1. T \in SUBSET (0..n)
      BY DEF T
    <2>2. QED
      BY <1>1, <1>2, <2>1, UpTo
  <1>4. PICK s : s = V[n]
    OBVIOUS
  <1>5. Len(s) = n /\ \A k \in 1..n : s[k] = x[k]
    <2>1. n \in T
      BY <1>3
    <2>2. QED
      BY <1>4, <2>1 DEF T
  <1>6. s \in Seq(Value)
    <2>1. n \in 0..n
      OBVIOUS
    <2>2. QED
      BY <1>4, <2>1 DEF Seeing
  <1>7. QED
    BY <1>4, <1>5, <1>6

LEMMA NoneVisible ==
    ASSUME NEW n \in Nat, NEW x \in [1..n -> Value], NEW h \in [1..n -> BOOLEAN],
           NEW V, Seeing(V, n, x, h)
    PROVE  V[n] = <<>> <=> \A i \in 1..n : h[i]
  <1>1. PICK s : s = V[n]
    OBVIOUS
  <1>2. s \in Seq(Value) /\ Len(s) = Cardinality(Shown(n, h))
    BY <1>1, CompressedIs
  <1>3. Len(s) = 0 <=> Shown(n, h) = {}
    BY <1>2, ShownCounts, FS_EmptySet
  <1>4. s = <<>> <=> Len(s) = 0
    BY <1>2
  <1>5. Shown(n, h) = {} <=> \A i \in 1..n : h[i]
    BY DEF Shown
  <1>6. QED
    BY <1>1, <1>3, <1>4, <1>5

LEMMA CompressedSees ==
    ASSUME NEW a \in Objs, NEW n \in Nat, NEW x \in [1..n -> Value],
           NEW h \in [1..n -> BOOLEAN], Seen(a, n, x, h), NEW V, Seeing(V, n, x, h)
    PROVE  compressed(a) = V[n] /\ count(a) = Len(V[n])
  <1>1. Len(V[n]) = Cardinality(Shown(n, h))
    BY CompressedIs
  <1>2. Data(a) = x /\ getmaskarray(a).bits = h /\ (HasMask(a) => Mask(a).bits = h)
        /\ (~HasMask(a) => \A i \in 1..n : ~h[i])
    BY DEF Seen, Elems
  <1>3. count(a) = Cardinality(Shown(n, h))
    <2>1. PICK m : m = getmaskarray(a).bits
      OBVIOUS
    <2>2. count(a) = Cardinality({i \in DOMAIN m : ~m[i]})
      BY <2>1 DEF count
    <2>3. m = h /\ {i \in DOMAIN h : ~h[i]} = Shown(n, h)
      BY <1>2, <2>1 DEF Shown
    <2>4. QED
      BY <2>2, <2>3
  <1>4. CASE HasMask(a)
    <2>1. compressed(a) = ByRank(DOMAIN Mask(a).bits, Data(a), Mask(a).bits)
      BY <1>4 DEF compressed, ByRank
    <2>2. compressed(a) = ByRank(1..n, x, h)
      <3>1. DOMAIN h = 1..n
        OBVIOUS
      <3>2. QED
        BY <1>2, <1>4, <2>1, <3>1
    <2>3. QED
      BY <1>1, <1>3, <2>2, CompressedIs
  <1>5. CASE ~HasMask(a)
    <2>1. V[n] = x
      BY <1>2, <1>5, AllVisible
    <2>2. compressed(a) = x
      BY <1>2, <1>5 DEF compressed
    <2>3. QED
      BY <1>1, <1>3, <2>1, <2>2
  <1>6. QED
    BY <1>4, <1>5

LEMMA ReduceSees ==
    ASSUME NEW a \in Objs, NEW n \in Nat, NEW x \in [1..n -> Value],
           NEW h \in [1..n -> BOOLEAN], Seen(a, n, x, h), NEW V, Seeing(V, n, x, h),
           NEW r \in Reductions
    PROVE  reduce(a, r) = IF V[n] = <<>> /\ HasMask(a) THEN Masked ELSE Fold(r, V[n])
  <1>1. AllHidden(a) <=> V[n] = <<>> /\ HasMask(a)
    <2>1. HasMask(a) => Mask(a).bits = h
      BY DEF Seen, Elems
    <2>2. DOMAIN h = 1..n
      OBVIOUS
    <2>3. AllHidden(a) <=> HasMask(a) /\ \A i \in 1..n : h[i]
      BY <2>1, <2>2 DEF AllHidden
    <2>4. QED
      BY <2>3, NoneVisible
  <1>2. PICK v \in Value : v = r.id
    BY MaskedAssumption
  <1>3. PICK y : y = [i \in 1..n |-> IF h[i] THEN v ELSE x[i]]
    OBVIOUS
  <1>4. filled(a, v) = y
    <2>1. Elems(a, n, x, h) /\ Data(a) = x
      BY DEF Seen
    <2>2. QED
      BY <1>3, <2>1, FilledIs
  <1>5. Fold(r, y) = Fold(r, V[n])
    BY <1>2, <1>3, FoldFilled
  <1>6. QED
    BY <1>1, <1>2, <1>4, <1>5 DEF reduce

LEMMA ArraySees ==
    ASSUME Inv, NEW a \in Objs, Sound(a)
    PROVE  SeesVisible(a, value(a))
  <1>1. PICK n \in Nat : \E x \in [1..n -> Value], h \in [1..n -> BOOLEAN] : Seen(a, n, x, h)
    BY Operand DEF Seen
  <1>2. PICK x \in [1..n -> Value], h \in [1..n -> BOOLEAN] : Seen(a, n, x, h)
    BY <1>1
  <1>3. PICK s : s = value(a)
    OBVIOUS
  <1>4. Veils(s, n, x, h)
    BY <1>2, <1>3 DEF Seen, Elems, valBar, Veils
  <1>5. PICK V : Seeing(V, n, x, h) /\ Visible(s) = V[n]
    BY <1>4, VisibleIs
  <1>6. compressed(a) = V[n] /\ count(a) = Len(V[n])
    BY <1>2, <1>5, CompressedSees
  <1>7. \A r \in Reductions :
           reduce(a, r) = IF V[n] = <<>> /\ HasMask(a) THEN Masked ELSE Fold(r, V[n])
    BY <1>2, <1>5, ReduceSees
  <1>8. SeesVisible(a, s)
    BY <1>5, <1>6, <1>7 DEF SeesVisible
  <1>9. QED
    BY <1>3, <1>8

\* `allequal` asks the pairs of which neither element is hidden.
LEMMA AllequalIs ==
    ASSUME Inv, NEW a \in Objs, NEW b \in Objs, NEW k \in Nat,
           NEW x \in [1..k -> Value], NEW y \in [1..k -> Value],
           NEW g \in [1..k -> BOOLEAN], NEW h \in [1..k -> BOOLEAN],
           Paired(a, b, k, x, g, y, h)
    PROVE  allequal(a, b, TRUE) <=> \A i \in 1..k : (g[i] \/ h[i]) \/ Eq[x[i]][y[i]]
  <1>1. PICK on : on = <<a, b>>
    OBVIOUS
  <1>2. On(a, on) /\ On(b, on)
    BY <1>1 DEF On
  <1>3. PICK m : m = mask_or(Mask(a), Mask(b), TRUE)
    OBVIOUS
  <1>4. PICK w \in [1..k -> BOOLEAN] : \A i \in 1..k : w[i] = (g[i] \/ h[i])
    <2>1. [i \in 1..k |-> g[i] \/ h[i]] \in [1..k -> BOOLEAN]
      OBVIOUS
    <2>2. QED
      BY <2>1
  <1>5. Hides(m, k, w)
    <2>1. Joins(w, g, h, k)
      BY <1>4 DEF Joins
    <2>2. TRUE \in BOOLEAN
      OBVIOUS
    <2>3. QED
      BY <1>2, <1>3, <2>1, <2>2, PairedMasks
  <1>6. PICK d : d = Compute(Eq, a, b)
    OBVIOUS
  <1>7. d = [i \in 1..k |-> Eq[x[i]][y[i]]]
    <2>1. d = Each(Eq, k, x, y)
      BY <1>6, ComputeIs
    <2>2. QED
      BY <2>1 DEF Each
  <1>8. DOMAIN d = 1..k /\ Len(d) = k
    BY <1>7
  <1>9. allequal(a, b, TRUE) <=>
          \A i \in DOMAIN d :
             (IF m = nomask THEN Constant(d, FALSE) ELSE Broadcast(m.bits, Len(d)))[i] \/ d[i]
    BY <1>3, <1>6 DEF allequal, Compute, ComputeIn, Data
  <1>10. CASE m = nomask
    <2>1. \A i \in 1..k : ~w[i] /\ ~Constant(d, FALSE)[i]
      BY <1>5, <1>8, <1>10 DEF Hides, Constant
    <2>2. QED
      BY <1>4, <1>7, <1>8, <1>9, <1>10, <2>1
  <1>11. CASE m # nomask
    <2>1. \A i \in 1..k : w[i] = Broadcast(m.bits, k)[i]
      BY <1>5, <1>11 DEF Hides
    <2>2. QED
      BY <1>4, <1>7, <1>8, <1>9, <1>11, <2>1
  <1>12. QED
    BY <1>10, <1>11

LEMMA PairCompares ==
    ASSUME Inv, NEW a \in Objs, NEW b \in Objs, Sound(a), Sound(b), Compatible(a, b)
    PROVE  ComparesVisible(a, value(a), b, value(b))
  <1>1. PICK k \in Nat : \E x, y \in [1..k -> Value], g, h \in [1..k -> BOOLEAN] :
                            Paired(a, b, k, x, g, y, h)
    BY Operands
  <1>2. PICK x \in [1..k -> Value], y \in [1..k -> Value], g \in [1..k -> BOOLEAN],
             h \in [1..k -> BOOLEAN] : Paired(a, b, k, x, g, y, h)
    BY <1>1
  <1>3. PICK s, t : s = value(a) /\ t = value(b)
    OBVIOUS
  <1>4. valBar[a] = s /\ valBar[b] = t
    BY <1>3 DEF valBar, Sound
  <1>5. k = IF Len(s) = 1 THEN Len(t) ELSE Len(s)
    BY <1>2, <1>4 DEF Paired
  <1>6. ASSUME NEW i \in 1..k
        PROVE  Masked \in {Optional!At(s, i), Optional!At(t, i)}
                 \/ Eq[Optional!At(s, i)][Optional!At(t, i)]
               <=> (g[i] \/ h[i]) \/ Eq[x[i]][y[i]]
    <2>1. /\ x[i] # Masked /\ y[i] # Masked
          /\ Optional!At(s, i) = IF g[i] THEN Masked ELSE x[i]
          /\ Optional!At(t, i) = IF h[i] THEN Masked ELSE y[i]
      <3>1. /\ x[i] # Masked /\ y[i] # Masked
            /\ Optional!At(valBar[a], i) = IF g[i] THEN Masked ELSE x[i]
            /\ Optional!At(valBar[b], i) = IF h[i] THEN Masked ELSE y[i]
        BY <1>2 DEF Paired, Stretched
      <3>2. QED
        BY <1>4, <3>1
    <2>2. QED
      BY <2>1
  <1>7. allequal(a, b, TRUE) <=>
          \A i \in 1..k : Masked \in {Optional!At(s, i), Optional!At(t, i)}
                            \/ Eq[Optional!At(s, i)][Optional!At(t, i)]
    <2>1. allequal(a, b, TRUE) <=> \A i \in 1..k : (g[i] \/ h[i]) \/ Eq[x[i]][y[i]]
      BY <1>2, AllequalIs
    <2>2. QED
      BY <1>6, <2>1
  <1>8. ComparesVisible(a, s, b, t)
    BY <1>5, <1>7 DEF ComparesVisible, Optional!At
  <1>9. QED
    BY <1>3, <1>8

\* As long as no mask of another length is let in: `compressed`, `count`, `allequal` and
\* every reduction with an identity see the visible elements alone, in their order, and
\* nothing of what the mask hides or of the value it is filled with.
THEOREM VisibleDecides ==
    ASSUME ~Mismatched
    PROVE  Spec => []ReductionsSeeVisible
  <1>1. ASSUME Inv, SameShape
        PROVE  ReductionsSeeVisible
    <2>1. PICK val : val = [o \in Objs |-> IF Live(o) THEN value(o) ELSE <<>>]
      OBVIOUS
    <2>2. \A a \in Objs : Live(a) => Sound(a) /\ val[a] = value(a)
      BY <1>1, <2>1 DEF SameShape
    <2>3. \A a \in Objs : Live(a) => SeesVisible(a, val[a])
      BY <1>1, <2>2, ArraySees
    <2>4. \A a, b \in Objs : Live(a) /\ Live(b) /\ Compatible(a, b) =>
             ComparesVisible(a, val[a], b, val[b])
      BY <1>1, <2>2, PairCompares
    <2>5. QED
      BY <2>1, <2>3, <2>4 DEF ReductionsSeeVisible
  <1>2. Inv /\ SameShape => ReductionsSeeVisible
    BY <1>1
  <1>3. QED
    BY <1>2, ShapeAlways, PTL
=============================================================================
