---------------------------- MODULE MemmapProofs ----------------------------
(***************************************************************************)
(* Theorems about memory-mapped arrays, for any number of objects, files,   *)
(* bytes and threads: the state stays well formed, what a flush reported as *)
(* written is in the file at its place, a tie to the file follows the       *)
(* memory, and the whole implements the write-back copy of WriteBack.       *)
(***************************************************************************)
EXTENDS Memmap, WellFoundedInduction, TLAPS

\* The largest of a set that has one.
LEMMA MaxIs ==
    ASSUME NEW S \in SUBSET Int, NEW m \in S, \A x \in S : x <= m
    PROVE  Max(S) = m
  <1> DEFINE top(x) == \A y \in S : x >= y
  <1>1. m \in Int /\ \A y \in S : y \in Int /\ m >= y
    OBVIOUS
  <1>2. top(m) /\ Max(S) = CHOOSE x \in S : top(x)
    BY <1>1 DEF Max
  <1>3. Max(S) \in S /\ top(Max(S))
    <2> HIDE DEF top
    <2>1. QED
      BY <1>2
  <1>4. Max(S) \in Int /\ m >= Max(S)
    BY <1>1, <1>3
  <1>5. Max(S) >= m
    <2> HIDE DEF Max
    <2>1. QED
      BY <1>3
  <1>6. QED
    BY <1>4, <1>5

\* A slice of an axis selects at least one and at most n of its positions.
LEMMA SliceFacts ==
    ASSUME NEW n \in Nat, NEW s \in Slices(n)
    PROVE  \E m \in 1..n : s \in [1..m -> 1..n]
  BY DEF Slices

-----------------------------------------------------------------------------
(* Arithmetic of the two orders.                                            *)

LEMMA Multiple ==
    ASSUME NEW c \in Nat \ {0}, NEW x \in Int, c * x > 0
    PROVE  c * x >= c
  OBVIOUS

LEMMA QuotRem ==
    ASSUME NEW r \in Nat \ {0}, NEW k \in Nat
    PROVE  k % r \in 0..r-1 /\ k \div r \in Nat /\ k = r * (k \div r) + (k % r)
  OBVIOUS

\* Quotient and remainder are the only ones.
LEMMA QuotRemOf ==
    ASSUME NEW c \in Nat \ {0}, NEW j \in Nat, NEW q \in 0..c-1
    PROVE  (j * c + q) % c = q /\ (j * c + q) \div c = j
  <1> DEFINE n == j * c + q
             d == n \div c
             m == n % c
  <1>1. n \in Nat
    OBVIOUS
  <1>2. d \in Int /\ m \in 0..c-1 /\ n = c * d + m
    BY <1>1
  <1>3. d = j /\ m = q
    <2> HIDE DEF d, m
    <2>1. c * (j - d) = m - q
      BY <1>2
    <2>2. m - q < c /\ m - q > -c
      BY <1>2
    <2>3. ~(j - d >= 1)
      BY <2>1, <2>2, <1>2
    <2>4. ~(j - d <= -1)
      BY <2>1, <2>2, <1>2
    <2>5. QED
      BY <2>1, <2>3, <2>4, <1>2
  <1>4. QED
    BY <1>3

\* The position in C order of the k-th element in Fortran order.
LEMMA PositionInF ==
    ASSUME NEW r \in Nat, NEW c \in Nat, NEW k \in 1..(r * c)
    PROVE  /\ r # 0 /\ c # 0 /\ (r * c) \div r = c /\ (r * c) \div c = r
           /\ (k - 1) % r \in 0..(r - 1) /\ (k - 1) \div r \in 0..(c - 1)
           /\ k - 1 = ((k - 1) \div r) * r + ((k - 1) % r)
           /\ ((k - 1) % r) * c + ((k - 1) \div r) + 1 \in 1..(r * c)
  <1>1. r # 0 /\ c # 0
    OBVIOUS
  <1>2. (r * c) \div r = c /\ (r * c) \div c = r
    <2>1. (c * r + 0) \div r = c
      BY <1>1, QuotRemOf
    <2>2. (r * c + 0) \div c = r
      BY <1>1, QuotRemOf
    <2>3. c * r = r * c
      OBVIOUS
    <2>4. QED
      BY <2>1, <2>2, <2>3
  <1> DEFINE j == (k - 1) % r
             q == (k - 1) \div r
  <1>3. j \in 0..r-1 /\ q \in Nat /\ k - 1 = q * r + j
    <2>1. k - 1 \in Nat /\ r \in Nat \ {0}
      BY <1>1
    <2>2. j \in 0..r-1 /\ q \in Nat /\ k - 1 = r * q + j
      BY <2>1, QuotRem
    <2>3. r * q = q * r
      BY <2>1, <2>2
    <2>4. QED
      BY <2>2, <2>3
  <1> HIDE DEF j, q
  <1>4. q < c
    <2>1. q * r < c * r
      BY <1>3
    <2>2. QED
      BY <1>1, <1>3, <2>1
  <1>5. j * c + q + 1 <= r * c
    <2>1. j * c <= (r - 1) * c
      BY <1>1, <1>3
    <2>2. (r - 1) * c = r * c - c
      OBVIOUS
    <2>3. QED
      BY <1>3, <1>4, <2>1, <2>2
  <1>6. j * c + q + 1 >= 1
    BY <1>3
  <1>7. QED
    BY <1>1, <1>2, <1>3, <1>4, <1>5, <1>6 DEF j, q

\* Reading a matrix in Fortran order stays within it.
LEMMA FOrderType ==
    ASSUME NEW r \in Nat, NEW c \in Nat, NEW S, NEW s \in [1..(r * c) -> S]
    PROVE  FOrder(s, r) \in [1..(r * c) -> S]
  <1>1. r * c \in Nat /\ DOMAIN s = 1..(r * c) /\ Len(s) = r * c
    <2>1. r * c \in Nat
      OBVIOUS
    <2>2. QED
      BY <2>1
  <1>2. ASSUME NEW k \in 1..(r * c)
        PROVE  (((k - 1) % r) * (Len(s) \div r)) + ((k - 1) \div r) + 1 \in DOMAIN s
    BY <1>1, PositionInF
  <1>3. QED
    BY <1>1, <1>2 DEF FOrder

\* The cells of an array read from a file in Fortran order, taken in that order, are
\* those of the file: the r times c matrix is the transpose of the file's.
LEMMA FOrderTwice ==
    ASSUME NEW r \in Nat, NEW c \in Nat
    PROVE  FOrder(FOrder(Whole(r * c), c), r) = Whole(r * c)
  <1> DEFINE n == r * c
             w == Whole(n)
             s == FOrder(w, c)
  <1>1. n \in Nat /\ c * r = n /\ w \in [1..n -> 1..n]
    BY DEF Whole
  <1>2. s \in [1..n -> 1..n] /\ DOMAIN s = 1..n /\ Len(s) = n
    <2>1. s \in [1..(c * r) -> 1..n]
      BY <1>1, FOrderType
    <2>2. QED
      BY <1>1, <2>1
  <1>3. ASSUME NEW k \in 1..n
        PROVE  s[(((k - 1) % r) * (Len(s) \div r)) + ((k - 1) \div r) + 1] = k
    <2> DEFINE j == (k - 1) % r
               q == (k - 1) \div r
               k2 == j * c + q + 1
    <2>1. /\ r # 0 /\ c # 0 /\ n \div r = c /\ n \div c = r
          /\ j \in 0..(r - 1) /\ q \in 0..(c - 1) /\ k - 1 = q * r + j /\ k2 \in 1..n
      BY PositionInF
    <2> HIDE DEF j, q, n
    <2>2. (j * c + q) % c = q /\ (j * c + q) \div c = j
      <3>1. c \in Nat \ {0} /\ j \in Nat /\ q \in 0..c-1
        BY <2>1
      <3>2. QED
        BY <3>1, QuotRemOf
    <2>3. k2 - 1 = j * c + q
      BY <2>1
    <2>4. s[k2] = w[(((k2 - 1) % c) * (Len(w) \div c)) + ((k2 - 1) \div c) + 1]
      BY <1>1, <2>1 DEF FOrder
    <2>5. Len(w) = n
      BY <1>1
    <2>6. s[k2] = w[q * r + j + 1]
      BY <2>1, <2>2, <2>3, <2>4, <2>5
    <2>7. q * r + j + 1 = k
      BY <2>1
    <2>8. s[k2] = k
      BY <1>1, <2>6, <2>7 DEF Whole, n
    <2>9. QED
      BY <1>2, <2>1, <2>8 DEF j, q, n
  <1>4. QED
    <2> HIDE DEF s, n
    <2>1. FOrder(s, r) = [k \in 1..n |-> k]
      BY <1>2, <1>3 DEF FOrder
    <2>2. QED
      BY <2>1 DEF Whole, s, n

\* Where the i-th element, in C order, of an r times c matrix comes in Fortran order.
Down(i, r, c) == ((i - 1) % c) * r + ((i - 1) \div c) + 1

\* The element at a position of an array in C order comes, in Fortran order, at the place
\* that counts down the columns.
LEMMA FOrderPlace ==
    ASSUME NEW r \in Nat, NEW c \in Nat, NEW n \in Nat, n = r * c,
           NEW s, Len(s) = n, DOMAIN s = 1..n, NEW i \in 1..n
    PROVE  Down(i, r, c) \in 1..n /\ FOrder(s, r)[Down(i, r, c)] = s[i]
  <1>0. PICK k : k = Down(i, r, c)
    OBVIOUS
  <1> DEFINE j == (i - 1) % c
             q == (i - 1) \div c
  <1>1. i \in 1..(c * r) /\ c * r = n
    OBVIOUS
  <1>2. /\ c # 0 /\ r # 0 /\ (c * r) \div r = c
        /\ j \in 0..(c - 1) /\ q \in 0..(r - 1) /\ i - 1 = q * c + j /\ k \in 1..(c * r)
        /\ k = j * r + q + 1
    BY <1>0, <1>1, PositionInF DEF Down
  <1>3. Len(s) = n /\ DOMAIN s = 1..n
    OBVIOUS
  <1> HIDE DEF j, q
  <1>4. (j * r + q) % r = q /\ (j * r + q) \div r = j
    <2>1. r \in Nat \ {0} /\ j \in Nat /\ q \in 0..r-1
      BY <1>2
    <2>2. QED
      BY <2>1, QuotRemOf
  <1>5. k - 1 = j * r + q /\ k \in 1..n
    BY <1>1, <1>2
  <1>6. FOrder(s, r)[k] = s[(((k - 1) % r) * (Len(s) \div r)) + ((k - 1) \div r) + 1]
    BY <1>3, <1>5 DEF FOrder
  <1>7. Len(s) \div r = c
    BY <1>1, <1>2, <1>3
  <1>8. FOrder(s, r)[k] = s[q * c + j + 1]
    BY <1>4, <1>5, <1>6, <1>7
  <1>9. q * c + j + 1 = i
    BY <1>2
  <1>10. QED
    BY <1>0, <1>5, <1>8, <1>9

-----------------------------------------------------------------------------
(* The inductive invariant.                                                 *)

\* Every object shows, as a matrix, cells of a buffer that some call has allocated, and
\* leads to a living object.
MemInv ==
    \A o \in Objs : Live(o) =>
       /\ obj[o].buf <= calls /\ Live(obj[o].root)
       /\ obj[o].cells \in [1..Len(obj[o].cells) -> 1..Len(data[obj[o].buf])]
       /\ \E c \in Nat : Len(obj[o].cells) = obj[o].rows * c

\* An object that opened a file leads to itself; the file is not empty.
SourceInv ==
    \A r \in Objs : Mapped(r) =>
       obj[r].root = r /\ obj[r].mode # "none" /\ file[obj[r].file] # <<>>

\* The bytes of a flush that was not overtaken by a write are those of the array.
JobInv ==
    \A t \in Threads : job[t] # Idle =>
       LET r == job[t].root
       IN  /\ r \in Objs /\ Mapped(r) /\ obj[r].mode \in Writable
           /\ DOMAIN job[t].raw = DOMAIN obj[r].cells
           /\ job[t].clean => job[t].raw = Encode(r)

\* The file of its only writer is long enough for its array.
RoomInv ==
    \A r \in Objs : Mapped(r) /\ obj[r].mode \in Writable /\ OnlyWriter(r) =>
       obj[r].start + obj[r].at + Len(obj[r].cells) <= Len(file[obj[r].file])

\* What the file of a clean array holds, byte after byte.
SavedInv ==
    \A r \in Objs \ dirty : Mapped(r) /\ obj[r].mode \in Writable /\ OnlyWriter(r) =>
       \A k \in DOMAIN obj[r].cells :
          file[obj[r].file][obj[r].start + obj[r].at + k] = Encode(r)[k]

Inv == TypeOK /\ MemInv /\ SourceInv /\ JobInv /\ RoomInv /\ SavedInv

\* Ties need nothing more: they are inductive beside Inv.
TieInv == TiesFollowMemory

-----------------------------------------------------------------------------
(* Objects derived from others: one fresh object appears that maps nothing. *)

\* What the record of a derived object must be, with the buffers as D has them.
Fit(o, rec, D) ==
    /\ rec \in ObjRec /\ rec.file = NoFile
    /\ rec.buf <= NewBuf
    /\ rec.root = o \/ Live(rec.root)
    /\ rec.cells \in [1..Len(rec.cells) -> 1..Len(D[rec.buf])]
    /\ \E c \in Nat : Len(rec.cells) = rec.rows * c

\* What keeps ties true.
Tied(o, rec) ==
    /\ \A r \in Objs : Mapped(r) /\ obj[r].buf = rec.buf => rec.root = r /\ rec.mode = obj[r].mode
    /\ rec.mode # "none" =>
          /\ rec.root # o /\ Mapped(rec.root) /\ obj[rec.root].mode = rec.mode
          /\ rec.buf = obj[rec.root].buf \/ {rec.buf, obj[rec.root].buf} \cap filled # {}

LEMMA RecordIsNot == \A rec \in ObjRec : rec # NoObj
  BY MemmapAssumption

LEMMA LiveRecord ==
    ASSUME TypeOK, NEW o \in Objs, Live(o)
    PROVE  obj[o] \in ObjRec
  BY DEF TypeOK, Live

LEMMA NewBufFacts ==
    ASSUME TypeOK, Call
    PROVE  calls \in Nat /\ NewBuf \in Bufs /\ NewBuf = calls + 1 /\ calls' = NewBuf
           /\ calls' \in 0..MaxCalls
  BY MemmapAssumption DEF TypeOK, Call, NewBuf, Bufs

\* The bytes a flush would store are settled by the record and the buffer it names.
LEMMA EncodeSame ==
    ASSUME NEW r \in Objs, obj'[r] = obj[r], data'[obj[r].buf] = data[obj[r].buf]
    PROVE  Encode(r)' = Encode(r)
  BY DEF Encode

\* Making an object keeps the invariant, and the files and their copies.
LEMMA MakeStep ==
    ASSUME Inv, NEW o \in Objs, NEW rec, NEW D \in [Bufs -> Seq(Bytes)],
           Make(o, rec), data' = D, \A b \in Bufs : b <= calls => D[b] = data[b], Fit(o, rec, D)
    PROVE  /\ Inv'
           /\ TieInv /\ Tied(o, rec) => TieInv'
           /\ UNCHANGED <<file, copyBar, savingBar>>
  <1> USE DEF Inv
  <1>1. /\ obj' = [obj EXCEPT ![o] = rec] /\ file' = file /\ job' = job /\ dirty' = dirty
        /\ filled' = filled /\ ~Live(o)
    BY DEF Make, Fresh
  <1>0. calls \in Nat /\ calls' = calls + 1 /\ calls' \in 0..MaxCalls /\ NewBuf = calls + 1
    BY NewBufFacts DEF Make
  <1>2. rec \in ObjRec /\ rec # NoObj /\ rec.file = NoFile
    BY RecordIsNot DEF Fit
  <1>3. obj'[o] = rec /\ \A p \in Objs \ {o} : obj'[p] = obj[p]
    BY <1>1 DEF TypeOK
  <1>4. /\ Live(o)' /\ ~Mapped(o) /\ ~Mapped(o)'
        /\ \A p \in Objs \ {o} : (Live(p)' <=> Live(p)) /\ (Mapped(p)' <=> Mapped(p))
    BY <1>1, <1>2, <1>3 DEF Live, Mapped
  <1>a. \A p \in Objs \ {o} : Live(p) =>
           /\ obj'[p] = obj[p] /\ obj[p] \in ObjRec /\ obj[p].root \in Objs \ {o}
           /\ obj[p].buf \in Bufs /\ obj[p].buf \in Nat /\ obj[p].buf <= calls
           /\ data'[obj[p].buf] = data[obj[p].buf]
    <2> TAKE p \in Objs \ {o}
    <2> HAVE Live(p)
    <2>1. obj[p] \in ObjRec /\ obj'[p] = obj[p]
      BY <1>3, LiveRecord
    <2>2. obj[p].root \in Objs /\ obj[p].buf \in Bufs
      BY <2>1 DEF ObjRec
    <2>3. obj[p].root # o /\ obj[p].buf <= calls
      BY <1>1 DEF MemInv
    <2>4. QED
      BY <2>1, <2>2, <2>3 DEF Bufs
  <1>b. \A r \in Objs : Mapped(r) \/ Mapped(r)' =>
           /\ r # o /\ Live(r) /\ obj'[r] = obj[r] /\ data'[obj[r].buf] = data[obj[r].buf]
           /\ Encode(r)' = Encode(r)
    <2> TAKE r \in Objs
    <2> HAVE Mapped(r) \/ Mapped(r)'
    <2>1. r # o /\ Live(r) /\ obj'[r] = obj[r] /\ data'[obj[r].buf] = data[obj[r].buf]
      BY <1>4, <1>a DEF Mapped
    <2>2. QED
      BY <2>1, EncodeSame
  <1>5. TypeOK'
    BY <1>0, <1>1, <1>2 DEF TypeOK
  <1>6. MemInv'
    <2> SUFFICES ASSUME NEW p \in Objs, Live(p)'
                 PROVE  (/\ obj[p].buf <= calls /\ Live(obj[p].root)
                         /\ obj[p].cells \in [1..Len(obj[p].cells) -> 1..Len(data[obj[p].buf])]
                         /\ \E c \in Nat : Len(obj[p].cells) = obj[p].rows * c)'
      BY DEF MemInv
    <2>1. CASE p = o
      BY <1>0, <1>3, <1>4, <2>1 DEF Fit, ObjRec
    <2>2. CASE p # o
      <3>1. Live(p) /\ obj'[p] = obj[p] /\ data'[obj[p].buf] = data[obj[p].buf]
        BY <1>4, <1>a, <2>2
      <3>2. obj[p].buf <= calls' /\ Live(obj[p].root)'
        BY <1>0, <1>4, <1>a, <2>2, <3>1 DEF MemInv
      <3>3. QED
        BY <3>1, <3>2 DEF MemInv
    <2>3. QED
      BY <2>1, <2>2
  <1>7. SourceInv'
    BY <1>1, <1>3, <1>4 DEF SourceInv
  <1>8. JobInv'
    BY <1>1, <1>4, <1>b DEF JobInv
  <1>9. \A r \in Objs : r # o => (OnlyWriter(r)' => OnlyWriter(r))
    BY <1>3, <1>4 DEF OnlyWriter
  <1>10. RoomInv'
    BY <1>1, <1>3, <1>4, <1>9 DEF RoomInv
  <1>11. SavedInv'
    <2> SUFFICES ASSUME NEW r \in Objs, r \notin dirty', Mapped(r)',
                        (obj[r].mode \in Writable)', OnlyWriter(r)',
                        NEW k \in DOMAIN obj'[r].cells
                 PROVE  (file[obj[r].file][obj[r].start + obj[r].at + k] = Encode(r)[k])'
      BY DEF SavedInv
    <2>1. /\ r # o /\ Mapped(r) /\ OnlyWriter(r) /\ obj'[r] = obj[r]
          /\ Encode(r)' = Encode(r)
      BY <1>4, <1>9, <1>b
    <2>2. QED
      BY <1>1, <2>1 DEF SavedInv
  <1>12. ASSUME TieInv, Tied(o, rec)
         PROVE  TieInv'
    <2> SUFFICES ASSUME NEW p \in Objs, Live(p)'
                 PROVE  (/\ \A r \in Objs : Mapped(r) /\ obj[r].buf = obj[p].buf =>
                               obj[p].root = r /\ obj[p].mode = obj[r].mode
                         /\ obj[p].mode # "none" =>
                              /\ Mapped(obj[p].root) /\ obj[obj[p].root].mode = obj[p].mode
                              /\ \/ obj[p].buf = obj[obj[p].root].buf
                                 \/ {obj[p].buf, obj[obj[p].root].buf} \cap filled # {})'
      BY DEF TieInv, TiesFollowMemory
    <2>1. CASE p = o
      <3>1. obj'[p] = rec
        BY <1>3, <2>1
      <3>2. \A r \in Objs : Mapped(r)' /\ obj'[r].buf = rec.buf => rec.root = r /\ rec.mode = obj'[r].mode
        BY <1>4, <1>b, <1>12 DEF Tied
      <3>3. rec.mode # "none" =>
              /\ Mapped(rec.root)' /\ obj'[rec.root].mode = rec.mode
              /\ rec.buf = obj'[rec.root].buf \/ {rec.buf, obj'[rec.root].buf} \cap filled' # {}
        <4>1. rec.root \in Objs
          BY <1>2 DEF ObjRec
        <4>2. QED
          BY <1>1, <1>3, <1>4, <1>12, <4>1 DEF Tied
      <3>4. QED
        BY <3>1, <3>2, <3>3
    <2>2. CASE p # o
      <3>1. Live(p) /\ obj'[p] = obj[p] /\ obj[p].root \in Objs \ {o}
        BY <1>4, <1>a, <2>2
      <3>2. \A r \in Objs : Mapped(r)' => r # o /\ Mapped(r) /\ obj'[r] = obj[r]
        BY <1>4, <1>b
      <3>3. obj'[obj[p].root] = obj[obj[p].root] /\ (Mapped(obj[p].root)' <=> Mapped(obj[p].root))
        BY <1>3, <1>4, <3>1
      <3>4. QED
        BY <1>1, <1>12, <3>1, <3>2, <3>3 DEF TieInv, TiesFollowMemory
    <2>3. QED
      BY <2>1, <2>2
  <1>13. copyBar' = copyBar
    <2>1. \A p \in Objs : copyBar'[p] = copyBar[p]
      BY <1>3, <1>4, <1>b DEF copyBar
    <2>2. QED
      BY <2>1, Zenon DEF copyBar
  <1>14. savingBar' = savingBar
    <2>1. \A t \in Threads : job[t] # Idle => job[t].root \in Objs \ {o}
      BY <1>4 DEF JobInv
    <2>2. QED
      BY <1>1, <1>3, <2>1 DEF savingBar
  <1>15. QED
    BY <1>1, <1>5, <1>6, <1>7, <1>8, <1>10, <1>11, <1>12, <1>13, <1>14

\* What a step that derives an object does.
Kept == Inv' /\ UNCHANGED <<file, copyBar, savingBar>>

\* The three kinds of objects the wrapper makes of an array.
Wrapped(rec, tied, o, src, buf, cells, rows) ==
    \/ tied /\ rec = AsView(o, src, buf, cells, rows)
    \/ ~tied /\ rec = AsCopy(o, src, buf, cells, rows)
    \/ ~tied /\ rec = [AsCopy(o, src, buf, cells, rows) EXCEPT !.root = obj[src].root]

LEMMA WrappedRecord ==
    ASSUME TypeOK, NEW o \in Objs, NEW src \in Objs, Live(src), NEW buf \in Bufs,
           NEW cells \in Seq(Nat), NEW rows \in Nat, NEW tied \in BOOLEAN, NEW rec,
           Wrapped(rec, tied, o, src, buf, cells, rows)
    PROVE  /\ rec \in ObjRec /\ rec.file = NoFile /\ rec.buf = buf /\ rec.cells = cells
           /\ rec.rows = rows /\ rec.root \in {o, obj[src].root}
           /\ tied => rec.root = obj[src].root /\ rec.mode = obj[src].mode
           /\ ~tied => rec.mode = "none"
  <1>1. obj[src] \in ObjRec
    BY LiveRecord
  <1>2. CASE tied
    BY <1>1, <1>2 DEF AsView, ObjRec, Wrapped
  <1>3. CASE ~tied
    <2> DEFINE own == AsCopy(o, src, buf, cells, rows)
    <2>1. /\ own \in ObjRec /\ own.file = NoFile /\ own.buf = buf /\ own.cells = cells
          /\ own.rows = rows /\ own.root = o /\ own.mode = "none"
      BY <1>1 DEF AsCopy, ObjRec
    <2>2. rec = own \/ rec = [own EXCEPT !.root = obj[src].root]
      BY <1>3 DEF Wrapped
    <2>3. obj[src].root \in Objs
      BY <1>1 DEF ObjRec
    <2> HIDE DEF own
    <2>4. QED
      BY <1>3, <2>1, <2>2, <2>3 DEF ObjRec
  <1>4. QED
    BY <1>2, <1>3

\* A view: other cells of the same buffer.
LEMMA ViewStep ==
    ASSUME Inv, NEW o \in Objs, NEW src \in Objs, Live(src), NEW rows \in Nat, NEW c \in Nat,
           NEW cells \in [1..(rows * c) -> 1..Len(data[obj[src].buf])],
           NEW tied \in BOOLEAN, NEW rec,
           Wrapped(rec, tied, o, src, obj[src].buf, cells, rows),
           MakeOnSame(o, rec)
    PROVE  Kept /\ (TieInv /\ tied => TieInv')
  <1> DEFINE s == obj[src]
  <1>1. /\ s \in ObjRec /\ Live(s.root) /\ s.root \in Objs
        /\ s.buf \in Bufs /\ s.buf <= calls /\ s.buf \in Nat
    BY LiveRecord DEF Inv, MemInv, ObjRec, Bufs
  <1>2. rows * c \in Nat /\ Len(cells) = rows * c /\ cells \in Seq(Nat)
    <2>1. rows * c \in Nat
      OBVIOUS
    <2>2. QED
      BY <2>1
  <1>3. /\ rec \in ObjRec /\ rec.file = NoFile /\ rec.buf = s.buf /\ rec.cells = cells
        /\ rec.rows = rows
        /\ tied => rec.root = s.root /\ rec.mode = s.mode
        /\ rec.root \in {o, s.root}
    BY <1>1, <1>2, WrappedRecord, SMTT(30) DEF Inv
  <1>5. /\ Make(o, rec) /\ data' = data /\ data \in [Bufs -> Seq(Bytes)]
        /\ calls \in Nat /\ NewBuf = calls + 1
    BY NewBufFacts DEF MakeOnSame, Make, Inv, TypeOK
  <1>4. Fit(o, rec, data)
    BY <1>1, <1>2, <1>3, <1>5 DEF Fit
  <1>6. TieInv /\ tied => Tied(o, rec)
    <2>1. ~Live(o)
      BY <1>5 DEF Make, Fresh
    <2>2. QED
      BY <1>1, <1>3, <2>1 DEF TieInv, TiesFollowMemory, Tied
  <1>7. QED
    <2>1. PICK D : D = data
      OBVIOUS
    <2>2. /\ D \in [Bufs -> Seq(Bytes)] /\ data' = D /\ Fit(o, rec, D)
          /\ \A b \in Bufs : b <= calls => D[b] = data[b]
      BY <1>4, <1>5, <2>1
    <2>3. Kept /\ (TieInv /\ Tied(o, rec) => TieInv')
      BY <1>5, <2>2, MakeStep DEF Kept
    <2>4. QED
      BY <1>6, <2>3

\* A copy: the elements move to a buffer of their own.
LEMMA CopyStep ==
    ASSUME Inv, NEW o \in Objs, NEW src \in Objs, Live(src), NEW rows \in Nat, NEW c \in Nat,
           NEW s \in [1..(rows * c) -> 1..Len(data[obj[src].buf])],
           NEW tied \in BOOLEAN, NEW rec,
           Wrapped(rec, tied, o, src, NewBuf, Whole(rows * c), rows),
           MakeFresh(o, src, s, rec)
    PROVE  Kept /\ (TieInv /\ ~tied => TieInv')
  <1> DEFINE n == rows * c
             b == obj[src].buf
             d == [k \in DOMAIN s |-> data[b][s[k]]]
  <1>0. Make(o, rec) /\ calls \in Nat /\ NewBuf = calls + 1 /\ NewBuf \in Bufs
    BY NewBufFacts DEF MakeFresh, Make, Inv
  <1>1. /\ obj[src] \in ObjRec /\ Live(obj[src].root) /\ b \in Bufs
        /\ obj[src].root \in Objs
    BY LiveRecord DEF Inv, MemInv, ObjRec
  <1>2. n \in Nat
    OBVIOUS
  <1> HIDE DEF n
  <1>3. Whole(n) \in [1..n -> 1..n] /\ Len(Whole(n)) = n /\ Whole(n) \in Seq(Nat)
    BY <1>2 DEF Whole
  <1>4. data \in [Bufs -> Seq(Bytes)] /\ data[b] \in Seq(Bytes)
    BY <1>1 DEF Inv, TypeOK
  <1>5. d \in [1..n -> Bytes] /\ d \in Seq(Bytes) /\ Len(d) = n
    <2>1. DOMAIN s = 1..n
      BY DEF n
    <2>2. \A k \in 1..n : s[k] \in 1..Len(data[b])
      BY DEF n
    <2>3. \A k \in 1..n : data[b][s[k]] \in Bytes
      BY <1>4, <2>2
    <2>4. d \in [1..n -> Bytes]
      BY <2>1, <2>3
    <2> HIDE DEF d
    <2>5. QED
      BY <1>2, <2>4
  <1>6. /\ rec \in ObjRec /\ rec.file = NoFile /\ rec.buf = NewBuf /\ rec.cells = Whole(n)
        /\ rec.rows = rows
        /\ ~tied => rec.mode = "none"
        /\ rec.root \in {o, obj[src].root}
    BY <1>0, <1>3, WrappedRecord DEF Inv, n
  <1>7. PICK D : D = [data EXCEPT ![NewBuf] = d]
    OBVIOUS
  <1>8. /\ D \in [Bufs -> Seq(Bytes)] /\ D[NewBuf] = d
        /\ \A p \in Bufs : p <= calls => D[p] = data[p]
    <2>1. \A p \in Bufs : p <= calls => p # NewBuf
      BY <1>0 DEF Bufs
    <2>2. QED
      BY <1>0, <1>4, <1>5, <1>7, <2>1
  <1>9. data' = D
    BY <1>7 DEF MakeFresh, Allocate
  <1>10. Fit(o, rec, D)
    <2>1. rec.buf <= NewBuf
      BY <1>0, <1>6
    <2>2. rec.root = o \/ Live(rec.root)
      BY <1>1, <1>6
    <2>3. rec.cells \in [1..Len(rec.cells) -> 1..Len(D[rec.buf])]
      BY <1>3, <1>5, <1>6, <1>8
    <2>4. \E k \in Nat : Len(rec.cells) = rec.rows * k
      BY <1>3, <1>6 DEF n
    <2>5. QED
      BY <1>6, <2>1, <2>2, <2>3, <2>4 DEF Fit
  <1>11. ~tied => Tied(o, rec)
    <2>1. \A r \in Objs : Mapped(r) => obj[r].buf # NewBuf
      <3> TAKE r \in Objs
      <3> HAVE Mapped(r)
      <3>1. Live(r) /\ obj[r] \in ObjRec
        BY LiveRecord DEF Inv, Mapped
      <3>2. obj[r].buf \in Bufs /\ obj[r].buf <= calls
        BY <3>1 DEF ObjRec, Inv, MemInv
      <3>3. QED
        BY <1>0, <3>2 DEF Bufs
    <2>2. QED
      BY <1>6, <2>1 DEF Tied
  <1>12. Kept /\ (TieInv /\ Tied(o, rec) => TieInv')
    BY <1>0, <1>8, <1>9, <1>10, MakeStep DEF Kept
  <1>13. QED
    BY <1>11, <1>12

LEMMA SourceFacts ==
    ASSUME Inv, NEW src \in Objs, Live(src)
    PROVE  /\ obj[src].rows \in Nat /\ obj[src].buf \in Bufs
           /\ data[obj[src].buf] \in Seq(Bytes)
           /\ \E c \in Nat :
                 /\ Len(obj[src].cells) = obj[src].rows * c
                 /\ obj[src].cells \in [1..(obj[src].rows * c) -> 1..Len(data[obj[src].buf])]
  <1>1. obj[src] \in ObjRec
    BY LiveRecord DEF Inv
  <1>2. obj[src].rows \in Nat /\ obj[src].buf \in Bufs
    BY <1>1 DEF ObjRec
  <1>3. data[obj[src].buf] \in Seq(Bytes)
    BY <1>2 DEF Inv, TypeOK
  <1>4. PICK c \in Nat : Len(obj[src].cells) = obj[src].rows * c
    BY DEF Inv, MemInv
  <1>5. obj[src].cells \in [1..(obj[src].rows * c) -> 1..Len(data[obj[src].buf])]
    BY <1>4 DEF Inv, MemInv
  <1>6. QED
    BY <1>2, <1>3, <1>4, <1>5

\* The cells in either order are the cells of the array.
LEMMA InOrderType ==
    ASSUME NEW r \in Nat, NEW c \in Nat, NEW S, NEW s \in [1..(r * c) -> S],
           NEW order
    PROVE  InOrder(s, r, order) \in [1..(r * c) -> S]
  BY FOrderType DEF InOrder

LEMMA RowCell ==
    ASSUME NEW r \in Nat, NEW c \in Nat, NEW p \in 1..r, NEW j \in 0..(c - 1)
    PROVE  (p - 1) * c + j + 1 \in 1..(r * c)
  <1>1. (p - 1) * c <= (r - 1) * c /\ (p - 1) * c \in Nat
    OBVIOUS
  <1>2. (r - 1) * c = r * c - c
    OBVIOUS
  <1>3. QED
    BY <1>1, <1>2

LEMMA GetSliceStep ==
    ASSUME Inv, NEW o \in Objs, NEW src \in Objs, Live(src), obj[src].rows > 0,
           NEW picks \in Slices(obj[src].rows), GetSlice(o, src, picks)
    PROVE  Kept /\ (TieInv => TieInv')
  <1> DEFINE s == obj[src].cells
             b == obj[src].buf
             r == obj[src].rows
  <1>1. PICK c \in Nat : Len(s) = r * c /\ s \in [1..(r * c) -> 1..Len(data[b])]
    BY SourceFacts
  <1>2. r \in Nat \ {0}
    BY SourceFacts
  <1>3. PICK m \in 1..r : picks \in [1..m -> 1..r]
    BY <1>2, SliceFacts
  <1>4. Len(picks) = m /\ m \in Nat
    BY <1>2, <1>3
  <1> HIDE DEF r
  <1>5. Len(s) \div r = c
    <2>1. (c * r + 0) \div r = c
      BY <1>2, QuotRemOf
    <2>2. c * r + 0 = r * c
      BY <1>2
    <2>3. QED
      BY <1>1, <2>1, <2>2
  <1> DEFINE at(k) == (picks[((k - 1) \div c) + 1] - 1) * c + ((k - 1) % c) + 1
             w == [k \in 1..(m * c) |-> s[at(k)]]
  <1>6. ASSUME NEW k \in 1..(m * c)
        PROVE  at(k) \in 1..(r * c)
    <2>1. k \in 1..(c * m)
      BY <1>4
    <2>2. (k - 1) \div c \in 0..(m - 1) /\ (k - 1) % c \in 0..(c - 1)
      BY <1>4, <2>1, PositionInF
    <2>3. picks[((k - 1) \div c) + 1] \in 1..r
      BY <1>3, <1>4, <2>2
    <2>4. QED
      BY <1>2, <2>2, <2>3, RowCell
  <1>7. w \in [1..(m * c) -> 1..Len(data[b])]
    BY <1>1, <1>6
  <1>8. PICK cells, rec :
           /\ cells = w /\ rec = AsView(o, src, b, cells, m) /\ MakeOnSame(o, rec)
    BY <1>4, <1>5 DEF GetSlice, r
  <1>9. Wrapped(rec, TRUE, o, src, b, cells, m)
    BY <1>8 DEF Wrapped
  <1>10. cells \in [1..(m * c) -> 1..Len(data[b])]
    BY <1>7, <1>8
  <1>11. PICK tied \in BOOLEAN : tied
    OBVIOUS
  <1>12. Wrapped(rec, tied, o, src, b, cells, m)
    BY <1>9, <1>11, <1>8 DEF Wrapped
  <1>13. QED
    BY <1>4, <1>8, <1>10, <1>11, <1>12, ViewStep

LEMMA TransposeStep ==
    ASSUME Inv, NEW o \in Objs, NEW src \in Objs, Live(src), obj[src].rows > 0,
           Transpose(o, src)
    PROVE  Kept /\ (TieInv => TieInv')
  <1> DEFINE s == obj[src].cells
             b == obj[src].buf
             r == obj[src].rows
  <1>1. PICK c \in Nat : Len(s) = r * c /\ s \in [1..(r * c) -> 1..Len(data[b])]
    BY SourceFacts
  <1>2. r \in Nat \ {0}
    BY SourceFacts
  <1> HIDE DEF r
  <1>3. Len(s) \div r = c
    <2>1. (c * r + 0) \div r = c
      BY <1>2, QuotRemOf
    <2>2. c * r + 0 = r * c
      BY <1>2
    <2>3. QED
      BY <1>1, <2>1, <2>2
  <1>4. PICK tied \in BOOLEAN : tied
    OBVIOUS
  <1>5. CASE c <= 1
    <2>1. PICK cells, rec : /\ cells = s /\ rec = AsView(o, src, b, cells, r)
                            /\ MakeOnSame(o, rec)
      BY <1>3, <1>5 DEF Transpose, r
    <2>2. Wrapped(rec, tied, o, src, b, cells, r)
      BY <1>4, <2>1 DEF Wrapped
    <2>3. QED
      BY <1>1, <1>2, <1>4, <2>1, <2>2, ViewStep
  <1>6. CASE ~(c <= 1)
    <2>1. PICK cells, rec : /\ cells = FOrder(s, r) /\ rec = AsView(o, src, b, cells, c)
                            /\ MakeOnSame(o, rec)
      BY <1>3, <1>6 DEF Transpose, r
    <2>2. Wrapped(rec, tied, o, src, b, cells, c)
      BY <1>4, <2>1 DEF Wrapped
    <2>3. cells \in [1..(c * r) -> 1..Len(data[b])]
      <3>1. cells \in [1..(r * c) -> 1..Len(data[b])]
        BY <1>1, <1>2, <2>1, FOrderType
      <3>2. r * c = c * r
        BY <1>2
      <3>3. QED
        BY <3>1, <3>2
    <2>4. QED
      BY <1>2, <1>4, <2>1, <2>2, <2>3, ViewStep
  <1>7. QED
    BY <1>5, <1>6

LEMMA GetFancyStep ==
    ASSUME Inv, NEW o \in Objs, NEW src \in Objs, Live(src), GetFancy(o, src)
    PROVE  Kept /\ (TieInv /\ ~Mistied => TieInv')
  <1> DEFINE b == obj[src].buf
             r == obj[src].rows
  <1>1. PICK c \in Nat : /\ Len(obj[src].cells) = r * c
                         /\ obj[src].cells \in [1..(r * c) -> 1..Len(data[b])]
    BY SourceFacts
  <1>2. PICK s, rec : /\ s = obj[src].cells /\ rec = AsView(o, src, NewBuf, Whole(r * c), r)
                      /\ MakeFresh(o, src, s, rec)
    BY <1>1 DEF GetFancy
  <1>3. PICK tied \in BOOLEAN : tied
    OBVIOUS
  <1>4. Wrapped(rec, tied, o, src, NewBuf, Whole(r * c), r)
    BY <1>2, <1>3 DEF Wrapped
  <1>5. Mistied
    BY DEF GetFancy, Agrees
  <1>6. r \in Nat /\ s \in [1..(r * c) -> 1..Len(data[b])]
    BY <1>1, <1>2, SourceFacts
  <1>7. Kept
    BY <1>2, <1>4, <1>6, CopyStep
  <1>8. QED
    BY <1>5, <1>7

LEMMA ReshapeStep ==
    ASSUME Inv, NEW o \in Objs, NEW src \in Objs, Live(src), NEW order, Reshape(o, src, order)
    PROVE  Kept /\ (TieInv /\ ~Mistied => TieInv')
  <1> DEFINE s == obj[src].cells
             b == obj[src].buf
             r == obj[src].rows
  <1>1. PICK c \in Nat : Len(s) = r * c /\ s \in [1..(r * c) -> 1..Len(data[b])]
    BY SourceFacts
  <1>2. r \in Nat
    BY SourceFacts
  <1>3. PICK flat : flat = InOrder(s, r, order)
    OBVIOUS
  <1>4. PICK n \in Nat : n = r * c
    BY <1>2
  <1>5. flat \in [1..(n * 1) -> 1..Len(data[b])] /\ Len(flat) = n /\ n * 1 = n
    <2>1. flat \in [1..(r * c) -> 1..Len(data[b])]
      BY <1>1, <1>2, <1>3, InOrderType
    <2>2. n * 1 = n
      OBVIOUS
    <2>3. QED
      BY <1>4, <2>1, <2>2
  <1>6. PICK tied \in BOOLEAN : tied <=> CContiguous(s)
    BY DEF CContiguous
  <1>7. Agrees(OneStride(flat), tied)
    BY <1>3, <1>6 DEF Reshape, Agrees
  <1>8. CASE OneStride(flat)
    <2>1. PICK rec :
             /\ rec = IF tied THEN AsView(o, src, b, flat, n)
                      ELSE [AsCopy(o, src, b, flat, n) EXCEPT !.root = obj[src].root]
             /\ MakeOnSame(o, rec)
      BY <1>3, <1>5, <1>6, <1>8 DEF Reshape
    <2>2. Wrapped(rec, tied, o, src, b, flat, n)
      BY <2>1 DEF Wrapped
    <2>3. Kept /\ (TieInv /\ tied => TieInv')
      BY <1>5, <2>1, <2>2, ViewStep
    <2>4. QED
      BY <1>7, <1>8, <2>3 DEF Agrees
  <1>9. CASE ~OneStride(flat)
    <2>1. PICK rec :
             /\ rec = IF tied THEN AsView(o, src, NewBuf, Whole(n * 1), n)
                      ELSE [AsCopy(o, src, NewBuf, Whole(n * 1), n) EXCEPT !.root = obj[src].root]
             /\ MakeFresh(o, src, flat, rec)
      BY <1>3, <1>5, <1>6, <1>9 DEF Reshape
    <2>2. Wrapped(rec, tied, o, src, NewBuf, Whole(n * 1), n)
      BY <2>1 DEF Wrapped
    <2>3. Kept /\ (TieInv /\ ~tied => TieInv')
      BY <1>5, <2>1, <2>2, CopyStep
    <2>4. QED
      BY <1>7, <1>9, <2>3 DEF Agrees
  <1>10. QED
    BY <1>8, <1>9

LEMMA RavelStep ==
    ASSUME Inv, NEW o \in Objs, NEW src \in Objs, Live(src), NEW order, Ravel(o, src, order)
    PROVE  Kept /\ (TieInv /\ ~Mistied => TieInv')
  <1> DEFINE s == obj[src].cells
             b == obj[src].buf
             r == obj[src].rows
  <1>1. PICK c \in Nat : Len(s) = r * c /\ s \in [1..(r * c) -> 1..Len(data[b])]
    BY SourceFacts
  <1>2. r \in Nat
    BY SourceFacts
  <1>3. PICK flat : flat = InOrder(s, r, order)
    OBVIOUS
  <1>4. PICK n \in Nat : n = r * c
    BY <1>2
  <1>5. flat \in [1..(n * 1) -> 1..Len(data[b])] /\ Len(flat) = n /\ n * 1 = n
    <2>1. flat \in [1..(r * c) -> 1..Len(data[b])]
      BY <1>1, <1>2, <1>3, InOrderType
    <2>2. n * 1 = n
      OBVIOUS
    <2>3. QED
      BY <1>4, <2>1, <2>2
  <1>6. PICK tied \in BOOLEAN : tied <=> CContiguous(s)
    BY DEF CContiguous
  <1>7. Agrees(CContiguous(flat), tied)
    BY <1>3, <1>6 DEF Ravel, Agrees
  <1>8. CASE CContiguous(flat)
    <2>1. PICK rec :
             /\ rec = IF tied THEN AsView(o, src, b, flat, n) ELSE AsCopy(o, src, b, flat, n)
             /\ MakeOnSame(o, rec)
      BY <1>3, <1>5, <1>6, <1>8 DEF Ravel
    <2>2. Wrapped(rec, tied, o, src, b, flat, n)
      BY <2>1 DEF Wrapped
    <2>3. Kept /\ (TieInv /\ tied => TieInv')
      BY <1>5, <2>1, <2>2, ViewStep
    <2>4. QED
      BY <1>7, <1>8, <2>3 DEF Agrees
  <1>9. CASE ~CContiguous(flat)
    <2>1. PICK rec :
             /\ rec = IF tied THEN AsView(o, src, NewBuf, Whole(n * 1), n)
                      ELSE AsCopy(o, src, NewBuf, Whole(n * 1), n)
             /\ MakeFresh(o, src, flat, rec)
      BY <1>3, <1>5, <1>6, <1>9 DEF Ravel
    <2>2. Wrapped(rec, tied, o, src, NewBuf, Whole(n * 1), n)
      BY <2>1 DEF Wrapped
    <2>3. Kept /\ (TieInv /\ ~tied => TieInv')
      BY <1>5, <2>1, <2>2, CopyStep
    <2>4. QED
      BY <1>7, <1>9, <2>3 DEF Agrees
  <1>10. QED
    BY <1>8, <1>9

LEMMA CopyCallStep ==
    ASSUME Inv, NEW o \in Objs, NEW src \in Objs, Live(src), Copy(o, src)
    PROVE  Kept /\ (TieInv => TieInv')
  <1> DEFINE b == obj[src].buf
             r == obj[src].rows
  <1>1. PICK c \in Nat : /\ Len(obj[src].cells) = r * c
                         /\ obj[src].cells \in [1..(r * c) -> 1..Len(data[b])]
    BY SourceFacts
  <1>2. PICK s, rec : /\ s = obj[src].cells /\ rec = AsCopy(o, src, NewBuf, Whole(r * c), r)
                      /\ MakeFresh(o, src, s, rec)
    BY <1>1 DEF Copy
  <1>3. PICK tied \in BOOLEAN : ~tied
    OBVIOUS
  <1>4. Wrapped(rec, tied, o, src, NewBuf, Whole(r * c), r)
    BY <1>2, <1>3 DEF Wrapped
  <1>5. r \in Nat /\ s \in [1..(r * c) -> 1..Len(data[b])]
    BY <1>1, <1>2, SourceFacts
  <1>6. QED
    BY <1>2, <1>3, <1>4, <1>5, CopyStep

LEMMA DeriveStep ==
    ASSUME Inv, NEW o \in Objs, NEW src \in Objs, Derive(o, src)
    PROVE  Kept /\ (TieInv /\ ~Mistied => TieInv')
  <1>1. Live(src)
    BY DEF Derive
  <1>2. CASE obj[src].rows > 0 /\ \E picks \in Slices(obj[src].rows) : GetSlice(o, src, picks)
    BY <1>1, <1>2, GetSliceStep
  <1>3. CASE obj[src].rows > 0 /\ Transpose(o, src)
    BY <1>1, <1>3, TransposeStep
  <1>4. CASE GetFancy(o, src)
    BY <1>1, <1>4, GetFancyStep
  <1>5. CASE \E order \in {"C", "F"} : Reshape(o, src, order) \/ Ravel(o, src, order)
    BY <1>1, <1>5, ReshapeStep, RavelStep
  <1>6. CASE Copy(o, src)
    BY <1>1, <1>6, CopyCallStep
  <1>7. QED
    BY <1>2, <1>3, <1>4, <1>5, <1>6 DEF Derive

-----------------------------------------------------------------------------
(* Writes and flushes.                                                      *)

LEMMA MappedFacts ==
    ASSUME Inv, NEW r \in Objs, Mapped(r)
    PROVE  /\ obj[r] \in ObjRec /\ Live(r) /\ obj[r].root = r
           /\ obj[r].buf \in Bufs /\ obj[r].buf \in Nat /\ obj[r].buf <= calls
           /\ obj[r].file \in Files /\ obj[r].mode \in Modes
           /\ obj[r].start \in Nat /\ obj[r].at \in Nat /\ obj[r].start + obj[r].at \in Nat
           /\ file[obj[r].file] \in Seq(Bytes) /\ file[obj[r].file] # <<>>
  <1>1. Live(r) /\ obj[r] \in ObjRec /\ obj[r].file # NoFile
    BY LiveRecord DEF Inv, Mapped
  <1>2. /\ obj[r].root = r /\ obj[r].mode # "none" /\ file[obj[r].file] # <<>>
        /\ obj[r].buf <= calls
    BY <1>1 DEF Inv, SourceInv, MemInv
  <1>3. obj[r].file \in Files /\ obj[r].buf \in Bufs /\ obj[r].buf \in Nat
    BY <1>1 DEF ObjRec, Bufs
  <1>4. file[obj[r].file] \in Seq(Bytes)
    BY <1>3 DEF Inv, TypeOK
  <1>5. QED
    BY <1>1, <1>2, <1>3, <1>4 DEF ObjRec

\* What flush encodes is as many bytes as the array has elements, and in them each element
\* is at its place.
LEMMA EncodeFacts ==
    ASSUME Inv, NEW r \in Objs, Live(r)
    PROVE  /\ Encode(r) \in Seq(Bytes) /\ Len(Encode(r)) = Len(obj[r].cells)
           /\ DOMAIN Encode(r) = DOMAIN obj[r].cells
           /\ \A i \in DOMAIN obj[r].cells :
                 /\ Place(r, i) \in DOMAIN obj[r].cells
                 /\ Encode(r)[Place(r, i)] = data[obj[r].buf][obj[r].cells[i]]
  <1> DEFINE s == obj[r].cells
             b == obj[r].buf
             rows == obj[r].rows
             order == obj[r].order
             w == InOrder(s, rows, order)
  <1>1. PICK c \in Nat : Len(s) = rows * c /\ s \in [1..(rows * c) -> 1..Len(data[b])]
    BY SourceFacts
  <1>2. rows \in Nat /\ b \in Bufs /\ data[b] \in Seq(Bytes)
    BY SourceFacts
  <1>3. PICK n \in Nat : n = rows * c
    BY <1>2
  <1>4. w \in [1..n -> 1..Len(data[b])]
    BY <1>1, <1>2, <1>3, InOrderType
  <1>5. DOMAIN s = 1..n /\ Len(s) = n
    BY <1>1, <1>3
  <1>6. Encode(r) = [k \in 1..n |-> data[b][w[k]]]
    BY <1>4 DEF Encode
  <1>7. Encode(r) \in [1..n -> Bytes]
    <2>1. \A k \in 1..n : data[b][w[k]] \in Bytes
      BY <1>2, <1>4
    <2>2. QED
      BY <1>6, <2>1
  <1>8. ASSUME NEW i \in 1..n
        PROVE  Place(r, i) \in 1..n /\ w[Place(r, i)] = s[i]
    <2>1. CASE order = "F"
      <3>1. n \div rows = c
        <4>1. c * rows = n /\ i \in 1..(c * rows)
          BY <1>2, <1>3
        <4>2. (c * rows) \div rows = c
          BY <1>2, <4>1, PositionInF
        <4>3. QED
          BY <4>1, <4>2
      <3>2. Place(r, i) = ((i - 1) % c) * rows + ((i - 1) \div c) + 1
        BY <1>5, <2>1, <3>1 DEF Place
      <3>3. w = FOrder(s, rows)
        BY <2>1 DEF InOrder
      <3>4. PICK m \in Nat, q \in {s} : m = rows
        BY <1>2
      <3>5. n = m * c
        BY <1>3, <3>4
      <3>6. Len(q) = n /\ DOMAIN q = 1..n
        BY <1>5, <3>4
      <3>7. Down(i, m, c) \in 1..n /\ FOrder(q, m)[Down(i, m, c)] = q[i]
        BY <3>5, <3>6, FOrderPlace
      <3>8. Place(r, i) = Down(i, m, c)
        BY <3>2, <3>4 DEF Down
      <3>9. QED
        BY <3>3, <3>4, <3>7, <3>8
    <2>2. CASE order # "F"
      BY <2>2 DEF Place, InOrder
    <2>3. QED
      BY <2>1, <2>2
  <1>9. Encode(r) \in Seq(Bytes) /\ Len(Encode(r)) = n /\ DOMAIN Encode(r) = 1..n
    BY <1>7
  <1>10. \A i \in 1..n : /\ Place(r, i) \in 1..n
                         /\ Encode(r)[Place(r, i)] = data[b][s[i]]
    <2> HIDE DEF w
    <2>1. QED
      BY <1>6, <1>8
  <1>11. QED
    BY <1>5, <1>9, <1>10

\* What the copies and the saves of the contract are here.
LEMMA CopyFacts ==
    ASSUME Inv
    PROVE  \A r \in Objs :
              /\ ~Mapped(r) => copyBar[r] = NoObj
              /\ Mapped(r) =>
                    /\ copyBar[r] = [file |-> obj[r].file, at |-> obj[r].start + obj[r].at,
                                     mode |-> obj[r].mode, val |-> Encode(r)]
                    /\ copyBar[r] # NoObj
  <1> SUFFICES ASSUME NEW r \in Objs, Mapped(r)
               PROVE  /\ copyBar[r] = [file |-> obj[r].file, at |-> obj[r].start + obj[r].at,
                                       mode |-> obj[r].mode, val |-> Encode(r)]
                      /\ copyBar[r] # NoObj
    BY DEF copyBar
  <1>1. copyBar[r] = [file |-> obj[r].file, at |-> obj[r].start + obj[r].at,
                      mode |-> obj[r].mode, val |-> Encode(r)]
    BY DEF copyBar
  <1>2. copyBar[r] \in CopyRec
    BY <1>1, MappedFacts, EncodeFacts DEF CopyRec
  <1>3. QED
    BY <1>1, <1>2, MemmapAssumption

LEMMA SaveFacts ==
    ASSUME Inv
    PROVE  \A t \in Threads :
              /\ job[t] = Idle => savingBar[t] = NoObj
              /\ job[t] # Idle =>
                    LET r == job[t].root
                    IN  /\ r \in Objs /\ Mapped(r)
                        /\ savingBar[t] = [file |-> obj[r].file,
                                           at |-> obj[r].start + obj[r].at, val |-> job[t].raw]
                        /\ savingBar[t] # NoObj
  <1> SUFFICES ASSUME NEW t \in Threads, job[t] # Idle,
                      NEW r, r = job[t].root
               PROVE  /\ r \in Objs /\ Mapped(r)
                      /\ savingBar[t] = [file |-> obj[r].file,
                                         at |-> obj[r].start + obj[r].at, val |-> job[t].raw]
                      /\ savingBar[t] # NoObj
    BY DEF savingBar
  <1>1. r \in Objs /\ Mapped(r)
    BY DEF Inv, JobInv
  <1>2. savingBar[t] = [file |-> obj[r].file, at |-> obj[r].start + obj[r].at,
                        val |-> job[t].raw]
    BY DEF savingBar
  <1>3. job[t].raw \in Seq(Bytes)
    BY DEF Inv, TypeOK
  <1>4. savingBar[t] \in SaveRec
    BY <1>1, <1>2, <1>3, MappedFacts DEF SaveRec
  <1>5. QED
    BY <1>1, <1>2, <1>4, MemmapAssumption

\* The facts about encoded bytes and copies as state predicates, to have them of the next
\* state as well.
EncodeIs ==
    \A r \in Objs : Live(r) =>
       /\ Encode(r) \in Seq(Bytes) /\ Len(Encode(r)) = Len(obj[r].cells)
       /\ DOMAIN Encode(r) = DOMAIN obj[r].cells
CopyIs ==
    \A r \in Objs :
       /\ ~Mapped(r) => copyBar[r] = NoObj
       /\ Mapped(r) =>
             /\ copyBar[r] = [file |-> obj[r].file, at |-> obj[r].start + obj[r].at,
                              mode |-> obj[r].mode, val |-> Encode(r)]
             /\ copyBar[r] # NoObj

LEMMA NextCopies == Inv' => EncodeIs' /\ CopyIs'
  <1>1. Inv => EncodeIs /\ CopyIs
    <2>1. Inv => EncodeIs
      BY EncodeFacts DEF EncodeIs
    <2>2. Inv => CopyIs
      BY CopyFacts DEF CopyIs
    <2>3. QED
      BY <2>1, <2>2
  <1>2. QED
    BY <1>1, PTL

\* A write marks the arrays it reaches, and the flushes of them that were encoded already.
LEMMA TouchFacts ==
    ASSUME Inv, NEW S \in SUBSET Objs, Touch(S)
    PROVE  /\ dirty' = dirty \cup S /\ dirty' \subseteq Objs
           /\ job' \in [Threads -> [root : Objs \cup {NoObj}, raw : Seq(Bytes), clean : BOOLEAN]]
           /\ \A t \in Threads :
                 /\ job'[t] = Idle <=> job[t] = Idle
                 /\ job'[t].root = job[t].root /\ job'[t].raw = job[t].raw
                 /\ job'[t].clean => job[t].clean
                 /\ job'[t].clean => job[t].root \notin S
  <1>1. job' = [t \in Threads |-> IF job[t].root \in S THEN [job[t] EXCEPT !.clean = FALSE]
                                  ELSE job[t]]
    BY DEF Touch
  <1>2. \A t \in Threads :
           job[t] \in [root : Objs \cup {NoObj}, raw : Seq(Bytes), clean : BOOLEAN]
    BY DEF Inv, TypeOK
  <1>3. NoObj \notin S
    BY MemmapAssumption
  <1>4. dirty' = dirty \cup S /\ dirty \subseteq Objs
    BY DEF Touch, Inv, TypeOK
  <1>5. ASSUME NEW t \in Threads
        PROVE  /\ job'[t] \in [root : Objs \cup {NoObj}, raw : Seq(Bytes), clean : BOOLEAN]
               /\ job'[t] = Idle <=> job[t] = Idle
               /\ job'[t].root = job[t].root /\ job'[t].raw = job[t].raw
               /\ job'[t].clean => job[t].clean
               /\ job'[t].clean => job[t].root \notin S
    <2>1. PICK root : root = job[t].root
      OBVIOUS
    <2>2. CASE root \in S
      <3>1. job'[t] = [job[t] EXCEPT !.clean = FALSE]
        BY <1>1, <2>1, <2>2
      <3>2. /\ job'[t] \in [root : Objs \cup {NoObj}, raw : Seq(Bytes), clean : BOOLEAN]
            /\ job'[t].root = job[t].root /\ job'[t].raw = job[t].raw /\ ~job'[t].clean
        BY <1>2, <3>1
      <3>3. job[t] # Idle /\ job'[t] # Idle
        BY <1>3, <2>1, <2>2, <3>2 DEF Idle
      <3>4. QED
        BY <3>2, <3>3
    <2>3. CASE root \notin S
      <3>1. job'[t] = job[t]
        BY <1>1, <2>1, <2>3
      <3>2. QED
        BY <1>2, <2>1, <2>3, <3>1
    <2>4. QED
      BY <2>2, <2>3
  <1>6. job' = [t \in Threads |-> job'[t]]
    BY <1>1
  <1>7. QED
    BY <1>4, <1>5, <1>6

\* Element writes: the buffer changes under every array that shows it.
LEMMA SetItemKeeps ==
    ASSUME Inv, NEW o \in Objs, Live(o), NEW where, NEW v \in Bytes, SetItem(o, where, v)
    PROVE  /\ Inv' /\ (TieInv => TieInv') /\ file' = file /\ obj' = obj
           /\ savingBar' = savingBar
           /\ \A r \in Objs : Mapped(r)' <=> Mapped(r)
           /\ \A r \in Objs : Live(r) /\ obj[r].buf # obj[o].buf => Encode(r)' = Encode(r)
  <1> USE DEF Inv
  <1>1. PICK b \in Bufs : b = obj[o].buf
    BY SourceFacts
  <1> DEFINE hit == {obj[o].cells[i] : i \in where}
             d == [c \in DOMAIN data[b] |-> IF c \in hit THEN v ELSE data[b][c]]
  <1>2. PICK S \in SUBSET Objs : S = {p \in Objs : Live(p) /\ obj[p].buf = b}
    OBVIOUS
  <1>3. /\ data' = [data EXCEPT ![b] = d] /\ Touch(S)
        /\ file' = file /\ obj' = obj /\ filled' = filled
    <2>1. data' = [data EXCEPT ![b] = [c \in DOMAIN data[b] |-> IF c \in hit THEN v ELSE data[b][c]]]
      BY <1>1 DEF SetItem, TypeOK
    <2>2. QED
      BY <1>1, <1>2, <2>1 DEF SetItem
  <1>4. calls \in Nat /\ calls' = calls + 1 /\ calls' \in 0..MaxCalls
    BY NewBufFacts DEF SetItem, Call
  <1>5. data[b] \in Seq(Bytes) /\ d \in Seq(Bytes) /\ Len(d) = Len(data[b])
    <2>1. data[b] \in Seq(Bytes)
      BY DEF TypeOK
    <2>2. d \in [1..Len(data[b]) -> Bytes]
      BY <2>1
    <2> HIDE DEF d
    <2>3. QED
      BY <2>1, <2>2
  <1> HIDE DEF d
  <1>6. data'[b] = d /\ \A c \in Bufs \ {b} : data'[c] = data[c]
    BY <1>3 DEF TypeOK
  <1>7. \A c \in Bufs : Len(data'[c]) = Len(data[c])
    BY <1>5, <1>6
  <1>8. \A p \in Objs : (Live(p)' <=> Live(p)) /\ (Mapped(p)' <=> Mapped(p))
    BY <1>3 DEF Live, Mapped
  <1>9. /\ dirty' = dirty \cup S /\ dirty' \subseteq Objs
        /\ job' \in [Threads -> [root : Objs \cup {NoObj}, raw : Seq(Bytes), clean : BOOLEAN]]
        /\ \A t \in Threads :
              /\ job'[t] = Idle <=> job[t] = Idle
              /\ job'[t].root = job[t].root /\ job'[t].raw = job[t].raw
              /\ job'[t].clean => job[t].clean
              /\ job'[t].clean => job[t].root \notin S
    BY <1>3, TouchFacts
  <1>10. \A p \in Objs : Live(p) =>
            /\ obj[p].buf \in Bufs /\ obj[p].buf <= calls' /\ obj[p].root \in Objs
    <2> TAKE p \in Objs
    <2> HAVE Live(p)
    <2>1. obj[p] \in ObjRec /\ obj[p].buf <= calls
      BY LiveRecord DEF MemInv
    <2>2. obj[p].buf \in Nat
      BY <2>1, MemmapAssumption DEF ObjRec, Bufs
    <2>3. QED
      BY <1>4, <2>1, <2>2 DEF ObjRec
  <1>11. \A r \in Objs : Live(r) /\ obj[r].buf # b => Encode(r)' = Encode(r)
    BY <1>3, <1>6, <1>10, EncodeSame
  <1>12. TypeOK'
    <2>1. data' \in [Bufs -> Seq(Bytes)]
      BY <1>3, <1>5 DEF TypeOK
    <2>2. QED
      BY <1>3, <1>4, <1>9, <2>1 DEF TypeOK
  <1>13. MemInv'
    <2> SUFFICES ASSUME NEW p \in Objs, Live(p)
                 PROVE  (/\ obj[p].buf <= calls /\ Live(obj[p].root)
                         /\ obj[p].cells \in [1..Len(obj[p].cells) -> 1..Len(data[obj[p].buf])]
                         /\ \E c \in Nat : Len(obj[p].cells) = obj[p].rows * c)'
      BY <1>8 DEF MemInv
    <2>1. obj'[p] = obj[p] /\ Len(data'[obj[p].buf]) = Len(data[obj[p].buf])
      BY <1>3, <1>7, <1>10
    <2>2. obj[p].root \in Objs /\ Live(obj[p].root)
      BY <1>10 DEF MemInv
    <2>3. Live(obj[p].root)'
      BY <1>8, <2>1, <2>2
    <2>4. QED
      BY <1>10, <2>1, <2>3 DEF MemInv
  <1>14. SourceInv'
    BY <1>3, <1>8 DEF SourceInv
  <1>15. JobInv'
    <2> SUFFICES ASSUME NEW t \in Threads, job[t] # Idle, NEW r, r = job[t].root
                 PROVE  /\ r \in Objs /\ Mapped(r)' /\ obj'[r].mode \in Writable
                        /\ DOMAIN job'[t].raw = DOMAIN obj'[r].cells
                        /\ job'[t].clean => job'[t].raw = Encode(r)'
      BY <1>9 DEF JobInv
    <2>1. /\ r \in Objs /\ Mapped(r) /\ obj[r].mode \in Writable
          /\ DOMAIN job[t].raw = DOMAIN obj[r].cells /\ (job[t].clean => job[t].raw = Encode(r))
      BY DEF JobInv
    <2>2. job'[t].clean => obj[r].buf # b
      BY <1>2, <1>9, <2>1 DEF Mapped
    <2>3. job'[t].clean => Encode(r)' = Encode(r)
      BY <1>11, <2>1, <2>2 DEF Mapped
    <2>4. QED
      BY <1>3, <1>8, <1>9, <2>1, <2>3
  <1>16. \A r \in Objs : OnlyWriter(r)' <=> OnlyWriter(r)
    BY <1>3, <1>8 DEF OnlyWriter
  <1>17. RoomInv'
    BY <1>3, <1>8, <1>16 DEF RoomInv
  <1>18. SavedInv'
    <2> SUFFICES ASSUME NEW r \in Objs, r \notin dirty', Mapped(r), obj[r].mode \in Writable,
                        OnlyWriter(r), NEW k \in DOMAIN obj[r].cells
                 PROVE  file[obj[r].file][obj[r].start + obj[r].at + k] = Encode(r)'[k]
      BY <1>3, <1>8, <1>16 DEF SavedInv
    <2>1. obj[r].buf # b /\ r \notin dirty /\ Live(r)
      BY <1>2, <1>9 DEF Mapped
    <2>2. Encode(r)' = Encode(r)
      BY <1>11, <2>1
    <2>3. QED
      BY <2>1, <2>2 DEF SavedInv
  <1>19. TieInv => TieInv'
    BY <1>3, <1>8, <1>10 DEF TieInv, TiesFollowMemory
  <1>20. savingBar' = savingBar
    <2>1. \A t \in Threads : savingBar'[t] = savingBar[t]
      BY <1>3, <1>9 DEF savingBar
    <2>2. QED
      BY <2>1, Zenon DEF savingBar
  <1>21. QED
    BY <1>1, <1>3, <1>8, <1>11, <1>12, <1>13, <1>14, <1>15, <1>17, <1>18, <1>19, <1>20

\* A copy that alone changes its bytes, and not their number, is edited.
LEMMA EditOf ==
    ASSUME Inv, Inv', NEW q \in Objs, Mapped(q), Mapped(q)', obj[q].mode # "r",
           obj'[q].file = obj[q].file, obj'[q].start = obj[q].start, obj'[q].at = obj[q].at,
           obj'[q].mode = obj[q].mode, Len(obj'[q].cells) = Len(obj[q].cells),
           \A p \in Objs \ {q} : copyBar'[p] = copyBar[p],
           file' = file, savingBar' = savingBar
    PROVE  Abstract!Edit(q)
  <1>1. EncodeIs /\ CopyIs /\ EncodeIs' /\ CopyIs'
    BY EncodeFacts, CopyFacts, NextCopies DEF EncodeIs, CopyIs
  <1>2. PICK old, new, at : old = Encode(q) /\ new = Encode(q)' /\ at = obj[q].start + obj[q].at
    OBVIOUS
  <1>3. Len(old) = Len(new)
    BY <1>1, <1>2 DEF EncodeIs, Mapped
  <1>4. /\ copyBar[q] = [file |-> obj[q].file, at |-> at, mode |-> obj[q].mode, val |-> old]
        /\ copyBar[q] # NoObj
    BY <1>1, <1>2 DEF CopyIs
  <1>5. /\ copyBar'[q] = [file |-> obj[q].file, at |-> at, mode |-> obj[q].mode, val |-> new]
        /\ copyBar'[q] # NoObj
    BY <1>1, <1>2 DEF CopyIs
  <1>6. copyBar' = [copyBar EXCEPT ![q].val = new]
    <2>1. [copyBar[q] EXCEPT !.val = new] = copyBar'[q]
      BY <1>4, <1>5
    <2>2. copyBar' = [copyBar EXCEPT ![q] = copyBar'[q]]
      BY DEF copyBar
    <2>3. QED
      BY <2>1, <2>2
  <1>7. /\ copyBar'[q].val = new /\ Len(copyBar'[q].val) = Len(copyBar[q].val)
        /\ copyBar[q].mode # "r" /\ copyBar[q] # NoObj /\ copyBar'[q] # NoObj
    BY <1>3, <1>4, <1>5
  <1>8. QED
    BY <1>6, <1>7, Zenon DEF Abstract!Edit

\* An element write edits the copy whose array it reaches, if a mapped array is reached.
LEMMA SetItemEdits ==
    ASSUME Inv, TieInv, NEW o \in Objs, Live(o), NEW where, NEW v \in Bytes,
           SetItem(o, where, v)
    PROVE  (\E r \in Objs : Abstract!Edit(r)) \/ UNCHANGED <<file, copyBar, savingBar>>
  <1>1. /\ Inv' /\ file' = file /\ obj' = obj /\ savingBar' = savingBar
        /\ \A r \in Objs : Mapped(r)' <=> Mapped(r)
        /\ \A r \in Objs : Live(r) /\ obj[r].buf # obj[o].buf => Encode(r)' = Encode(r)
    BY SetItemKeeps
  <1>2. \A p \in Objs : (Mapped(p) /\ obj[p].buf = obj[o].buf) \/ copyBar'[p] = copyBar[p]
    <2> TAKE p \in Objs
    <2>1. CASE Mapped(p) /\ obj[p].buf # obj[o].buf
      <3>1. Encode(p)' = Encode(p)
        BY <1>1, <2>1 DEF Mapped
      <3>2. QED
        BY <1>1, <2>1, <3>1 DEF copyBar
    <2>2. CASE ~Mapped(p)
      BY <1>1, <2>2 DEF copyBar
    <2>3. QED
      BY <2>1, <2>2
  <1>3. CASE \E q \in Objs : Mapped(q) /\ obj[q].buf = obj[o].buf
    <2>1. PICK q \in Objs : Mapped(q) /\ obj[q].buf = obj[o].buf
      BY <1>3
    <2>2. obj[q].mode # "r"
      <3>1. obj[o].mode = obj[q].mode
        BY <2>1 DEF TieInv, TiesFollowMemory
      <3>2. QED
        BY <3>1 DEF SetItem
    <2>3. \A p \in Objs \ {q} : copyBar'[p] = copyBar[p]
      <3> SUFFICES ASSUME NEW p \in Objs, Mapped(p), obj[p].buf = obj[o].buf
                   PROVE  p = q
        BY <1>2
      <3>1. obj[p].root = p /\ Live(p)
        BY MappedFacts
      <3>2. obj[p].root = q
        BY <2>1, <3>1 DEF TieInv, TiesFollowMemory
      <3>3. QED
        BY <3>1, <3>2
    <2>4. Abstract!Edit(q)
      BY <1>1, <2>1, <2>2, <2>3, EditOf
    <2>5. QED
      BY <2>4
  <1>4. CASE ~\E q \in Objs : Mapped(q) /\ obj[q].buf = obj[o].buf
    <2>1. copyBar' = copyBar
      BY <1>2, <1>4 DEF copyBar
    <2>2. QED
      BY <1>1, <2>1
  <1>5. QED
    BY <1>3, <1>4

\* What fill leaves: the object shows a buffer that no other object shows.
LEMMA FillFacts ==
    ASSUME Inv, NEW o \in Objs, Live(o), NEW v \in Bytes, Fill(o, v)
    PROVE  /\ obj'[o].buf = NewBuf /\ Len(obj'[o].cells) = Len(obj[o].cells)
           /\ DOMAIN obj'[o].cells = DOMAIN obj[o].cells
           /\ \A p \in Objs :
                 /\ (Live(p)' <=> Live(p)) /\ (Mapped(p)' <=> Mapped(p))
                 /\ OnlyWriter(p)' <=> OnlyWriter(p)
                 /\ Live(p) => /\ obj'[p].mode = obj[p].mode /\ obj'[p].root = obj[p].root
                               /\ obj'[p].file = obj[p].file /\ obj'[p].start = obj[p].start
                               /\ obj'[p].at = obj[p].at /\ obj'[p].rows = obj[p].rows
           /\ \A p \in Objs \ {o} :
                 /\ obj'[p] = obj[p]
                 /\ Live(p) => /\ obj[p].buf # NewBuf /\ obj[p].buf \in Bufs
                               /\ data'[obj[p].buf] = data[obj[p].buf]
                               /\ Encode(p)' = Encode(p)
           /\ TypeOK' /\ calls' = NewBuf /\ NewBuf = calls + 1 /\ calls \in Nat
           /\ obj'[o].cells \in [1..Len(obj'[o].cells) -> 1..Len(data'[NewBuf])]
           /\ file' = file /\ filled' = filled \cup {NewBuf} /\ Touch({o})
  <1> USE DEF Inv
  <1>1. obj[o] \in ObjRec /\ obj[o].cells \in Seq(Nat)
    BY LiveRecord DEF ObjRec
  <1>2. PICK n \in Nat : n = Len(obj[o].cells)
    BY <1>1
  <1>3. calls \in Nat /\ NewBuf \in Bufs /\ NewBuf = calls + 1 /\ calls' = NewBuf
        /\ calls' \in 0..MaxCalls
    BY NewBufFacts DEF Fill
  <1>4. PICK d : d = [k \in 1..n |-> v]
    OBVIOUS
  <1>5. d \in Seq(Bytes) /\ Len(d) = n
    <2>1. d \in [1..n -> Bytes]
      BY <1>4
    <2>2. QED
      BY <2>1
  <1>6. PICK w : w = Whole(n)
    OBVIOUS
  <1>7. w \in [1..n -> 1..n] /\ w \in Seq(Nat) /\ Len(w) = n /\ DOMAIN w = 1..n
    <2>1. w \in [1..n -> 1..n]
      BY <1>6 DEF Whole
    <2>2. QED
      BY <2>1
  <1>8. PICK rec : rec = [obj[o] EXCEPT !.buf = NewBuf, !.cells = w]
    OBVIOUS
  <1>9. /\ rec \in ObjRec /\ rec.buf = NewBuf /\ rec.cells = w
        /\ rec.mode = obj[o].mode /\ rec.root = obj[o].root /\ rec.file = obj[o].file
        /\ rec.start = obj[o].start /\ rec.at = obj[o].at /\ rec.rows = obj[o].rows
    BY <1>1, <1>3, <1>7, <1>8 DEF ObjRec
  <1>10. /\ obj' = [obj EXCEPT ![o] = rec] /\ data' = [data EXCEPT ![NewBuf] = d]
         /\ file' = file /\ filled' = filled \cup {NewBuf} /\ Touch({o})
    <2>1. obj' = [obj EXCEPT ![o].buf = NewBuf, ![o].cells = w]
      BY <1>2, <1>6 DEF Fill
    <2>2. obj' = [obj EXCEPT ![o] = rec]
      BY <1>1, <1>8, <2>1 DEF TypeOK
    <2>3. QED
      BY <1>2, <1>4, <2>2 DEF Fill, Allocate
  <1>11. /\ obj'[o] = rec /\ \A p \in Objs \ {o} : obj'[p] = obj[p]
         /\ data'[NewBuf] = d /\ \A b \in Bufs \ {NewBuf} : data'[b] = data[b]
    BY <1>3, <1>10 DEF TypeOK
  <1>12. rec # NoObj
    BY <1>9, RecordIsNot
  <1>13. \A p \in Objs : (Live(p)' <=> Live(p)) /\ (Mapped(p)' <=> Mapped(p))
    BY <1>9, <1>11, <1>12 DEF Live, Mapped
  <1>14. \A p \in Objs : Live(p) => /\ obj'[p].mode = obj[p].mode /\ obj'[p].root = obj[p].root
                                    /\ obj'[p].file = obj[p].file /\ obj'[p].start = obj[p].start
                                    /\ obj'[p].at = obj[p].at /\ obj'[p].rows = obj[p].rows
    BY <1>9, <1>11
  <1>15. \A p \in Objs : OnlyWriter(p)' <=> OnlyWriter(p)
    <2> TAKE p \in Objs
    <2>1. CASE Live(p)
      BY <1>13, <1>14, <2>1 DEF OnlyWriter, Mapped
    <2>2. CASE ~Live(p)
      <3>1. p # o /\ obj'[p] = obj[p]
        BY <1>11, <2>2
      <3>2. QED
        BY <1>13, <1>14, <3>1 DEF OnlyWriter, Mapped
    <2>3. QED
      BY <2>1, <2>2
  <1>16. \A p \in Objs \ {o} : Live(p) => /\ obj[p].buf # NewBuf /\ obj[p].buf \in Bufs
                                          /\ data'[obj[p].buf] = data[obj[p].buf]
    <2> TAKE p \in Objs \ {o}
    <2> HAVE Live(p)
    <2>1. obj[p].buf \in Bufs /\ obj[p].buf <= calls
      BY LiveRecord DEF MemInv, ObjRec
    <2>2. obj[p].buf # NewBuf
      BY <1>3, <2>1 DEF Bufs
    <2>3. QED
      BY <1>11, <2>1, <2>2
  <1>17. \A p \in Objs \ {o} : Live(p) => Encode(p)' = Encode(p)
    BY <1>11, <1>16, EncodeSame
  <1>18. TypeOK'
    <2>1. data' \in [Bufs -> Seq(Bytes)] /\ obj' \in [Objs -> {NoObj} \cup ObjRec]
      BY <1>5, <1>9, <1>10 DEF TypeOK
    <2>2. dirty' \subseteq Objs
          /\ job' \in [Threads -> [root : Objs \cup {NoObj}, raw : Seq(Bytes), clean : BOOLEAN]]
      BY <1>10, TouchFacts
    <2>3. QED
      BY <1>3, <1>10, <2>1, <2>2 DEF TypeOK
  <1>19. DOMAIN obj[o].cells = 1..n
    BY <1>1, <1>2
  <1>20. obj'[o].cells \in [1..Len(obj'[o].cells) -> 1..Len(data'[NewBuf])]
    BY <1>5, <1>7, <1>9, <1>11
  <1>21. obj'[o].buf = NewBuf /\ Len(obj'[o].cells) = n /\ DOMAIN obj'[o].cells = 1..n
    BY <1>7, <1>9, <1>11
  <1>22. QED
    BY <1>2, <1>3, <1>10, <1>11, <1>13, <1>14, <1>15, <1>16, <1>17, <1>18, <1>19, <1>20, <1>21

\* Fill keeps the invariant; the ties it leaves behind are those of filled buffers.
LEMMA FillKeeps ==
    ASSUME Inv, NEW o \in Objs, Live(o), NEW v \in Bytes, Fill(o, v)
    PROVE  Inv' /\ (TieInv => TieInv') /\ savingBar' = savingBar
  <1> USE DEF Inv
  <1>1. /\ obj'[o].buf = NewBuf /\ Len(obj'[o].cells) = Len(obj[o].cells)
        /\ DOMAIN obj'[o].cells = DOMAIN obj[o].cells
    BY FillFacts
  <1>2. \A p \in Objs :
           /\ (Live(p)' <=> Live(p)) /\ (Mapped(p)' <=> Mapped(p))
           /\ OnlyWriter(p)' <=> OnlyWriter(p)
           /\ Live(p) => /\ obj'[p].mode = obj[p].mode /\ obj'[p].root = obj[p].root
                         /\ obj'[p].file = obj[p].file /\ obj'[p].start = obj[p].start
                         /\ obj'[p].at = obj[p].at /\ obj'[p].rows = obj[p].rows
    BY FillFacts
  <1>3. \A p \in Objs \ {o} :
           /\ obj'[p] = obj[p]
           /\ Live(p) => /\ obj[p].buf # NewBuf /\ obj[p].buf \in Bufs
                         /\ data'[obj[p].buf] = data[obj[p].buf]
                         /\ Encode(p)' = Encode(p)
    BY FillFacts
  <1>4. /\ TypeOK' /\ calls' = NewBuf /\ NewBuf = calls + 1 /\ calls \in Nat
        /\ obj'[o].cells \in [1..Len(obj'[o].cells) -> 1..Len(data'[NewBuf])]
        /\ file' = file /\ filled' = filled \cup {NewBuf}
    BY FillFacts
  <1>5. /\ dirty' = dirty \cup {o}
        /\ \A t \in Threads :
              /\ job'[t] = Idle <=> job[t] = Idle
              /\ job'[t].root = job[t].root /\ job'[t].raw = job[t].raw
              /\ job'[t].clean => job[t].clean
              /\ job'[t].clean => job[t].root # o
    <2>1. PICK S \in SUBSET Objs : S = {o}
      OBVIOUS
    <2>2. Touch(S)
      BY <2>1, FillFacts
    <2>3. QED
      BY <2>1, <2>2, TouchFacts
  <1>6. MemInv'
    <2> SUFFICES ASSUME NEW p \in Objs, Live(p)
                 PROVE  (/\ obj[p].buf <= calls /\ Live(obj[p].root)
                         /\ obj[p].cells \in [1..Len(obj[p].cells) -> 1..Len(data[obj[p].buf])]
                         /\ \E c \in Nat : Len(obj[p].cells) = obj[p].rows * c)'
      BY <1>2 DEF MemInv
    <2>1. Live(obj[p].root)'
      <3>1. obj[p].root \in Objs /\ Live(obj[p].root) /\ obj'[p].root = obj[p].root
        BY <1>2, LiveRecord DEF MemInv, ObjRec
      <3>2. QED
        BY <1>2, <3>1
    <2>2. obj[p].buf \in Nat /\ obj[p].buf <= calls
      BY LiveRecord DEF MemInv, ObjRec, Bufs
    <2>3. PICK c \in Nat : Len(obj[p].cells) = obj[p].rows * c
      BY DEF MemInv
    <2>4. CASE p = o
      <3>1. obj'[p].buf <= calls' /\ Len(obj'[p].cells) = obj'[p].rows * c
        BY <1>1, <1>2, <1>4, <2>3, <2>4
      <3>2. QED
        BY <1>1, <1>4, <2>1, <2>4, <3>1
    <2>5. CASE p # o
      <3>1. obj'[p] = obj[p] /\ data'[obj[p].buf] = data[obj[p].buf]
        BY <1>3, <2>5
      <3>2. obj'[p].buf <= calls'
        BY <1>4, <2>2, <3>1
      <3>3. QED
        BY <2>1, <3>1, <3>2 DEF MemInv
    <2>6. QED
      BY <2>4, <2>5
  <1>7. SourceInv'
    BY <1>2, <1>4 DEF SourceInv, Mapped
  <1>8. JobInv'
    <2> SUFFICES ASSUME NEW t \in Threads, job[t] # Idle, NEW r, r = job[t].root
                 PROVE  /\ r \in Objs /\ Mapped(r)' /\ obj'[r].mode \in Writable
                        /\ DOMAIN job'[t].raw = DOMAIN obj'[r].cells
                        /\ job'[t].clean => job'[t].raw = Encode(r)'
      BY <1>5 DEF JobInv
    <2>1. /\ r \in Objs /\ Mapped(r) /\ obj[r].mode \in Writable /\ Live(r)
          /\ DOMAIN job[t].raw = DOMAIN obj[r].cells /\ (job[t].clean => job[t].raw = Encode(r))
      BY DEF JobInv, Mapped
    <2>2. DOMAIN obj'[r].cells = DOMAIN obj[r].cells
      BY <1>1, <1>3, <2>1
    <2>3. job'[t].clean => Encode(r)' = Encode(r)
      BY <1>3, <1>5, <2>1
    <2>4. QED
      BY <1>2, <1>5, <2>1, <2>2, <2>3
  <1>9. RoomInv'
    <2> SUFFICES ASSUME NEW r \in Objs, Mapped(r), obj[r].mode \in Writable, OnlyWriter(r)
                 PROVE  obj'[r].start + obj'[r].at + Len(obj'[r].cells) <= Len(file[obj'[r].file])
      BY <1>2, <1>4 DEF RoomInv, Mapped
    <2>1. Len(obj'[r].cells) = Len(obj[r].cells)
      BY <1>1, <1>3
    <2>2. QED
      BY <1>2, <2>1 DEF RoomInv, Mapped
  <1>10. SavedInv'
    <2> SUFFICES ASSUME NEW r \in Objs, r # o, r \notin dirty, Mapped(r), obj[r].mode \in Writable,
                        OnlyWriter(r), NEW k \in DOMAIN obj'[r].cells
                 PROVE  file[obj'[r].file][obj'[r].start + obj'[r].at + k] = Encode(r)'[k]
      BY <1>2, <1>4, <1>5 DEF SavedInv, Mapped
    <2>1. obj'[r] = obj[r] /\ Encode(r)' = Encode(r)
      BY <1>3 DEF Mapped
    <2>2. QED
      BY <2>1 DEF SavedInv
  <1>11. TieInv => TieInv'
    <2> SUFFICES ASSUME TieInv, NEW p \in Objs, Live(p)
                 PROVE  (/\ \A r \in Objs : Mapped(r) /\ obj[r].buf = obj[p].buf =>
                               obj[p].root = r /\ obj[p].mode = obj[r].mode
                         /\ obj[p].mode # "none" =>
                               LET r == obj[p].root
                               IN  /\ Mapped(r) /\ obj[r].mode = obj[p].mode
                                   /\ \/ obj[p].buf = obj[r].buf
                                      \/ {obj[p].buf, obj[r].buf} \cap filled # {})'
      BY <1>2 DEF TieInv, TiesFollowMemory
    <2>1. ASSUME NEW r \in Objs, Mapped(r), obj'[r].buf = obj'[p].buf
          PROVE  obj'[p].root = r /\ obj'[p].mode = obj'[r].mode
      <3>1. CASE p = o /\ r = o
        BY <1>2, <2>1, <3>1, MappedFacts
      <3>2. CASE p # o /\ r # o
        <4>1. obj[p].root = r /\ obj[p].mode = obj[r].mode
          BY <1>3, <2>1, <3>2 DEF TieInv, TiesFollowMemory
        <4>2. QED
          BY <1>2, <2>1, <4>1 DEF Mapped
      <3>3. CASE p = o /\ r # o
        BY <1>1, <1>3, <2>1, <3>3 DEF Mapped
      <3>4. CASE p # o /\ r = o
        BY <1>1, <1>3, <2>1, <3>4
      <3>5. QED
        BY <3>1, <3>2, <3>3, <3>4
    <2>2. ASSUME obj[p].mode # "none", NEW r, r = obj[p].root
          PROVE  /\ Mapped(r)' /\ obj'[r].mode = obj'[p].mode
                 /\ obj'[p].buf = obj'[r].buf \/ {obj'[p].buf, obj'[r].buf} \cap filled' # {}
      <3>1. r \in Objs
        BY <2>2, LiveRecord DEF ObjRec
      <3>2. /\ Mapped(r) /\ obj[r].mode = obj[p].mode
            /\ obj[p].buf = obj[r].buf \/ {obj[p].buf, obj[r].buf} \cap filled # {}
        BY <2>2 DEF TieInv, TiesFollowMemory
      <3>3. CASE p = o \/ r = o
        BY <1>1, <1>2, <1>4, <3>1, <3>2, <3>3 DEF Mapped
      <3>4. CASE p # o /\ r # o
        BY <1>2, <1>3, <1>4, <3>1, <3>2, <3>4 DEF Mapped
      <3>5. QED
        BY <3>3, <3>4
    <2>3. obj'[p].root = obj[p].root /\ obj'[p].mode = obj[p].mode
      BY <1>2
    <2>4. QED
      BY <1>2, <2>1, <2>2, <2>3
  <1>12. savingBar' = savingBar
    <2>1. \A t \in Threads : savingBar'[t] = savingBar[t]
      <3> TAKE t \in Threads
      <3>1. job[t] # Idle => job[t].root \in Objs /\ Live(job[t].root)
        BY DEF JobInv, Mapped
      <3>2. QED
        BY <1>2, <1>5, <3>1 DEF savingBar
    <2>2. QED
      BY <2>1, Zenon DEF savingBar
  <1>13. QED
    BY <1>4, <1>6, <1>7, <1>8, <1>9, <1>10, <1>11, <1>12

\* Filling the object that opened a file edits its copy; filling another edits none.
LEMMA FillEdits ==
    ASSUME Inv, NEW o \in Objs, Live(o), NEW v \in Bytes, Fill(o, v)
    PROVE  Abstract!Edit(o) \/ UNCHANGED <<file, copyBar, savingBar>>
  <1>1. Inv' /\ savingBar' = savingBar
    BY FillKeeps
  <1>2. /\ file' = file /\ Len(obj'[o].cells) = Len(obj[o].cells)
        /\ obj'[o].mode = obj[o].mode /\ obj'[o].file = obj[o].file
        /\ obj'[o].start = obj[o].start /\ obj'[o].at = obj[o].at
        /\ \A p \in Objs : Mapped(p)' <=> Mapped(p)
        /\ \A p \in Objs \ {o} : obj'[p] = obj[p] /\ (Live(p) => Encode(p)' = Encode(p))
    BY FillFacts
  <1>3. \A p \in Objs \ {o} : copyBar'[p] = copyBar[p]
    BY <1>2 DEF copyBar, Mapped
  <1>4. CASE Mapped(o)
    <2>1. obj[o].mode # "r" /\ Mapped(o)'
      BY <1>2, <1>4 DEF Fill
    <2>2. QED
      BY <1>1, <1>2, <1>3, <1>4, <2>1, EditOf
  <1>5. CASE ~Mapped(o)
    <2>1. copyBar' = copyBar
      BY <1>2, <1>3, <1>5 DEF copyBar
    <2>2. QED
      BY <1>1, <1>2, <2>1
  <1>6. QED
    BY <1>4, <1>5

LEMMA BeginFlushStep ==
    ASSUME Inv, NEW o \in Objs, Live(o), NEW t \in Threads, BeginFlush(t, o)
    PROVE  /\ Inv' /\ (TieInv => TieInv')
           /\ \E r \in Objs : Abstract!BeginSave(t, r)
  <1> USE DEF Inv
  <1>1. PICK r \in Objs : r = obj[o].root
    BY LiveRecord DEF ObjRec
  <1>2. Mapped(r) /\ obj[r].mode \in Writable /\ job[t] = Idle /\ Live(r)
    BY <1>1 DEF BeginFlush, Mapped, MemInv
  <1>3. PICK raw : raw = Encode(r)
    OBVIOUS
  <1>4. raw \in Seq(Bytes) /\ DOMAIN raw = DOMAIN obj[r].cells
    BY <1>2, <1>3, EncodeFacts
  <1>5. /\ job' = [job EXCEPT ![t] = [root |-> r, raw |-> raw, clean |-> TRUE]]
        /\ UNCHANGED <<file, obj, data, dirty, filled, calls>>
    BY <1>1, <1>3 DEF BeginFlush
  <1>6. /\ job'[t] = [root |-> r, raw |-> raw, clean |-> TRUE] /\ job'[t] # Idle
        /\ \A u \in Threads \ {t} : job'[u] = job[u]
    BY <1>5, MemmapAssumption DEF TypeOK, Idle
  <1>7. TypeOK'
    BY <1>4, <1>5 DEF TypeOK
  <1>8. \A p \in Objs : Encode(p)' = Encode(p)
    BY <1>5, EncodeSame
  <1>9. MemInv' /\ SourceInv' /\ RoomInv' /\ (TieInv => TieInv')
    BY <1>5 DEF MemInv, SourceInv, RoomInv, TieInv, TiesFollowMemory, OnlyWriter, Mapped, Live
  <1>10. SavedInv'
    BY <1>5, <1>8 DEF SavedInv, OnlyWriter, Mapped, Live
  <1>11. \A p \in Objs : Mapped(p)' <=> Mapped(p)
    BY <1>5 DEF Mapped, Live
  <1>12. JobInv'
    <2> SUFFICES ASSUME NEW u \in Threads, job'[u] # Idle, NEW q, q = job'[u].root
                 PROVE  /\ q \in Objs /\ Mapped(q)' /\ obj'[q].mode \in Writable
                        /\ DOMAIN job'[u].raw = DOMAIN obj'[q].cells
                        /\ job'[u].clean => job'[u].raw = Encode(q)'
      BY DEF JobInv
    <2>1. CASE u = t
      BY <1>2, <1>3, <1>4, <1>5, <1>6, <1>8, <1>11, <2>1
    <2>2. CASE u # t
      BY <1>5, <1>6, <1>8, <1>11, <2>2 DEF JobInv
    <2>3. QED
      BY <2>1, <2>2
  <1>13. copyBar' = copyBar
    BY <1>5, <1>8, <1>11 DEF copyBar
  <1>14. savingBar' = [savingBar EXCEPT ![t] = [file |-> obj[r].file,
                                               at |-> obj[r].start + obj[r].at, val |-> raw]]
    <2>1. savingBar'[t] = [file |-> obj[r].file, at |-> obj[r].start + obj[r].at, val |-> raw]
      BY <1>5, <1>6 DEF savingBar
    <2>2. \A u \in Threads \ {t} : savingBar'[u] = savingBar[u]
      BY <1>5, <1>6 DEF savingBar
    <2>3. QED
      BY <2>1, <2>2 DEF savingBar
  <1>15. Abstract!BeginSave(t, r)
    <2>1. /\ copyBar[r] = [file |-> obj[r].file, at |-> obj[r].start + obj[r].at,
                           mode |-> obj[r].mode, val |-> raw]
          /\ copyBar[r] # NoObj
      BY <1>2, <1>3, CopyFacts
    <2>2. savingBar[t] = NoObj
      BY <1>2, SaveFacts
    <2>3. QED
      BY <1>2, <1>5, <1>13, <1>14, <2>1, <2>2 DEF Abstract!BeginSave, Writable
  <1>16. QED
    BY <1>7, <1>9, <1>10, <1>12, <1>15

\* Storing bytes keeps the length of a file and puts each byte at its place.
LEMMA StoredFacts ==
    ASSUME Inv, NEW r \in Objs, Mapped(r), NEW raw \in Seq(Bytes), NEW S \in SUBSET DOMAIN raw,
           NEW c \in Seq(Bytes)
    PROVE  /\ Stored(c, r, raw, S) \in Seq(Bytes) /\ Len(Stored(c, r, raw, S)) = Len(c)
           /\ Stored(c, r, raw, S) = Abstract!Overlay(c, obj[r].start + obj[r].at, raw, S)
           /\ \A k \in S : obj[r].start + obj[r].at + k <= Len(c)
                           => Stored(c, r, raw, S)[obj[r].start + obj[r].at + k] = raw[k]
  <1> DEFINE at == obj[r].start + obj[r].at
             d == Stored(c, r, raw, S)
  <1>1. at \in Nat /\ DOMAIN c = 1..Len(c) /\ Len(c) \in Nat /\ S \subseteq Nat
    BY MappedFacts
  <1>2. \A k \in S : k \in DOMAIN raw /\ k >= 1 /\ raw[k] \in Bytes
    OBVIOUS
  <1> HIDE DEF at
  <1>3. d = [p \in 1..Len(c) |-> IF p - at \in S THEN raw[p - at] ELSE c[p]]
    BY <1>1 DEF Stored, at
  <1>4. d = Abstract!Overlay(c, at, raw, S)
    BY <1>1, <1>3 DEF Abstract!Overlay
  <1> HIDE DEF d
  <1>5. d \in [1..Len(c) -> Bytes]
    <2>1. \A p \in 1..Len(c) : c[p] \in Bytes
      OBVIOUS
    <2>2. QED
      BY <1>2, <1>3, <2>1
  <1>6. d \in Seq(Bytes) /\ Len(d) = Len(c)
    BY <1>1, <1>5
  <1>7. ASSUME NEW k \in S, at + k <= Len(c)
        PROVE  d[at + k] = raw[k]
    <2>1. at + k \in 1..Len(c) /\ (at + k) - at = k
      BY <1>1, <1>2, <1>7
    <2>2. QED
      BY <1>3, <2>1
  <1>8. QED
    BY <1>4, <1>6, <1>7 DEF d, at

LEMMA EndFlushStep ==
    ASSUME Inv, NEW t \in Threads, EndFlush(t)
    PROVE  Inv' /\ (TieInv => TieInv') /\ Abstract!EndSave(t)
  <1> USE DEF Inv
  <1>1. PICK r \in Objs : r = job[t].root /\ Mapped(r) /\ obj[r].mode \in Writable
    BY DEF EndFlush, JobInv
  <1>2. PICK raw \in Seq(Bytes) : raw = job[t].raw
    BY DEF TypeOK
  <1>3. PICK f \in Files : f = obj[r].file /\ file[f] \in Seq(Bytes)
    BY <1>1, MappedFacts
  <1>4. PICK new : new = Stored(file[f], r, raw, DOMAIN raw)
    OBVIOUS
  <1>5. /\ new \in Seq(Bytes) /\ Len(new) = Len(file[f])
        /\ new = Abstract!Overlay(file[f], obj[r].start + obj[r].at, raw, DOMAIN raw)
        /\ \A k \in DOMAIN raw : obj[r].start + obj[r].at + k <= Len(file[f])
                                 => new[obj[r].start + obj[r].at + k] = raw[k]
    <2>1. PICK c \in Seq(Bytes) : c = file[f]
      BY <1>3
    <2>2. PICK S \in SUBSET DOMAIN raw : S = DOMAIN raw
      OBVIOUS
    <2>3. PICK w : w = Stored(c, r, raw, S)
      OBVIOUS
    <2>4. /\ w \in Seq(Bytes) /\ Len(w) = Len(c)
          /\ w = Abstract!Overlay(c, obj[r].start + obj[r].at, raw, S)
          /\ \A k \in S : obj[r].start + obj[r].at + k <= Len(c)
                          => w[obj[r].start + obj[r].at + k] = raw[k]
      BY <1>1, <2>3, StoredFacts
    <2>5. w = new
      BY <1>4, <2>1, <2>2, <2>3
    <2> QED  BY <2>1, <2>2, <2>4, <2>5
  <1>6. /\ file' = [file EXCEPT ![f] = new]
        /\ dirty' = (IF job[t].clean THEN dirty \ {r} ELSE dirty \cup {r})
        /\ job' = [job EXCEPT ![t] = Idle]
        /\ UNCHANGED <<obj, data, filled, calls>> /\ job[t] # Idle
    BY <1>1, <1>2, <1>3, <1>4, MappedFacts DEF EndFlush
  <1>7. /\ file'[f] = new /\ \A g \in Files \ {f} : file'[g] = file[g]
        /\ job'[t] = Idle /\ \A u \in Threads \ {t} : job'[u] = job[u]
    BY <1>6 DEF TypeOK
  <1>8. \A p \in Objs : (Mapped(p)' <=> Mapped(p)) /\ (OnlyWriter(p)' <=> OnlyWriter(p))
    BY <1>6 DEF Mapped, Live, OnlyWriter
  <1>9. \A p \in Objs : Mapped(p) => Len(file'[obj[p].file]) = Len(file[obj[p].file])
    BY <1>5, <1>7, MappedFacts
  <1>10. TypeOK'
    BY <1>1, <1>5, <1>6 DEF TypeOK, Idle
  <1>11. MemInv' /\ (TieInv => TieInv') /\ \A p \in Objs : Encode(p)' = Encode(p)
    BY <1>6, EncodeSame DEF MemInv, TieInv, TiesFollowMemory, Mapped, Live
  <1>12. SourceInv'
    <2> SUFFICES ASSUME NEW p \in Objs, Mapped(p)
                 PROVE  (/\ obj[p].root = p /\ obj[p].mode # "none"
                         /\ file[obj[p].file] # <<>>)'
      BY <1>8 DEF SourceInv
    <2>1. file'[obj[p].file] # <<>>
      BY <1>5, <1>7, MappedFacts
    <2>2. QED
      BY <1>6, <2>1 DEF SourceInv
  <1>13. JobInv'
    BY <1>6, <1>7, <1>8, <1>11 DEF JobInv
  <1>14. RoomInv'
    BY <1>6, <1>8, <1>9 DEF RoomInv
  <1>15. SavedInv'
    <2> SUFFICES ASSUME NEW q \in Objs, q \notin dirty', Mapped(q), obj[q].mode \in Writable,
                        OnlyWriter(q), NEW k \in DOMAIN obj[q].cells
                 PROVE  file'[obj[q].file][obj[q].start + obj[q].at + k] = Encode(q)[k]
      BY <1>6, <1>8, <1>11 DEF SavedInv
    <2>1. CASE q = r
      <3>1. job[t].clean
        BY <1>6, <2>1
      <3>2. raw = Encode(r) /\ k \in DOMAIN raw
        BY <1>1, <1>2, <1>6, <2>1, <3>1 DEF JobInv
      <3>3. obj[r].start + obj[r].at + Len(obj[r].cells) <= Len(file[f])
        BY <1>1, <1>3, <2>1 DEF RoomInv
      <3>4. obj[r].start + obj[r].at + k <= Len(file[f])
        <4>1. Len(obj[r].cells) = Len(raw)
          BY <1>1, <3>2, EncodeFacts DEF Mapped
        <4>2. PICK n \in Nat : n = obj[r].start + obj[r].at
          BY <1>1, MappedFacts
        <4>3. PICK len \in Nat, room \in Nat : len = Len(raw) /\ room = Len(file[f])
          BY <1>3
        <4>4. k \in Nat /\ k <= len /\ n + len <= room
          BY <3>2, <3>3, <4>1, <4>2, <4>3
        <4>5. n + k <= Len(file[f])
          BY <4>3, <4>4
        <4>6. QED
          BY <4>2, <4>5
      <3>5. QED
        BY <1>3, <1>5, <1>7, <2>1, <3>2, <3>4
    <2>2. CASE q # r
      <3>1. obj[q].file # f
        BY <1>1, <1>3, <2>2 DEF OnlyWriter
      <3>2. file'[obj[q].file] = file[obj[q].file]
        BY <1>7, <3>1, MappedFacts
      <3>3. q \notin dirty
        BY <1>6, <2>2
      <3>4. QED
        BY <3>2, <3>3 DEF SavedInv
    <2>3. QED
      BY <2>1, <2>2
  <1>16. Abstract!EndSave(t)
    <2>1. /\ savingBar[t] = [file |-> f, at |-> obj[r].start + obj[r].at, val |-> raw]
          /\ savingBar[t] # NoObj
      BY <1>1, <1>2, <1>3, <1>6, SaveFacts
    <2>2. file' = [file EXCEPT ![savingBar[t].file] =
                     Abstract!Overlay(file[f], savingBar[t].at, savingBar[t].val,
                                      DOMAIN savingBar[t].val)]
      BY <1>5, <1>6, <2>1
    <2>3. savingBar' = [savingBar EXCEPT ![t] = NoObj]
      <3>1. savingBar'[t] = NoObj
        BY <1>7 DEF savingBar
      <3>2. \A u \in Threads \ {t} : savingBar'[u] = savingBar[u]
        BY <1>6, <1>7 DEF savingBar
      <3>3. QED
        BY <3>1, <3>2 DEF savingBar
    <2>4. copyBar' = copyBar
      BY <1>6, <1>8, <1>11 DEF copyBar
    <2>5. QED
      BY <2>1, <2>2, <2>3, <2>4 DEF Abstract!EndSave
  <1>17. QED
    BY <1>10, <1>11, <1>12, <1>13, <1>14, <1>15, <1>16

\* At the end of the process nothing lives; a save may have been done in part.
LEMMA ExitStep ==
    ASSUME Inv, Exit
    PROVE  Inv' /\ TieInv' /\ Abstract!End
  <1> USE DEF Inv
  <1>1. /\ \A o \in Objs : ~Live(o)' /\ ~Mapped(o)'
        /\ \A t \in Threads : job'[t] = Idle
    BY DEF Exit, Live, Mapped
  <1>2. \/ UNCHANGED file
        \/ \E t \in Threads :
              /\ job[t] # Idle /\ savingBar[t] # NoObj
              /\ \E S \in SUBSET DOMAIN savingBar[t].val :
                    file' = [file EXCEPT ![savingBar[t].file] =
                               Abstract!Overlay(@, savingBar[t].at, savingBar[t].val, S)]
    <2>1. ASSUME NEW t \in Threads, job[t] # Idle, NEW S \in SUBSET DOMAIN job[t].raw,
                 file' = [file EXCEPT ![obj[job[t].root].file] =
                            Stored(@, job[t].root, job[t].raw, S)]
          PROVE  /\ savingBar[t] # NoObj
                 /\ S \in SUBSET DOMAIN savingBar[t].val
                 /\ file' = [file EXCEPT ![savingBar[t].file] =
                               Abstract!Overlay(@, savingBar[t].at, savingBar[t].val, S)]
      <3>1. PICK r \in Objs :
               /\ r = job[t].root /\ Mapped(r) /\ savingBar[t] # NoObj
               /\ savingBar[t] = [file |-> obj[r].file, at |-> obj[r].start + obj[r].at,
                                  val |-> job[t].raw]
        BY <2>1, SaveFacts
      <3>2. PICK raw \in Seq(Bytes) : raw = job[t].raw
        BY DEF TypeOK
      <3>3. PICK f \in Files : f = obj[r].file /\ file[f] \in Seq(Bytes)
        BY <3>1, MappedFacts
      <3>4. S \in SUBSET DOMAIN raw
        BY <3>2
      <3>5. Stored(file[f], r, raw, S)
              = Abstract!Overlay(file[f], obj[r].start + obj[r].at, raw, S)
        BY <3>1, <3>3, <3>4, StoredFacts
      <3>6. file' = [file EXCEPT ![f] = Stored(file[f], r, raw, S)]
        BY <2>1, <3>1, <3>2, <3>3
      <3>7. file' = [file EXCEPT ![f] =
                       Abstract!Overlay(file[f], obj[r].start + obj[r].at, raw, S)]
        BY <3>5, <3>6
      <3>8. QED
        BY <3>1, <3>2, <3>3, <3>4, <3>7
    <2>2. QED
      BY <2>1 DEF Exit
  <1>3. file' \in [Files -> Seq(Bytes)]
    <2>1. CASE UNCHANGED file
      BY <2>1 DEF TypeOK
    <2>2. ASSUME NEW t \in Threads, job[t] # Idle, NEW S \in SUBSET DOMAIN job[t].raw,
                 file' = [file EXCEPT ![obj[job[t].root].file] =
                            Stored(@, job[t].root, job[t].raw, S)]
          PROVE  file' \in [Files -> Seq(Bytes)]
      <3>1. PICK r \in Objs : r = job[t].root /\ Mapped(r)
        BY <2>2 DEF JobInv
      <3>2. PICK raw \in Seq(Bytes) : raw = job[t].raw
        BY DEF TypeOK
      <3>3. PICK f \in Files : f = obj[r].file /\ file[f] \in Seq(Bytes)
        BY <3>1, MappedFacts
      <3>4. S \in SUBSET DOMAIN raw
        BY <3>2
      <3>5. Stored(file[f], r, raw, S) \in Seq(Bytes)
        BY <3>1, <3>3, <3>4, StoredFacts
      <3>6. file' = [file EXCEPT ![f] = Stored(file[f], r, raw, S)]
        BY <2>2, <3>1, <3>2, <3>3
      <3>7. QED
        BY <3>5, <3>6 DEF TypeOK
    <2>3. QED
      BY <2>1, <2>2 DEF Exit
  <1>4. TypeOK'
    <2>1. Idle \in [root : Objs \cup {NoObj}, raw : Seq(Bytes), clean : BOOLEAN]
      BY DEF Idle
    <2>2. data' \in [Bufs -> Seq(Bytes)] /\ obj' \in [Objs -> {NoObj} \cup ObjRec]
      BY DEF Exit
    <2>3. QED
      BY <1>3, <2>1, <2>2 DEF Exit, TypeOK
  <1>5. MemInv' /\ SourceInv' /\ JobInv' /\ RoomInv' /\ SavedInv' /\ TieInv'
    BY <1>1 DEF MemInv, SourceInv, JobInv, RoomInv, SavedInv, TieInv, TiesFollowMemory
  <1>6. copyBar' = [r \in Objs |-> NoObj] /\ savingBar' = [t \in Threads |-> NoObj]
    BY <1>1 DEF copyBar, savingBar
  <1>7. Abstract!End
    BY <1>2, <1>6 DEF Abstract!End
  <1>8. QED
    BY <1>4, <1>5, <1>7

LEMMA OpenFailsStep ==
    ASSUME Inv, NEW f \in Files, NEW offset \in Offsets, OpenFails(f, offset)
    PROVE  Inv' /\ (TieInv => TieInv') /\ Abstract!OpenFails(f)
  <1> USE DEF Inv
  <1>1. /\ file[f] = <<>> /\ file' = [file EXCEPT ![f] = <<Zero>>]
        /\ UNCHANGED <<obj, data, job, dirty, filled>>
        /\ calls \in Nat /\ calls' = calls + 1 /\ calls' \in 0..MaxCalls
    BY NewBufFacts DEF OpenFails, Call
  <1>2. <<Zero>> \in Seq(Bytes) /\ Len(<<Zero>>) = 1 /\ <<Zero>>[1] = Zero /\ <<Zero>> # <<>>
    BY MemmapAssumption
  <1>3. file'[f] = <<Zero>> /\ \A g \in Files \ {f} : file'[g] = file[g]
    BY <1>1 DEF TypeOK
  <1>4. \A p \in Objs : (Mapped(p)' <=> Mapped(p)) /\ (OnlyWriter(p)' <=> OnlyWriter(p))
    BY <1>1 DEF Mapped, Live, OnlyWriter
  <1>5. \A p \in Objs : Mapped(p) => file'[obj[p].file] = file[obj[p].file]
    BY <1>1, <1>3, MappedFacts
  <1>6. TypeOK'
    BY <1>1, <1>2 DEF TypeOK
  <1>7. MemInv' /\ (TieInv => TieInv')
    <2>1. \A p \in Objs : Live(p) => obj[p].buf \in Nat
      BY LiveRecord DEF ObjRec, Bufs
    <2>2. MemInv'
      BY <1>1, <2>1 DEF MemInv, Live
    <2>3. QED
      BY <1>1, <2>2 DEF TieInv, TiesFollowMemory, Mapped, Live
  <1>8. SourceInv'
    BY <1>1, <1>4, <1>5 DEF SourceInv
  <1>9. JobInv' /\ \A p \in Objs : Encode(p)' = Encode(p)
    <2>1. \A p \in Objs : Encode(p)' = Encode(p)
      BY <1>1, EncodeSame
    <2>2. QED
      BY <1>1, <1>4, <2>1 DEF JobInv
  <1>10. RoomInv'
    BY <1>1, <1>4, <1>5 DEF RoomInv
  <1>11. SavedInv'
    BY <1>1, <1>4, <1>5, <1>9 DEF SavedInv
  <1>12. copyBar' = copyBar /\ savingBar' = savingBar
    BY <1>1, <1>9 DEF copyBar, savingBar, Mapped, Live
  <1>13. Abstract!Grown(f, "r+", file'[f])
    BY <1>1, <1>2, <1>3 DEF Abstract!Grown, Abstract!Prefix
  <1>14. Abstract!OpenFails(f)
    BY <1>3, <1>12, <1>13 DEF Abstract!OpenFails
  <1>15. QED
    BY <1>6, <1>7, <1>8, <1>9, <1>10, <1>11, <1>14

-----------------------------------------------------------------------------
(* Opening a file.                                                          *)

LEMMA MaxOf2 ==
    ASSUME NEW a \in Int, NEW b \in Int
    PROVE  Max({a, b}) \in {a, b} /\ Max({a, b}) >= a /\ Max({a, b}) >= b
  <1> DEFINE S == {a, b}
  <1>1. S \in SUBSET Int
    OBVIOUS
  <1>2. CASE a <= b
    <2>1. b \in S /\ \A x \in S : x <= b
      BY <1>2
    <2>2. Max(S) = b
      BY <1>1, <2>1, MaxIs
    <2>3. QED
      BY <1>2, <2>2
  <1>3. CASE b <= a
    <2>1. a \in S /\ \A x \in S : x <= a
      BY <1>3
    <2>2. Max(S) = a
      BY <1>1, <2>1, MaxIs
    <2>3. QED
      BY <1>3, <2>2
  <1>4. QED
    BY <1>2, <1>3

LEMMA MaxOf3 ==
    ASSUME NEW a \in Int, NEW b \in Int, NEW c \in Int
    PROVE  /\ Max({a, b, c}) \in {a, b, c}
           /\ Max({a, b, c}) >= a /\ Max({a, b, c}) >= b /\ Max({a, b, c}) >= c
  <1> DEFINE S == {a, b, c}
  <1>1. S \in SUBSET Int
    OBVIOUS
  <1>2. PICK m \in S : \A x \in S : x <= m
    OBVIOUS
  <1>3. Max(S) = m
    BY <1>1, <1>2, MaxIs
  <1>4. QED
    BY <1>2, <1>3

\* The file as it is once opened: the old bytes (none for "w+"), then zeros; a mode
\* that cannot write leaves it alone.
LEMMA OpenedFacts ==
    ASSUME NEW c \in Seq(Bytes), NEW mode \in Modes, NEW nbytes \in Nat,
           NEW old, old = (IF mode = "w+" THEN <<>> ELSE c)
    PROVE  LET d == Opened(c, mode, nbytes)
           IN  /\ d \in Seq(Bytes)
               /\ mode \in Writable => Len(d) >= nbytes /\ Len(d) >= 1
               /\ mode \notin Writable => d = c
               /\ Abstract!Prefix(old, d)
               /\ \A i \in DOMAIN d \ DOMAIN old : d[i] = Zero
  <1> DEFINE len == Max({Len(old), nbytes, 1})
             d == Opened(c, mode, nbytes)
  <1>1. old \in Seq(Bytes) /\ Len(old) \in Nat /\ DOMAIN old = 1..Len(old)
    OBVIOUS
  <1>2. len \in Nat /\ len >= Len(old) /\ len >= nbytes /\ len >= 1
    <2>1. PICK a \in Int, b \in Int, e \in Int : a = Len(old) /\ b = nbytes /\ e = 1
      BY <1>1
    <2>2. PICK m : m = Max({a, b, e})
      OBVIOUS
    <2>3. m \in {a, b, e} /\ m >= a /\ m >= b /\ m >= e
      BY <2>2, MaxOf3
    <2>4. len = m
      BY <2>1, <2>2
    <2>5. QED
      BY <1>1, <2>1, <2>3, <2>4
  <1>3. CASE mode \in Writable
    <2>1. d = [i \in 1..len |-> IF i \in DOMAIN old THEN old[i] ELSE Zero]
      BY <1>3 DEF Opened
    <2> HIDE DEF d, len
    <2>2. d \in [1..len -> Bytes]
      BY <1>1, <2>1, MemmapAssumption
    <2>3. d \in Seq(Bytes) /\ Len(d) = len /\ DOMAIN d = 1..len
      BY <1>2, <2>2
    <2>4. Abstract!Prefix(old, d) /\ \A i \in DOMAIN d \ DOMAIN old : d[i] = Zero
      BY <1>1, <1>2, <2>1, <2>3 DEF Abstract!Prefix
    <2>5. QED
      BY <1>2, <1>3, <2>3, <2>4 DEF d
  <1>4. CASE mode \notin Writable
    <2>1. mode # "w+" /\ old = c /\ d = c
      BY <1>4 DEF Opened, Writable
    <2>2. Abstract!Prefix(old, d) /\ \A i \in DOMAIN d \ DOMAIN old : d[i] = Zero
      BY <1>1, <2>1 DEF Abstract!Prefix
    <2>3. QED
      BY <1>4, <2>1, <2>2
  <1>5. QED
    BY <1>3, <1>4

\* The mapping starts at or before the offset, inside the file.
LEMMA MapStartFacts ==
    ASSUME NEW offset \in Nat, NEW nbytes \in Nat
    PROVE  /\ MapStart(offset, nbytes) \in Nat
           /\ offset - MapStart(offset, nbytes) \in Nat
  <1> DEFINE g == Granule
             q == offset \div g
             m == offset % g
  <1>1. g \in Nat \ {0}
    BY MemmapAssumption
  <1>2. m \in 0..(g - 1) /\ q \in Nat /\ offset = g * q + m
    BY <1>1, QuotRem
  <1> HIDE DEF q, m, g
  <1>3. offset - m = g * q /\ g * q \in Nat
    BY <1>1, <1>2
  <1>4. g * q > 0 => g * q >= g
    BY <1>1, <1>2, Multiple
  <1>5. PICK s \in Nat : s = g * q
    BY <1>3
  <1>6. s > 0 => s - g \in Nat
    BY <1>1, <1>4, <1>5
  <1>7. offset - s = m
    BY <1>2, <1>3, <1>5
  <1>8. MapStart(offset, nbytes) = IF nbytes = s /\ s > 0 THEN s - g ELSE s
    BY <1>3, <1>5 DEF MapStart, m, g
  <1>9. QED
    BY <1>1, <1>2, <1>5, <1>6, <1>7, <1>8

FileCells(n, rows, order) ==
    IF order = "F" /\ rows > 0 THEN FOrder(Whole(n), n \div rows) ELSE Whole(n)

\* The cells of an array read from a file, taken in the order of the file, are the
\* bytes of the file one after the other.
LEMMA CellsInFileOrder ==
    ASSUME NEW rows \in Nat, NEW n \in Nat, NEW order, \E c \in Nat : n = rows * c
    PROVE  /\ FileCells(n, rows, order) \in [1..n -> 1..n]
           /\ InOrder(FileCells(n, rows, order), rows, order) = Whole(n)
  <1>c. PICK c \in Nat : n = rows * c
    OBVIOUS
  <1>0. PICK cells :
           /\ n = rows * c /\ cells = FileCells(n, rows, order)
           /\ cells = (IF order = "F" /\ rows > 0 THEN FOrder(Whole(n), n \div rows)
                       ELSE Whole(n))
    BY <1>c DEF FileCells
  <1>1. Whole(n) \in [1..n -> 1..n]
    BY DEF Whole
  <1>2. CASE order = "F" /\ rows > 0
    <2>1. n \div rows = c
      <3>1. (c * rows + 0) \div rows = c
        BY <1>2, QuotRemOf
      <3>2. c * rows + 0 = n
        BY <1>0
      <3>3. QED
        BY <3>1, <3>2
    <2>2. cells = FOrder(Whole(rows * c), c)
      BY <1>0, <1>2, <2>1
    <2>0. c * rows = n
      BY <1>0
    <2>3. PICK w : w = Whole(rows * c) /\ w \in [1..(c * rows) -> 1..n] /\ c * rows = n
      BY <1>0, <1>1, <2>0
    <2>4. cells \in [1..n -> 1..n]
      <3>1. FOrder(w, c) \in [1..(c * rows) -> 1..n]
        BY <2>3, FOrderType
      <3>2. QED
        BY <2>2, <2>3, <3>1
    <2>5. FOrder(FOrder(Whole(rows * c), c), rows) = Whole(rows * c)
      BY <1>2, FOrderTwice
    <2>6. InOrder(cells, rows, order) = Whole(n)
      BY <1>0, <1>2, <2>2, <2>5 DEF InOrder
    <2>7. QED
      BY <1>0, <2>4, <2>6
  <1>3. CASE order = "F" /\ rows = 0
    <2>1. n = 0 /\ cells = Whole(0)
      BY <1>0, <1>3
    <2>2. Whole(0) = <<>> /\ DOMAIN Whole(0) = {}
      BY DEF Whole
    <2>3. FOrder(Whole(0), rows) = [k \in {} |-> 0]
      BY <2>2 DEF FOrder
    <2>4. FOrder(Whole(0), rows) = Whole(0)
      BY <2>2, <2>3
    <2>5. InOrder(cells, rows, order) = Whole(n)
      BY <1>3, <2>1, <2>4 DEF InOrder
    <2>6. QED
      BY <1>0, <1>1, <2>1, <2>5
  <1>4. CASE order # "F"
    BY <1>0, <1>1, <1>4 DEF InOrder
  <1>5. QED
    BY <1>0, <1>2, <1>3, <1>4

LEMMA ShapeCases ==
    ASSUME NEW s \in Seq(Nat), Len(s) <= 2
    PROVE  \/ s = <<>>
           \/ Len(s) = 1 /\ s # <<>> /\ s[1] \in Nat
           \/ Len(s) = 2 /\ s # <<>> /\ s[1] \in Nat /\ s[2] \in Nat
  <1>1. PICK n \in Nat : n = Len(s)
    OBVIOUS
  <1>2. n = 0 \/ n = 1 \/ n = 2
    BY <1>1
  <1>3. QED
    BY <1>1, <1>2

\* What an open leaves: the mapping, the file and the decoded bytes.
OpenedTo(o, f, mode, offset, order, rows, c, n, start, at, bytes, cells, d, rec) ==
    /\ n = rows * c /\ start + at = offset /\ bytes # <<>>
    /\ offset + n <= Len(bytes)
    /\ mode \notin Writable => bytes = file[f]
    /\ Abstract!Grown(f, mode, bytes)
    /\ cells \in [1..n -> 1..n] /\ InOrder(cells, rows, order) = Whole(n)
    /\ d = [i \in 1..n |-> bytes[offset + i]]
    /\ rec = [buf |-> NewBuf, cells |-> cells, rows |-> rows, mode |-> mode, root |-> o,
              file |-> f, start |-> start, at |-> at, order |-> order]
    /\ ~Live(o) /\ Call
    /\ file' = [file EXCEPT ![f] = bytes]
    /\ data' = [data EXCEPT ![NewBuf] = d]
    /\ obj' = [obj EXCEPT ![o] = rec]
    /\ UNCHANGED <<job, dirty, filled>>

OpenedAs(o, f, mode, offset, order) ==
    \E rows \in Nat, c \in Nat, n \in Nat, start \in Nat, at \in Nat, bytes \in Seq(Bytes) :
       \E cells, d, rec :
          OpenedTo(o, f, mode, offset, order, rows, c, n, start, at, bytes, cells, d, rec)

LEMMA OpenFacts ==
    ASSUME Inv, NEW o \in Objs, NEW f \in Files, NEW mode \in Modes, NEW offset \in Offsets,
           NEW shape \in Shapes, NEW order \in {"C", "F"}, Open(o, f, mode, offset, shape, order)
    PROVE  OpenedAs(o, f, mode, offset, order)
  <1> DEFINE flen == IF mode = "w+" THEN 0 ELSE Len(file[f])
             count == CASE shape = <<>> -> flen - offset
                        [] Len(shape) = 1 -> shape[1]
                        [] Len(shape) = 2 -> shape[1] * shape[2]
             nbytes == IF mode \in Writable THEN Max({offset + count, 1}) ELSE offset + count
             rows == IF Len(shape) = 2 THEN shape[1] ELSE count
             start == MapStart(offset, nbytes)
             bytes == Opened(file[f], mode, nbytes)
             cells == IF order = "F" /\ rows > 0 THEN FOrder(Whole(count), count \div rows)
                      ELSE Whole(count)
             d == [i \in 1..count |-> bytes[offset + i]]
             rec == [buf |-> NewBuf, cells |-> cells, rows |-> rows, mode |-> mode, root |-> o,
                     file |-> f, start |-> start, at |-> offset - start, order |-> order]
  <1>0. /\ Fresh(o) /\ count >= 0
        /\ mode \in {"r", "c"} => flen > 0 /\ nbytes <= flen
        /\ file' = [file EXCEPT ![f] = bytes]
        /\ data' = [data EXCEPT ![NewBuf] = d]
        /\ obj' = [obj EXCEPT ![o] = rec]
        /\ Call /\ UNCHANGED <<job, dirty, filled>>
    BY DEF Open, Allocate
  <1> HIDE DEF rec
  <1>e. rec = [buf |-> NewBuf, cells |-> cells, rows |-> rows, mode |-> mode, root |-> o,
               file |-> f, start |-> start, at |-> offset - start, order |-> order]
    BY DEF rec
  <1> HIDE DEF cells, d
  <1>d. /\ cells = IF order = "F" /\ rows > 0 THEN FOrder(Whole(count), count \div rows)
                   ELSE Whole(count)
        /\ d = [i \in 1..count |-> bytes[offset + i]]
    BY DEF cells, d
  <1> HIDE DEF bytes, start
  <1>c. bytes = Opened(file[f], mode, nbytes) /\ start = MapStart(offset, nbytes)
    BY DEF bytes, start
  <1> HIDE DEF nbytes, rows
  <1>b. /\ nbytes = IF mode \in Writable THEN Max({offset + count, 1}) ELSE offset + count
        /\ rows = IF Len(shape) = 2 THEN shape[1] ELSE count
    BY DEF nbytes, rows
  <1> HIDE DEF count
  <1>a. count = CASE shape = <<>> -> flen - offset
                  [] Len(shape) = 1 -> shape[1]
                  [] Len(shape) = 2 -> shape[1] * shape[2]
    BY DEF count
  <1>2. offset \in Nat /\ file[f] \in Seq(Bytes) /\ flen \in Nat
    BY MemmapAssumption DEF Inv, TypeOK
  <1> HIDE DEF flen
  <1>3. count \in Nat /\ rows \in Nat /\ \E c \in Nat : count = rows * c
    <2>1. \/ shape = <<>>
          \/ Len(shape) = 1 /\ shape # <<>> /\ shape[1] \in Nat
          \/ Len(shape) = 2 /\ shape # <<>> /\ shape[1] \in Nat /\ shape[2] \in Nat
      BY MemmapAssumption, ShapeCases
    <2>2. CASE shape = <<>>
      <3>1. count = flen - offset /\ rows = count
        BY <1>a, <1>b, <2>2
      <3>2. count \in Nat
        BY <1>0, <1>2, <3>1
      <3>3. count = rows * 1
        BY <3>1, <3>2
      <3>4. QED
        BY <3>1, <3>2, <3>3
    <2>3. CASE Len(shape) = 1 /\ shape # <<>> /\ shape[1] \in Nat
      <3>1. count = shape[1] /\ rows = count
        BY <1>a, <1>b, <2>3
      <3>2. count = rows * 1
        BY <2>3, <3>1
      <3>3. QED
        BY <2>3, <3>1, <3>2
    <2>4. CASE Len(shape) = 2 /\ shape # <<>> /\ shape[1] \in Nat /\ shape[2] \in Nat
      <3>1. count = shape[1] * shape[2] /\ rows = shape[1]
        BY <1>a, <1>b, <2>4
      <3>2. QED
        BY <2>4, <3>1
    <2>5. QED
      BY <2>1, <2>2, <2>3, <2>4
  <1>4. PICK c \in Nat : count = rows * c
    BY <1>3
  <1>5. nbytes \in Nat /\ nbytes >= offset + count
    <2>1. PICK a \in Int, b \in Int : a = offset + count /\ b = 1
      BY <1>2, <1>3
    <2>2. PICK m : m = Max({a, b})
      OBVIOUS
    <2>3. m \in {a, b} /\ m >= a /\ m >= b
      BY <2>2, MaxOf2
    <2>4. nbytes = IF mode \in Writable THEN m ELSE a
      BY <1>b, <2>1, <2>2
    <2>5. QED
      BY <1>2, <1>3, <2>1, <2>3, <2>4
  <1>6. start \in Nat /\ offset - start \in Nat
    BY <1>c, <1>2, <1>5, MapStartFacts
  <1>7. PICK old : old = (IF mode = "w+" THEN <<>> ELSE file[f])
    OBVIOUS
  <1>8. /\ bytes \in Seq(Bytes)
        /\ mode \in Writable => Len(bytes) >= nbytes /\ Len(bytes) >= 1
        /\ mode \notin Writable => bytes = file[f]
        /\ Abstract!Prefix(old, bytes) /\ \A i \in DOMAIN bytes \ DOMAIN old : bytes[i] = Zero
    <2>1. PICK content \in Seq(Bytes) : content = file[f]
      BY <1>2
    <2>2. bytes = Opened(content, mode, nbytes)
      BY <1>c, <2>1
    <2>3. old = IF mode = "w+" THEN <<>> ELSE content
      BY <1>7, <2>1
    <2>4. QED
      BY <1>5, <2>1, <2>2, <2>3, OpenedFacts
  <1>9. Abstract!Grown(f, mode, bytes)
    <2>1. mode \in {"r", "c"} => bytes = file[f]
      BY <1>8 DEF Writable
    <2>2. QED
      BY <1>7, <1>8, <2>1 DEF Abstract!Grown
  <1>10. offset + count <= Len(bytes) /\ bytes # <<>>
    <2>1. CASE mode \in Writable
      BY <1>2, <1>3, <1>5, <1>8, <2>1
    <2>2. CASE mode \notin Writable
      <3>1. mode \in {"r", "c"} /\ flen = Len(file[f]) /\ bytes = file[f]
        BY <1>8, <2>2 DEF flen, Modes, Writable
      <3>2. flen > 0 /\ nbytes <= flen
        BY <1>0, <3>1
      <3>3. QED
        BY <1>2, <1>3, <1>5, <3>1, <3>2
    <2>3. QED
      BY <2>1, <2>2
  <1>11. cells \in [1..count -> 1..count] /\ InOrder(cells, rows, order) = Whole(count)
    <2>0. PICK r \in Nat, n \in Nat : r = rows /\ n = count
      BY <1>3
    <2>1. PICK w : r = rows /\ n = count /\ w = cells
      BY <2>0
    <2>2. w = FileCells(n, r, order)
      BY <1>d, <2>1 DEF FileCells
    <2>3. n = r * c
      BY <1>4, <2>1
    <2>4. w \in [1..n -> 1..n] /\ InOrder(w, r, order) = Whole(n)
      BY <2>2, <2>3, CellsInFileOrder
    <2>5. QED
      BY <2>1, <2>4
  <1>12. ~Live(o) /\ Call
    BY <1>0 DEF Fresh
  <1>13. start + (offset - start) = offset
    BY <1>2, <1>6
  <1>14. PICK at \in Nat : at = offset - start
    BY <1>6
  <1>15. /\ count = rows * c /\ start + at = offset /\ bytes # <<>>
         /\ offset + count <= Len(bytes)
         /\ mode \notin Writable => bytes = file[f]
         /\ Abstract!Grown(f, mode, bytes)
         /\ cells \in [1..count -> 1..count] /\ InOrder(cells, rows, order) = Whole(count)
         /\ d = [i \in 1..count |-> bytes[offset + i]]
         /\ rec = [buf |-> NewBuf, cells |-> cells, rows |-> rows, mode |-> mode, root |-> o,
                   file |-> f, start |-> start, at |-> at, order |-> order]
         /\ ~Live(o) /\ Call
         /\ file' = [file EXCEPT ![f] = bytes]
         /\ data' = [data EXCEPT ![NewBuf] = d]
         /\ obj' = [obj EXCEPT ![o] = rec]
         /\ UNCHANGED <<job, dirty, filled>>
    BY <1>0, <1>d, <1>e, <1>4, <1>8, <1>9, <1>10, <1>11, <1>12, <1>13, <1>14
  <1>16. QED
    BY <1>3, <1>4, <1>6, <1>8, <1>14, <1>15 DEF OpenedAs, OpenedTo

LEMMA OpenStep ==
    ASSUME Inv, NEW o \in Objs, NEW f \in Files, NEW mode \in Modes, NEW offset \in Offsets,
           NEW shape \in Shapes, NEW order \in {"C", "F"}, Open(o, f, mode, offset, shape, order)
    PROVE  Inv' /\ (TieInv => TieInv') /\ Abstract!Open(o, f, mode)
  <1>0. OpenedAs(o, f, mode, offset, order)
    BY OpenFacts
  <1>a. PICK rows \in Nat, c \in Nat, n \in Nat, start \in Nat, at \in Nat, bytes \in Seq(Bytes) :
           \E cells, d, rec :
              OpenedTo(o, f, mode, offset, order, rows, c, n, start, at, bytes, cells, d, rec)
    BY <1>0, Zenon DEF OpenedAs
  <1>b. PICK cells, d, rec :
           OpenedTo(o, f, mode, offset, order, rows, c, n, start, at, bytes, cells, d, rec)
    BY <1>a
  <1>1. /\ n = rows * c /\ start + at = offset /\ bytes # <<>>
        /\ offset + n <= Len(bytes)
        /\ mode \notin Writable => bytes = file[f]
        /\ Abstract!Grown(f, mode, bytes)
        /\ cells \in [1..n -> 1..n] /\ InOrder(cells, rows, order) = Whole(n)
        /\ d = [i \in 1..n |-> bytes[offset + i]]
        /\ rec = [buf |-> NewBuf, cells |-> cells, rows |-> rows, mode |-> mode, root |-> o,
                  file |-> f, start |-> start, at |-> at, order |-> order]
        /\ ~Live(o) /\ Call
        /\ file' = [file EXCEPT ![f] = bytes]
        /\ data' = [data EXCEPT ![NewBuf] = d]
        /\ obj' = [obj EXCEPT ![o] = rec]
        /\ UNCHANGED <<job, dirty, filled>>
    BY <1>b DEF OpenedTo
  <1>2. /\ offset \in Nat /\ Len(cells) = n /\ cells \in Seq(Nat)
        /\ mode # "none" /\ mode \in Modes \cup {"none"} /\ f # NoFile
    <2>1. cells \in [1..n -> 1..n]
      BY <1>1
    <2>2. Len(cells) = n /\ cells \in Seq(Nat)
      BY <2>1
    <2>3. offset \in Nat /\ f # NoFile
      BY MemmapAssumption
    <2>4. QED
      BY <2>2, <2>3 DEF Modes
  <1>3. d \in Seq(Bytes) /\ Len(d) = n /\ DOMAIN d = 1..n
    <2>1. \A i \in 1..n : bytes[offset + i] \in Bytes
      BY <1>1, <1>2
    <2>2. d \in [1..n -> Bytes]
      BY <1>1, <2>1
    <2>3. QED
      BY <2>2
  <1>4. rec \in ObjRec /\ rec # NoObj
    <2>1. NewBuf \in Bufs
      BY <1>1, NewBufFacts DEF Inv
    <2>2. rec \in ObjRec
      BY <1>1, <1>2, <2>1 DEF ObjRec
    <2>3. QED
      BY <2>2, RecordIsNot
  <1>5. /\ rec.buf = NewBuf /\ rec.cells = cells /\ rec.rows = rows /\ rec.mode = mode
        /\ rec.root = o /\ rec.file = f /\ rec.start = start /\ rec.at = at
        /\ rec.order = order
    BY <1>1
  <1> USE DEF Inv
  <1>n. calls \in Nat /\ NewBuf \in Bufs /\ NewBuf = calls + 1 /\ calls' = NewBuf
        /\ calls' \in 0..MaxCalls
    BY <1>1, NewBufFacts
  <1>6. /\ file'[f] = bytes /\ \A g \in Files \ {f} : file'[g] = file[g]
        /\ obj'[o] = rec /\ \A p \in Objs \ {o} : obj'[p] = obj[p]
        /\ data'[NewBuf] = d /\ \A b \in Bufs \ {NewBuf} : data'[b] = data[b]
        /\ job' = job /\ dirty' = dirty /\ filled' = filled
    BY <1>1, <1>n DEF TypeOK
  <1>7. /\ Live(o)' /\ Mapped(o)' /\ ~Mapped(o)
        /\ \A p \in Objs \ {o} : (Live(p)' <=> Live(p)) /\ (Mapped(p)' <=> Mapped(p))
    BY <1>1, <1>2, <1>4, <1>5, <1>6 DEF Live, Mapped
  <1>8. TypeOK'
    BY <1>1, <1>3, <1>4, <1>n DEF TypeOK
  <1>9. \A p \in Objs \ {o} : Live(p) =>
           /\ obj[p].buf # NewBuf /\ obj[p].buf \in Bufs /\ obj[p].buf <= calls'
           /\ data'[obj[p].buf] = data[obj[p].buf]
           /\ obj[p].root # o /\ obj[p].root \in Objs
    <2> TAKE p \in Objs \ {o}
    <2> HAVE Live(p)
    <2>1. obj[p] \in ObjRec
      BY LiveRecord
    <2>2. obj[p].buf \in Bufs /\ obj[p].buf \in Nat /\ obj[p].buf <= calls
          /\ Live(obj[p].root) /\ obj[p].root \in Objs
      BY <2>1 DEF MemInv, ObjRec, Bufs
    <2>3. obj[p].buf # NewBuf /\ obj[p].buf <= calls'
      BY <1>n, <2>2
    <2>4. QED
      BY <1>1, <1>6, <2>2, <2>3
  <1>e. \A p \in Objs \ {o} : Live(p) => Encode(p)' = Encode(p)
    BY <1>6, <1>9, EncodeSame
  <1>10. MemInv'
    <2> SUFFICES ASSUME NEW p \in Objs, Live(p)'
                 PROVE  (/\ obj[p].buf <= calls /\ Live(obj[p].root)
                         /\ obj[p].cells \in [1..Len(obj[p].cells) -> 1..Len(data[obj[p].buf])]
                         /\ \E k \in Nat : Len(obj[p].cells) = obj[p].rows * k)'
      BY DEF MemInv
    <2>1. CASE p = o
      <3>1. obj'[p] = rec /\ data'[NewBuf] = d /\ Live(o)'
        BY <1>6, <1>7, <2>1
      <3>2. cells \in [1..Len(cells) -> 1..Len(d)] /\ Len(cells) = rows * c
        BY <1>1, <1>2, <1>3
      <3>3. NewBuf <= calls'
        BY <1>n
      <3>4. QED
        BY <1>5, <3>1, <3>2, <3>3
    <2>2. CASE p # o
      <3>1. Live(p) /\ obj'[p] = obj[p] /\ data'[obj[p].buf] = data[obj[p].buf]
        BY <1>6, <1>7, <1>9, <2>2
      <3>2. Live(obj[p].root)'
        <4>1. obj[p].root \in Objs \ {o} /\ Live(obj[p].root)
          BY <1>9, <2>2, <3>1 DEF MemInv
        <4>2. obj'[obj[p].root] = obj[obj[p].root]
          BY <1>6, <4>1
        <4>3. QED
          BY <3>1, <4>1, <4>2 DEF Live
      <3>3. obj'[p].buf <= calls'
        BY <1>9, <2>2, <3>1
      <3>4. QED
        BY <3>1, <3>2, <3>3 DEF MemInv
    <2>3. QED
      BY <2>1, <2>2
  <1>11. SourceInv'
    <2> SUFFICES ASSUME NEW p \in Objs, Mapped(p)'
                 PROVE  (obj[p].root = p /\ obj[p].mode # "none" /\ file[obj[p].file] # <<>>)'
      BY DEF SourceInv
    <2>1. CASE p = o
      BY <1>1, <1>2, <1>5, <1>6, <2>1
    <2>2. CASE p # o
      <3>1. Mapped(p) /\ obj'[p] = obj[p]
        BY <1>6, <1>7, <2>2
      <3>2. file'[obj[p].file] # <<>>
        <4>1. obj[p].file \in Files /\ file[obj[p].file] # <<>>
          BY <3>1, MappedFacts
        <4>2. QED
          BY <1>1, <1>6, <4>1
      <3>3. QED
        BY <3>1, <3>2 DEF SourceInv
    <2>3. QED
      BY <2>1, <2>2
  <1>12. JobInv'
    <2> SUFFICES ASSUME NEW t \in Threads, job[t] # Idle, NEW r, r = job[t].root
                 PROVE  /\ r \in Objs /\ Mapped(r)' /\ obj'[r].mode \in Writable
                        /\ DOMAIN job[t].raw = DOMAIN obj'[r].cells
                        /\ job[t].clean => job[t].raw = Encode(r)'
      BY <1>6 DEF JobInv
    <2>1. r \in Objs \ {o} /\ Mapped(r) /\ Live(r)
      BY <1>7 DEF JobInv, Mapped
    <2>2. obj'[r] = obj[r] /\ Encode(r)' = Encode(r) /\ Mapped(r)'
      BY <1>6, <1>7, <1>e, <2>1
    <2>3. QED
      BY <2>1, <2>2 DEF JobInv
  <1>13. ASSUME NEW p \in Objs \ {o}, Mapped(p), obj[p].mode \in Writable, OnlyWriter(p)'
         PROVE  OnlyWriter(p) /\ file'[obj[p].file] = file[obj[p].file]
    <2>1. OnlyWriter(p)
      BY <1>6, <1>7, <1>13 DEF OnlyWriter
    <2>2. obj[p].file = f => mode \notin Writable
      BY <1>5, <1>6, <1>7, <1>13 DEF OnlyWriter
    <2>3. obj[p].file \in Files
      BY <1>13, MappedFacts
    <2>4. QED
      BY <1>1, <1>6, <2>1, <2>2, <2>3
  <1>14. RoomInv'
    <2> SUFFICES ASSUME NEW p \in Objs, Mapped(p)', (obj[p].mode \in Writable)', OnlyWriter(p)'
                 PROVE  (obj[p].start + obj[p].at + Len(obj[p].cells) <= Len(file[obj[p].file]))'
      BY DEF RoomInv
    <2>1. CASE p = o
      BY <1>1, <1>2, <1>5, <1>6, <2>1
    <2>2. CASE p # o
      BY <1>6, <1>7, <1>13, <2>2 DEF RoomInv
    <2>3. QED
      BY <2>1, <2>2
  <1>d. Encode(o)' = d
    <2>0. /\ obj'[o].cells = cells /\ obj'[o].rows = rows /\ obj'[o].order = order
          /\ data'[obj'[o].buf] = d /\ InOrder(cells, rows, order) = Whole(n)
      BY <1>1, <1>5, <1>6
    <2>1. Encode(o)' = [k \in DOMAIN Whole(n) |-> d[Whole(n)[k]]]
      BY <2>0 DEF Encode
    <2>2. DOMAIN Whole(n) = 1..n /\ \A k \in 1..n : Whole(n)[k] = k
      BY DEF Whole
    <2>3. Encode(o)' = [k \in 1..n |-> d[k]]
      BY <2>1, <2>2
    <2>4. QED
      BY <1>1, <1>3, <2>3
  <1>15. SavedInv'
    <2> SUFFICES ASSUME NEW p \in Objs, p \notin dirty', Mapped(p)',
                        (obj[p].mode \in Writable)', OnlyWriter(p)',
                        NEW k \in DOMAIN obj'[p].cells
                 PROVE  (file[obj[p].file][obj[p].start + obj[p].at + k] = Encode(p)[k])'
      BY DEF SavedInv
    <2>1. CASE p = o
      <3>0. obj'[p] = rec /\ file'[f] = bytes /\ obj'[p].cells = cells
        BY <1>5, <1>6, <2>1
      <3>1. k \in 1..n
        BY <1>1, <3>0
      <3>2. d[k] = bytes[offset + k] /\ start + at = offset
        BY <1>1, <3>1
      <3>3. QED
        BY <1>5, <1>d, <2>1, <3>0, <3>2
    <2>2. CASE p # o
      <3>1. Mapped(p) /\ obj'[p] = obj[p] /\ Encode(p)' = Encode(p)
        BY <1>6, <1>7, <1>e, <2>2 DEF Mapped
      <3>2. OnlyWriter(p) /\ file'[obj[p].file] = file[obj[p].file] /\ obj[p].mode \in Writable
        BY <1>13, <2>2, <3>1
      <3>3. p \in Objs \ dirty /\ k \in DOMAIN obj[p].cells
        BY <1>6, <3>1
      <3>4. QED
        BY <3>1, <3>2, <3>3 DEF SavedInv
    <2>3. QED
      BY <2>1, <2>2
  <1>16. TieInv => TieInv'
    <2> SUFFICES ASSUME TieInv, NEW p \in Objs, Live(p)'
                 PROVE  (/\ \A r \in Objs : Mapped(r) /\ obj[r].buf = obj[p].buf =>
                               obj[p].root = r /\ obj[p].mode = obj[r].mode
                         /\ obj[p].mode # "none" =>
                               LET r == obj[p].root
                               IN  /\ Mapped(r) /\ obj[r].mode = obj[p].mode
                                   /\ \/ obj[p].buf = obj[r].buf
                                      \/ {obj[p].buf, obj[r].buf} \cap filled # {})'
      BY DEF TieInv, TiesFollowMemory
    <2>1. CASE p = o
      <3>1. obj'[o] = rec /\ rec.buf = NewBuf /\ rec.root = o /\ Mapped(o)'
        BY <1>5, <1>6, <1>7
      <3>2. \A r \in Objs : Mapped(r)' /\ obj'[r].buf = NewBuf => r = o
        BY <1>6, <1>7, <1>9 DEF Mapped
      <3>3. QED
        BY <2>1, <3>1, <3>2
    <2>2. CASE p # o
      <3>1. /\ obj'[p] = obj[p] /\ Live(p) /\ obj[p].buf # NewBuf
            /\ obj[p].root \in Objs \ {o}
        BY <1>6, <1>7, <1>9, <2>2
      <3>2. \A r \in Objs : Mapped(r)' /\ obj'[r].buf = obj[p].buf
                              => Mapped(r) /\ obj'[r] = obj[r]
        BY <1>5, <1>6, <1>7, <3>1
      <3>3. \A r \in Objs : Mapped(r)' /\ obj'[r].buf = obj[p].buf =>
               obj[p].root = r /\ obj[p].mode = obj'[r].mode
        BY <3>1, <3>2 DEF TieInv, TiesFollowMemory
      <3>4. PICK r \in Objs \ {o} : r = obj[p].root /\ obj'[r] = obj[r]
        BY <1>6, <3>1
      <3>5. obj[p].mode # "none" =>
               /\ Mapped(r)' /\ obj'[r].mode = obj[p].mode
               /\ obj[p].buf = obj'[r].buf \/ {obj[p].buf, obj'[r].buf} \cap filled' # {}
        BY <1>6, <1>7, <3>1, <3>4 DEF TieInv, TiesFollowMemory
      <3>6. QED
        BY <3>1, <3>3, <3>4, <3>5
    <2>3. QED
      BY <2>1, <2>2
  <1>17. Inv'
    BY <1>8, <1>10, <1>11, <1>12, <1>14, <1>15
  <1>18. /\ copyBar'[o] = [file |-> f, at |-> offset, mode |-> mode, val |-> d]
         /\ copyBar'[o] # NoObj
    <2>1. copyBar'[o] = [file |-> f, at |-> offset, mode |-> mode, val |-> d]
      BY <1>1, <1>5, <1>6, <1>7, <1>d DEF copyBar
    <2>2. copyBar'[o] \in CopyRec
      BY <1>2, <1>3, <2>1 DEF CopyRec
    <2>3. QED
      BY <2>1, <2>2, MemmapAssumption
  <1>19. \A p \in Objs \ {o} : copyBar'[p] = copyBar[p]
    BY <1>6, <1>7, <1>e DEF copyBar, Mapped
  <1>20. copyBar[o] = NoObj
    BY <1>7 DEF copyBar
  <1>21. savingBar' = savingBar
    <2>1. \A t \in Threads : job[t] # Idle => job[t].root \in Objs \ {o}
      BY <1>7 DEF JobInv
    <2>2. QED
      BY <1>6, <2>1 DEF savingBar
  <1>22. Abstract!Open(o, f, mode)
    <2>1. copyBar' = [copyBar EXCEPT ![o] = copyBar'[o]]
      BY <1>19 DEF copyBar
    <2>2. d = [i \in 1..Len(d) |-> bytes[offset + i]]
      BY <1>1, <1>3
    <2>3. offset + Len(d) <= Len(bytes)
      BY <1>1, <1>3
    <2>4. Abstract!Grown(f, mode, file'[f])
      BY <1>1, <1>6
    <2>5. LET cp == copyBar'[o]
          IN  /\ copyBar' = [copyBar EXCEPT ![o] = cp]
              /\ cp.file = f /\ cp.mode = mode /\ cp.at \in Nat
              /\ cp.at + Len(cp.val) <= Len(file'[f])
              /\ cp.val = [i \in 1..Len(cp.val) |-> file'[f][cp.at + i]]
      BY <1>2, <1>6, <1>18, <2>1, <2>2, <2>3
    <2>6. QED
      BY <1>6, <1>18, <1>20, <1>21, <2>4, <2>5, Zenon DEF Abstract!Open
  <1>23. QED
    BY <1>16, <1>17, <1>22

-----------------------------------------------------------------------------
(* The behaviours. *)

LEMMA InitHolds ==
    ASSUME Init
    PROVE  Inv /\ TieInv /\ Abstract!Init
  <1>1. /\ \A o \in Objs : obj[o] = NoObj
        /\ \A t \in Threads : job[t] = Idle
        /\ dirty = {} /\ filled = {} /\ calls = 0
    BY DEF Init
  <1>2. \A o \in Objs : ~Live(o) /\ ~Mapped(o)
    BY <1>1 DEF Live, Mapped
  <1>3. Idle \in [root : Objs \cup {NoObj}, raw : Seq(Bytes), clean : BOOLEAN]
    BY DEF Idle
  <1>4. TypeOK
    <2>1. file \in [Files -> Seq(Bytes)] /\ data \in [Bufs -> Seq(Bytes)]
      BY MemmapAssumption DEF Init
    <2>2. obj \in [Objs -> {NoObj} \cup ObjRec]
      BY DEF Init
    <2>3. job \in [Threads -> [root : Objs \cup {NoObj}, raw : Seq(Bytes), clean : BOOLEAN]]
      BY <1>3 DEF Init
    <2>4. QED
      BY <1>1, <2>1, <2>2, <2>3, MemmapAssumption DEF TypeOK
  <1>5. MemInv /\ SourceInv /\ RoomInv /\ SavedInv /\ TieInv
    BY <1>2 DEF MemInv, SourceInv, RoomInv, SavedInv, TieInv, TiesFollowMemory
  <1>6. JobInv
    BY <1>1 DEF JobInv
  <1>7. copyBar = [r \in Objs |-> NoObj]
    BY <1>2 DEF copyBar
  <1>8. savingBar = [t \in Threads |-> NoObj]
    BY <1>1 DEF savingBar
  <1>9. file \in [Files -> Seq(Bytes)]
    BY <1>4 DEF TypeOK
  <1>10. QED
    BY <1>4, <1>5, <1>6, <1>7, <1>8, <1>9 DEF Inv, Abstract!Init

\* The calls that change an object: a write is an edit of the copy whose array it reaches,
\* or of an array no file backs.
LEMMA ChangeStep ==
    ASSUME Inv, NEW o \in Objs, Change(o)
    PROVE  /\ Inv' /\ (TieInv => TieInv')
           /\ TieInv => Abstract!Next \/ UNCHANGED <<file, copyBar, savingBar>>
  <1>1. Live(o)
    BY DEF Change
  <1>2. ASSUME NEW where, NEW v \in Bytes, SetItem(o, where, v)
        PROVE  /\ Inv' /\ (TieInv => TieInv')
               /\ TieInv => Abstract!Next \/ UNCHANGED <<file, copyBar, savingBar>>
    <2>1. Inv' /\ (TieInv => TieInv')
      BY <1>1, <1>2, SetItemKeeps
    <2>2. TieInv => (\E r \in Objs : Abstract!Edit(r)) \/ UNCHANGED <<file, copyBar, savingBar>>
      BY <1>1, <1>2, SetItemEdits
    <2>3. QED
      BY <2>1, <2>2, Zenon DEF Abstract!Next
  <1>3. CASE \/ \E i \in DOMAIN obj[o].cells, v \in Bytes : SetItem(o, {i}, v)
             \/ \E v \in Bytes : SetItem(o, DOMAIN obj[o].cells, v)
    BY <1>2, <1>3, Zenon
  <1>4. CASE \E v \in Bytes : Fill(o, v)
    <2>1. PICK v \in Bytes : Fill(o, v)
      BY <1>4
    <2>2. Inv' /\ (TieInv => TieInv')
      BY <1>1, <2>1, FillKeeps
    <2>3. Abstract!Edit(o) \/ UNCHANGED <<file, copyBar, savingBar>>
      BY <1>1, <2>1, FillEdits
    <2>4. QED
      BY <2>2, <2>3, Zenon DEF Abstract!Next
  <1>5. CASE \E t \in Threads : BeginFlush(t, o)
    <2>1. PICK t \in Threads : BeginFlush(t, o)
      BY <1>5
    <2>2. Inv' /\ (TieInv => TieInv') /\ \E r \in Objs : Abstract!BeginSave(t, r)
      BY <1>1, <2>1, BeginFlushStep
    <2>3. QED
      BY <2>2, Zenon DEF Abstract!Next
  <1>6. QED
    BY <1>3, <1>4, <1>5, Zenon DEF Change

\* Every step keeps the invariant, the one about ties if no call ties a copy, and then
\* it is a step of the write-back copy or leaves it alone.
LEMMA NextStep ==
    ASSUME Inv, [Next]_vars
    PROVE  /\ Inv'
           /\ TieInv /\ ~Mistied => /\ TieInv'
                                    /\ Abstract!Next \/ UNCHANGED <<file, copyBar, savingBar>>
  <1>1. CASE \E o \in Objs, f \in Files, mode \in Modes, offset \in Offsets, shape \in Shapes,
               order \in {"C", "F"} : Open(o, f, mode, offset, shape, order)
    <2>1. PICK o \in Objs, f \in Files, mode \in Modes, offset \in Offsets, shape \in Shapes,
               order \in {"C", "F"} : Open(o, f, mode, offset, shape, order)
      BY <1>1, Zenon
    <2>2. Inv' /\ (TieInv => TieInv') /\ Abstract!Open(o, f, mode)
      BY <2>1, OpenStep
    <2>3. Abstract!Next
      BY <2>2, Zenon DEF Abstract!Next, Modes
    <2>4. QED
      BY <2>2, <2>3
  <1>2. CASE \E f \in Files, offset \in Offsets : OpenFails(f, offset)
    <2>1. PICK f \in Files, offset \in Offsets : OpenFails(f, offset)
      BY <1>2
    <2>2. Inv' /\ (TieInv => TieInv') /\ Abstract!OpenFails(f)
      BY <2>1, OpenFailsStep
    <2>3. QED
      BY <2>2, Zenon DEF Abstract!Next
  <1>3. CASE \E o, src \in Objs : Derive(o, src)
    BY <1>3, DeriveStep DEF Kept
  <1>4. CASE \E o \in Objs : Change(o)
    BY <1>4, ChangeStep
  <1>5. CASE \E t \in Threads : EndFlush(t)
    <2>1. PICK t \in Threads : EndFlush(t)
      BY <1>5
    <2>2. Inv' /\ (TieInv => TieInv') /\ Abstract!EndSave(t)
      BY <2>1, EndFlushStep
    <2>3. QED
      BY <2>2, Zenon DEF Abstract!Next
  <1>6. CASE Exit
    <2>1. Inv' /\ TieInv' /\ Abstract!End
      BY <1>6, ExitStep
    <2>2. QED
      BY <2>1, Zenon DEF Abstract!Next
  <1>7. CASE UNCHANGED vars
    <2>1. \A p \in Objs : Encode(p)' = Encode(p)
      BY <1>7, EncodeSame DEF vars
    <2>2. TypeOK' /\ MemInv' /\ SourceInv' /\ RoomInv' /\ (TieInv => TieInv')
      BY <1>7 DEF vars, Inv, TypeOK, MemInv, SourceInv, RoomInv, TieInv, TiesFollowMemory,
                  Live, Mapped, OnlyWriter
    <2>3. JobInv' /\ SavedInv'
      BY <1>7, <2>1 DEF vars, Inv, JobInv, SavedInv, Live, Mapped, OnlyWriter
    <2>4. UNCHANGED <<file, copyBar, savingBar>>
      BY <1>7, <2>1 DEF vars, copyBar, savingBar, Mapped, Live
    <2>5. QED
      BY <2>2, <2>3, <2>4 DEF Inv
  <1>8. QED
    BY <1>1, <1>2, <1>3, <1>4, <1>5, <1>6, <1>7, Zenon DEF Next

LEMMA InvAlways == Spec => []Inv
  <1>1. Init => Inv
    BY InitHolds
  <1>2. Inv /\ [Next]_vars => Inv'
    BY NextStep
  <1>3. QED
    BY <1>1, <1>2, PTL DEF Spec

\* What every variable holds, in every state: the objects' records, the private arrays,
\* the bytes of the files and the flushes under way.
THEOREM MemmapTypeCorrect == Spec => []TypeOK
  <1>1. Inv => TypeOK
    BY DEF Inv
  <1>2. QED
    BY <1>1, InvAlways, PTL

\* Whatever threads write, fill and flush at the same time, and also when results are tied
\* to the file that should not be: once the last bytes stored were encoded after the last
\* write to the array of the object that opened the file, the file of an only writer holds
\* each of its elements at its place (`memmap.flush`).
THEOREM FlushedIsSaved == Spec => []CleanIsSaved
  <1>1. Inv => CleanIsSaved
    <2> SUFFICES ASSUME Inv, NEW r \in Objs, r \notin dirty, Mapped(r),
                        obj[r].mode \in Writable, OnlyWriter(r), NEW i \in DOMAIN obj[r].cells
                 PROVE  file[obj[r].file][obj[r].start + obj[r].at + Place(r, i)]
                          = data[obj[r].buf][obj[r].cells[i]]
      BY DEF CleanIsSaved
    <2>1. /\ Place(r, i) \in DOMAIN obj[r].cells
          /\ Encode(r)[Place(r, i)] = data[obj[r].buf][obj[r].cells[i]]
      BY EncodeFacts DEF Mapped
    <2>2. file[obj[r].file][obj[r].start + obj[r].at + Place(r, i)] = Encode(r)[Place(r, i)]
      BY <2>1 DEF Inv, SavedInv
    <2>3. QED
      BY <2>1, <2>2
  <1>2. QED
    BY <1>1, InvAlways, PTL

LEMMA TieAlways ==
    ASSUME ~Mistied
    PROVE  Spec => [](Inv /\ TieInv)
  <1>1. Init => Inv /\ TieInv
    BY InitHolds
  <1>2. Inv /\ TieInv /\ [Next]_vars => (Inv /\ TieInv)'
    BY NextStep
  <1>3. QED
    BY <1>1, <1>2, PTL DEF Spec

\* As long as no call ties a copy or unties a view: an object whose elements lie in a
\* mapped array carries its mode and leads to it, and one that carries a file mode leads to
\* a mapped array of that mode and shows it, unless one of the two was filled (`_as_view`,
\* `_as_copy`, `fill`).
THEOREM TiesFollow ==
    ASSUME ~Mistied
    PROVE  Spec => []TiesFollowMemory
  <1>1. Inv /\ TieInv => TiesFollowMemory
    BY DEF TieInv
  <1>2. QED
    BY <1>1, TieAlways, PTL

\* Under the same condition the private array with its two-step flush is a write-back copy
\* of its file: element writes through any object that shows its cells, and fills of the
\* object that opened it, edit the copy; the file changes there only when a writable copy
\* is saved, to what the copy held when it was encoded; an array opened for reading never
\* changes.
THEOREM MemmapImplementsWriteBack ==
    ASSUME ~Mistied
    PROVE  Spec => ImplementsWriteBack
  <1>1. Init => Abstract!Init
    BY InitHolds
  <1>2. Inv /\ TieInv /\ [Next]_vars => [Abstract!Next]_(Abstract!vars)
    <2>1. ASSUME UNCHANGED <<file, copyBar, savingBar>>
          PROVE  UNCHANGED Abstract!vars
      BY <2>1 DEF Abstract!vars
    <2>2. QED
      BY <2>1, NextStep
  <1>3. QED
    BY <1>1, <1>2, TieAlways, PTL DEF Spec, ImplementsWriteBack, Abstract!Spec
=============================================================================
