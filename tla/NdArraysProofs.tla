--------------------------- MODULE NdArraysProofs ---------------------------
(***************************************************************************)
(* Proofs about NdArrays and Searches, for any start shapes, any number of  *)
(* calls and any bounds: the operations on elements, reductions, sorts,     *)
(* searches and set operations keep the invariant Laid of LayoutProofs, and *)
(* so does every call: the flags and memory_extent are right of every array *)
(* that the calls leave.                                                    *)
(***************************************************************************)
EXTENDS Searches, LayoutProofs

----------------------------------------------------------------------------
(* Elements picked and written.                                               *)

\* A write keeps the window of the array.
LEMMA WrittenLaid ==
  ASSUME NEW a, Laid(a), NEW cells, NEW vals
  PROVE  Laid(Written(a, cells, vals)) /\ Written(a, cells, vals).shape = a.shape
  <1>1. PICK b : b = Assign(a.buf, [i \in DOMAIN cells |-> cells[i] + 1], vals)  OBVIOUS
  <1>2. a = [buf |-> a.buf, shape |-> a.shape, strides |-> a.strides, offset |-> a.offset, fresh |-> a.fresh]
    BY DEF Laid
  <1>3. [a EXCEPT !.buf = b] =
          [buf |-> b, shape |-> a.shape, strides |-> a.strides, offset |-> a.offset, fresh |-> a.fresh]
    BY <1>2
  <1>4. Laid([a EXCEPT !.buf = b]) /\ [a EXCEPT !.buf = b].shape = a.shape  BY <1>3 DEF Laid
  <1>5. Written(a, cells, vals) = [a EXCEPT !.buf = b]  BY <1>1 DEF Written
  <1> QED  BY <1>4, <1>5

\* diagonal, also when it raises.
LEMMA DiagonalLaid ==
  ASSUME NEW a, Laid(a), NEW offset \in Int, NEW axis1 \in Int, NEW axis2 \in Int
  PROVE  Sound(diagonal(a, offset, axis1, axis2))
  <1>1. PICK n \in Nat : n = Len(a.shape)  BY LaidIs
  <1>2. PICK d, e : d = normalize_axis(axis1, n) /\ e = normalize_axis(axis2, n)  OBVIOUS
  <1>3. (d = Raised \/ d \in 1..n) /\ (e = Raised \/ e \in 1..n)  BY <1>2, NormAxisIs
  <1>4. PICK len : len = Max({0, IF offset >= 0 THEN Min({a.shape[e] - offset, a.shape[d]})
                                 ELSE Min({a.shape[d] + offset, a.shape[e]})})
    OBVIOUS
  <1>5. PICK batch : batch = Ascending((1..n) \ {d, e})  OBVIOUS
  <1>6. PICK shape : shape = Append(Permuted(a.shape, batch), len)  OBVIOUS
  <1>7. PICK bad : bad = (n < 2 \/ d = Raised \/ e = Raised \/ d = e)  OBVIOUS
  <1>8. \/ diagonal(a, offset, axis1, axis2) = Raised
        \/ ~bad /\ \E buf : diagonal(a, offset, axis1, axis2) = from_buffer(buf, shape, "C")
    BY <1>1, <1>2, <1>4, <1>5, <1>6, <1>7 DEF diagonal, Arranged
  <1>9. CASE diagonal(a, offset, axis1, axis2) = Raised  BY <1>9 DEF Sound
  <1>10. CASE ~bad /\ \E buf : diagonal(a, offset, axis1, axis2) = from_buffer(buf, shape, "C")
    <2>1. d \in 1..n /\ e \in 1..n  BY <1>3, <1>7, <1>10
    <2>2. a.shape[d] \in Nat /\ a.shape[e] \in Nat  BY <1>1, <2>1, LaidIs
    <2>20. PICK y, w \in Int : y = a.shape[d] /\ w = a.shape[e]  BY <2>2
    <2>21. PICK x, v \in Int : x = w - offset /\ v = y + offset  OBVIOUS
    <2>3. x = a.shape[e] - offset /\ y = a.shape[d] /\ v = a.shape[d] + offset /\ w = a.shape[e]
      BY <2>20, <2>21
    <2>4. Min({x, y}) = IF x <= y THEN x ELSE y  BY MinMaxTwo
    <2>5. Min({v, w}) = IF v <= w THEN v ELSE w  BY MinMaxTwo
    <2>6. PICK u \in Int : u = IF offset >= 0 THEN Min({x, y}) ELSE Min({v, w})  BY <2>4, <2>5
    <2>7. Max({0, u}) \in Nat  BY MaxZero
    <2>8. len = Max({0, u})  BY <1>4, <2>3, <2>6
    <2>9. PICK N, s : N = Nat /\ s = a.shape  OBVIOUS
    <2>10. s \in Seq(N) /\ Len(s) = n  BY <1>1, <2>9, LaidIs
    <2>11. PICK gone : gone = {d, e}  OBVIOUS
    <2>12. batch = Ascending((1..n) \ gone)  BY <1>5, <2>11
    <2>13. PICK m \in Nat : Leaves(batch, m, n, gone)  BY <2>12, WithoutNames
    <2>14. Lists(batch, m, n)  BY <2>13, NamesLists DEF Leaves
    <2>15. Permuted(s, batch) \in Seq(N)  BY <2>10, <2>14, PermutedIs
    <2>16. PICK t : t = Permuted(s, batch)  OBVIOUS
    <2>17. t \in Seq(N) /\ len \in N  BY <2>7, <2>8, <2>9, <2>15, <2>16
    <2>18. Append(t, len) \in Seq(N)  BY <2>17
    <2>19. shape \in Seq(Nat)  BY <1>6, <2>9, <2>16, <2>18
    <2> QED  BY <1>10, <2>19, FromBufferLaid DEF Sound
  <1> QED  BY <1>8, <1>9, <1>10

\* diag, of vectors and of matrices.
LEMMA DiagLaid ==
  ASSUME NEW v, Laid(v), NEW k \in Int
  PROVE  Sound(diag(v, k))
  <1>1. PICK m \in Nat : m = Len(v.shape)  BY LaidIs
  <1>2. CASE m = 1
    <2> DEFINE n == v.shape[1]
               side == n + Abs(k)
               at(row, col) == IF k >= 0 THEN row ELSE col
               buf == [f \in 1..side * side |->
                         LET p == Position(<<side, side>>, f - 1)
                         IN  IF p[2] - p[1] = k /\ at(p[1], p[2]) < n
                             THEN Elems(v)[at(p[1], p[2]) + 1] ELSE 0]
    <2>1. n \in Nat
      <3>1. 1 \in 1..Len(v.shape) /\ v.shape \in Seq(Nat)  BY <1>1, <1>2, LaidIs
      <3> QED  BY <3>1
    <2>2. PICK c \in Nat : c = side  BY <2>1 DEF Abs
    <2>3. PICK shape : shape = <<c, c>>  OBVIOUS
    <2>4. shape \in Seq(Nat)  BY <2>3
    <2>5. Len(v.shape) = 1 /\ Len(v.shape) # 2  BY <1>1, <1>2
    <2>6. diag(v, k) = from_buffer(buf, <<side, side>>, "C")  BY <2>5, Zenon DEF diag
    <2> HIDE DEF side, buf
    <2>7. diag(v, k) = from_buffer(buf, shape, "C")  BY <2>2, <2>3, <2>6
    <2> QED  BY <2>4, <2>7, FromBufferLaid DEF Sound
  <1>3. CASE m = 2
    <2>1. diag(v, k) = diagonal(v, k, 0, 1)  BY <1>1, <1>3 DEF diag
    <2>2. PICK x, y \in Int : x = 0 /\ y = 1  OBVIOUS
    <2>3. Sound(diagonal(v, k, x, y))  BY DiagonalLaid
    <2> QED  BY <2>1, <2>2, <2>3
  <1>4. CASE m # 1 /\ m # 2
    <2>1. diag(v, k) = Raised  BY <1>1, <1>4 DEF diag
    <2> QED  BY <2>1 DEF Sound
  <1> QED  BY <1>2, <1>3, <1>4

\* resize.
LEMMA ResizeLaid ==
  ASSUME NEW a, NEW shape \in Seq(Nat)
  PROVE  Laid(resize(a, shape))
  BY FromBufferLaid DEF resize

\* A row and a square broadcast to the square.
LEMMA SquareIs ==
  ASSUME NEW n \in Nat
  PROVE  broadcast_shapes(<<<<1, n>>, <<n, n>>>>) = <<n, n>>
  <1> DEFINE z == <<<<1, n>>, <<n, n>>>>
             c == Max({Len(z[i]) : i \in DOMAIN z} \cup {0})
             long(d) == {Aligned(z[i], c, d) : i \in DOMAIN z} \ {1}
  <1>1. /\ DOMAIN z = {1, 2} /\ Len(z[1]) = 2 /\ Len(z[2]) = 2
        /\ z[1][1] = 1 /\ z[1][2] = n /\ z[2][1] = n /\ z[2][2] = n
    <2>1. PICK s, t : s = <<1, n>> /\ t = <<n, n>>  OBVIOUS
    <2>2. Len(s) = 2 /\ Len(t) = 2 /\ s[1] = 1 /\ s[2] = n /\ t[1] = n /\ t[2] = n  BY <2>1
    <2>3. DOMAIN <<s, t>> = {1, 2} /\ <<s, t>>[1] = s /\ <<s, t>>[2] = t  OBVIOUS
    <2> QED  BY <2>1, <2>2, <2>3
  <1>2. broadcast_shapes(z) = IF \E d \in 1..c : \E x, y \in long(d) : x # y THEN Raised
                              ELSE [d \in 1..c |-> IF long(d) = {} THEN 1 ELSE CHOOSE x \in long(d) : TRUE]
    BY DEF broadcast_shapes
  <1> HIDE DEF z
  <1>3. c = 2
    <2>1. {Len(z[i]) : i \in DOMAIN z} \cup {0} = {2, 0}  BY <1>1
    <2>2. PICK x, y \in Int : x = 2 /\ y = 0  OBVIOUS
    <2>3. Max({x, y}) = IF x >= y THEN x ELSE y  BY MinMaxTwo
    <2>4. {Len(z[i]) : i \in DOMAIN z} \cup {0} = {x, y}  BY <2>1, <2>2
    <2>5. Max({x, y}) = 2  BY <2>2, <2>3
    <2> QED  BY <2>4, <2>5, Zenon
  <1> HIDE DEF c
  <1>4. \A d \in 1..2 : long(d) = {n} \ {1}
    <2>1. ASSUME NEW i \in {1, 2}, NEW d \in 1..2  PROVE Aligned(z[i], c, d) = z[i][d]
      <3>1. PICK y : y = z[i]  OBVIOUS
      <3>2. Len(y) = 2  BY <1>1, <3>1
      <3>3. Aligned(y, c, d) = IF d <= c - Len(y) THEN 1 ELSE y[d - (c - Len(y))]  BY DEF Aligned
      <3>4. ~(d <= 2 - 2) /\ d - (2 - 2) = d  OBVIOUS
      <3> QED  BY <1>3, <3>1, <3>2, <3>3, <3>4
    <2>2. \A d \in 1..2 : long(d) = {z[1][d], z[2][d]} \ {1}  BY <1>1, <2>1
    <2> QED  BY <1>1, <2>2
  <1> HIDE DEF long
  <1>5. ~\E d \in 1..c : \E x, y \in long(d) : x # y  BY <1>3, <1>4
  <1>6. PICK r : r = [d \in 1..c |-> IF long(d) = {} THEN 1 ELSE CHOOSE x \in long(d) : TRUE]  OBVIOUS
  <1>7. \A d \in 1..2 : r[d] = n
    <2> TAKE d \in 1..2
    <2>1. r[d] = IF long(d) = {} THEN 1 ELSE CHOOSE x \in long(d) : TRUE  BY <1>3, <1>6
    <2>2. long(d) = {n} \ {1}  BY <1>4
    <2>3. CASE n = 1  BY <2>1, <2>2, <2>3
    <2>4. CASE n # 1
      <3>1. long(d) = {n}  BY <2>2, <2>4
      <3>2. (CHOOSE x \in {n} : TRUE) = n  OBVIOUS
      <3> QED  BY <2>1, <3>1, <3>2
    <2> QED  BY <2>3, <2>4
  <1>8. r = [d \in 1..2 |-> n]
    <2>1. r = [d \in 1..2 |-> r[d]]  BY <1>3, <1>6
    <2> QED  BY <1>7, <2>1
  <1>9. <<n, n>> = [d \in 1..2 |-> n]  OBVIOUS
  <1>10. broadcast_shapes(z) = r  BY <1>2, <1>5, <1>6
  <1> QED  BY <1>8, <1>9, <1>10 DEF z

\* triu and tril.
LEMMA TriLaid ==
  ASSUME Raised \notin Seq(Nat), NEW a, Laid(a), NEW k, NEW upper
  PROVE  Sound(tri_mask(a, k, upper))
  <1>1. ASSUME NEW w, Laid(w)  PROVE Sound(Triangle(w, k, upper))
    <2>1. w.shape \in Seq(Nat)  BY <1>1, LaidIs
    <2>2. \E buf : Triangle(w, k, upper) = from_buffer(buf, w.shape, "C")  BY DEF Triangle
    <2> QED  BY <2>1, <2>2, FromBufferLaid DEF Sound
  <1>2. a.shape \in Seq(Nat) /\ Len(a.shape) \in Nat  BY LaidIs
  <1>3. CASE a.shape = <<>>  BY <1>3 DEF tri_mask, Sound
  <1>4. CASE a.shape # <<>> /\ Len(a.shape) # 1
    <2>1. tri_mask(a, k, upper) = Triangle(a, k, upper)  BY <1>4 DEF tri_mask
    <2> QED  BY <1>1, <2>1
  <1>5. CASE a.shape # <<>> /\ Len(a.shape) = 1
    <2>1. PICK n \in Nat : n = a.shape[1]  BY <1>2, <1>5
    <2>2. a.shape = <<n>>  BY <1>2, <1>5, <2>1
    <2>3. PICK b : b = to_contiguous(a)  OBVIOUS
    <2>4. Laid(b) /\ b.shape = <<n>>  BY <2>2, <2>3, ContigLaid
    <2>5. PICK u, v, s, t : u = <<1>> /\ v = <<n>> /\ s = <<1, n>> /\ t = <<n, n>>  OBVIOUS
    <2>6. s \in Seq(Nat) /\ t \in Seq(Nat) /\ s = u \o v  BY <2>5
    <2>7. u \in Seq(Int) /\ v \in Seq(Int)  BY <2>5
    <2>8. Size(s) = Size(u) * Size(v)  BY <2>6, <2>7, SizeConcat
    <2>9. Size(v) = n
      <3>1. PICK i \in Int : i = n  OBVIOUS
      <3>2. Size(<<i>>) = i  BY SizeOne
      <3> QED  BY <2>5, <3>1, <3>2
    <2>10. Size(u) = 1
      <3>1. PICK i \in Int : i = 1  OBVIOUS
      <3>2. Size(<<i>>) = i  BY SizeOne
      <3> QED  BY <2>5, <3>1, <3>2
    <2>11. Size(s) = Size(b.shape)  BY <2>4, <2>5, <2>8, <2>9, <2>10
    <2>12. PICK r : r = reshape(b, s, "C")  OBVIOUS
    <2>13. Laid(r) /\ r.shape = s  BY <2>4, <2>6, <2>11, <2>12, ReshapeLaid
    <2>14. PICK shape : shape = broadcast_shapes(<<s, t>>)  OBVIOUS
    <2>15. shape = t  BY <2>5, <2>14, SquareIs
    <2>16. PICK w : w = View(r, t, broadcast_strides_to(s, r.strides, t), r.offset)  OBVIOUS
    <2>17. Laid(w)
      <3>1. r.strides \in Seq(Int) /\ Len(r.strides) = Len(s) /\ r.offset \in Int  BY <2>13, LaidIs
      <3>2. Len(s) = 2 /\ Len(t) = 2  BY <2>5
      <3>3. PICK st : st = broadcast_strides_to(s, r.strides, t)  OBVIOUS
      <3>4. Len(s) <= Len(t)  BY <3>2
      <3>5. Spans(t, st)  BY <2>6, <3>1, <3>3, <3>4, StretchSpans
      <3> QED  BY <2>16, <3>1, <3>3, <3>5, WindowLaid
    <2>18. t # Raised  BY <2>6
    <2>19. broadcast_to(r, t) = w  BY <2>13, <2>14, <2>15, <2>16, <2>18 DEF broadcast_to
    <2>20. tri_mask(a, k, upper) = Triangle(broadcast_to(r, t), k, upper)
      BY <1>5, <2>1, <2>3, <2>5, <2>12 DEF tri_mask
    <2> QED  BY <1>1, <2>17, <2>19, <2>20
  <1> QED  BY <1>3, <1>4, <1>5

\* Elements taken along an axis.
LEMMA TakeAlongLaid ==
  ASSUME NEW a, Laid(a), NEW idx, idx.shape \in Seq(Nat), NEW d, d = Raised \/ d \in 1..Len(a.shape), NEW mode
  PROVE  Sound(TakeAlong(a, idx, d, mode))
  <1>1. CASE d = Raised  BY <1>1 DEF TakeAlong, Sound
  <1>2. CASE d # Raised
    <2>1. PICK N, s, n : N = Nat /\ s = a.shape /\ n = Len(s)  OBVIOUS
    <2>2. s \in Seq(N) /\ n \in Nat /\ d \in 1..n /\ idx.shape \in Seq(N)  BY <1>2, <2>1, LaidIs
    <2>3. PICK i, j, o \in Int : i = d - 1 /\ j = d + 1 /\ o = 1  BY <2>2
    <2>4. PICK u, v, w : u = SubSeq(s, o, i) /\ v = idx.shape /\ w = SubSeq(s, j, n)  OBVIOUS
    <2>5. n \in Int /\ o <= o /\ i <= n /\ 1 <= j /\ n <= n /\ 1 <= o  BY <2>2, <2>3
    <2>6. u \in Seq(N)  BY <2>1, <2>2, <2>4, <2>5, SegmentIs
    <2>7. w \in Seq(N)  BY <2>1, <2>2, <2>4, <2>5, SegmentIs
    <2>8. PICK x : x = u \o v  OBVIOUS
    <2>9. x \in Seq(N)  BY <2>2, <2>4, <2>6, <2>8, Joins
    <2>10. x \o w \in Seq(N)  BY <2>7, <2>9, Joins
    <2>11. PICK shape : shape = SubSeq(a.shape, 1, d - 1) \o idx.shape \o SubSeq(a.shape, d + 1, Len(a.shape))
      OBVIOUS
    <2>12. shape = x \o w  BY <2>1, <2>3, <2>4, <2>8, <2>11
    <2>13. \/ TakeAlong(a, idx, d, mode) = Raised
           \/ \E buf : TakeAlong(a, idx, d, mode) = from_buffer(buf, shape, "C")
      BY <2>11 DEF TakeAlong, Arranged
    <2>14. shape \in Seq(Nat)  BY <2>1, <2>10, <2>12
    <2> QED  BY <2>13, <2>14, FromBufferLaid DEF Sound
  <1> QED  BY <1>1, <1>2

\* take, in every mode.
LEMMA TakeLaid ==
  ASSUME NEW a, Laid(a), NEW idx, idx.shape \in Seq(Nat), NEW axis \in Int \cup {None}, NEW mode
  PROVE  Sound(take(a, idx, axis, mode))
  <1>1. CASE a.shape = <<>>
    <2>1. PICK n \in Nat : n = Size(a.shape)  BY LaidIs
    <2>2. PICK b : b = Flat(a)  OBVIOUS
    <2>3. Laid(b) /\ b.shape = <<n>>  BY <2>1, <2>2, FlatLaid
    <2>4. PICK o \in Nat : o = 1  OBVIOUS
    <2>5. Len(b.shape) = o  BY <2>3, <2>4
    <2>6. PICK d : d = IF axis = None THEN 1 ELSE normalize_axis(axis, 1)  OBVIOUS
    <2>7. d = Raised \/ d \in 1..Len(b.shape)
      <3>1. CASE axis = None  BY <2>4, <2>5, <2>6, <3>1
      <3>2. CASE axis # None
        <4>1. axis \in Int  BY <3>2
        <4>2. d = normalize_axis(axis, o)  BY <2>4, <2>6, <3>2
        <4> QED  BY <2>5, <4>1, <4>2, NormAxisIs
      <3> QED  BY <3>1, <3>2
    <2>8. take(a, idx, axis, mode) = TakeAlong(b, idx, d, mode)  BY <1>1, <2>2, <2>6 DEF take
    <2> QED  BY <2>3, <2>7, <2>8, TakeAlongLaid
  <1>2. CASE a.shape # <<>>
    <2>1. PICK b, d : b = OnAxis(a, axis) /\ d = AxisOf(a, axis)  OBVIOUS
    <2>2. Laid(b) /\ (d = Raised \/ d \in 1..Len(b.shape))  BY <2>1, OnAxisLaid
    <2>3. take(a, idx, axis, mode) = TakeAlong(b, idx, d, mode)  BY <1>2, <2>1 DEF take
    <2> QED  BY <2>2, <2>3, TakeAlongLaid
  <1> QED  BY <1>1, <1>2

\* compress, also when it raises.
LEMMA CompressLaid ==
  ASSUME NEW a, Laid(a), NEW mask, Len(mask) \in Nat, NEW axis \in Int \cup {None}
  PROVE  Sound(compress(a, mask, axis))
  <1>1. PICK h \in Int : h = Len(mask) - 1  OBVIOUS
  <1>2. PICK S, q : S = {i \in 0..h : mask[i + 1]} /\ q = Ascending(S)  OBVIOUS
  <1>3. S \in SUBSET (0..h)  BY <1>2
  <1>4. PICK n \in Nat : n = Len(q)  BY <1>2, <1>3, HitsAre
  <1>5. PICK idx : idx = [shape |-> <<Len(q)>>, vals |-> q]  OBVIOUS
  <1>6. idx.shape \in Seq(Nat)  BY <1>4, <1>5
  <1>7. compress(a, mask, axis) = take(a, idx, axis, "raise")  BY <1>1, <1>2, <1>5 DEF compress
  <1> QED  BY <1>6, <1>7, TakeLaid

\* put, in every mode.
LEMMA PutLaid ==
  ASSUME NEW a, Laid(a), NEW idx, NEW values, NEW mode
  PROVE  Sound(put(a, idx, values, mode))
  BY WrittenLaid DEF put, Sound

\* fill_diagonal.
LEMMA FillDiagonalLaid ==
  ASSUME NEW a, Laid(a), NEW val, NEW wrap
  PROVE  Sound(fill_diagonal(a, val, wrap))
  BY WrittenLaid DEF fill_diagonal, Sound

\* setitem, for every key.
LEMMA SetItemLaid ==
  ASSUME NEW a, Laid(a), NEW key, NEW values
  PROVE  Sound(setitem(a, key, values))
  <1>1. \A shape, cells, vs : Sound(scatter(a, shape, cells, vs))  BY WrittenLaid DEF scatter, Sound
  <1>2. \A shape, cells, vs : Sound(ScatterTrimmed(a, shape, cells, vs))  BY <1>1 DEF ScatterTrimmed, Sound
  <1>3. \A p : Sound(ScatterAt(a, p, values))  BY <1>2 DEF ScatterAt, Sound
  <1> QED  BY <1>3 DEF setitem, Sound

\* The shape of a selection along axis d of an array with this shape.
LEMMA AlongShapeIs ==
  ASSUME NEW base \in Seq(Nat), NEW idx \in Seq(Nat), NEW d, NEW r, r = take_along_axis_shape(base, idx, d)
  PROVE  r = Raised \/ r \in Seq(Nat)
  <1>1. CASE Len(base) # Len(idx)  BY <1>1 DEF take_along_axis_shape
  <1>2. CASE Len(base) = Len(idx)
    <2>1. PICK N, x : N = Nat /\ x = idx[d]  OBVIOUS
    <2>2. d \in DOMAIN base => x \in N  BY <1>2, <2>1
    <2>3. base \in Seq(N)  BY <2>1
    <2>4. Put1(base, d, x) \in Seq(N)  BY <2>2, <2>3, Put1Is
    <2>5. r = Raised \/ r = Put1(base, d, x)  BY <1>2, <2>1 DEF take_along_axis_shape
    <2> QED  BY <2>1, <2>4, <2>5
  <1> QED  BY <1>1, <1>2

\* The shape that take_along_axis compares.
LEMMA ShapeOnIs ==
  ASSUME NEW a, Laid(a), NEW axis
  PROVE  ShapeOn(a, axis) \in Seq(Nat)
  <1>1. PICK n \in Nat : n = Size(a.shape)  BY LaidIs
  <1>2. <<n>> \in Seq(Nat) /\ a.shape \in Seq(Nat)  BY LaidIs
  <1> QED  BY <1>1, <1>2 DEF ShapeOn

\* take_along_axis, also when it raises.
LEMMA TakeAlongAxisLaid ==
  ASSUME NEW a, Laid(a), NEW idx, idx.shape \in Seq(Nat), NEW axis
  PROVE  Sound(take_along_axis(a, idx, axis))
  <1>1. PICK base, ids, d : base = ShapeOn(a, axis) /\ ids = idx.shape /\ d = AxisOf(a, axis)  OBVIOUS
  <1>2. base \in Seq(Nat) /\ ids \in Seq(Nat)  BY <1>1, ShapeOnIs
  <1>3. PICK shape : shape = take_along_axis_shape(base, ids, d)  OBVIOUS
  <1>4. shape = Raised \/ shape \in Seq(Nat)  BY <1>2, <1>3, AlongShapeIs
  <1>5. PICK b : b = OnAxis(a, axis)  OBVIOUS
  <1>6. \/ take_along_axis(a, idx, axis) = Raised
        \/ take_along_axis(a, idx, axis) = SelectAlong(b, idx, d, shape)
    BY <1>1, <1>3, <1>5 DEF take_along_axis
  <1>7. \/ SelectAlong(b, idx, d, shape) = Raised
        \/ shape # Raised /\ \E buf : SelectAlong(b, idx, d, shape) = from_buffer(buf, shape, "C")
    BY DEF SelectAlong, Arranged
  <1> QED  BY <1>4, <1>6, <1>7, FromBufferLaid DEF Sound

\* put_along_axis.
LEMMA PutAlongAxisLaid ==
  ASSUME NEW a, Laid(a), NEW idx, NEW values, NEW axis \in Int \cup {None}
  PROVE  Laid(put_along_axis(a, idx, values, axis).arr)
  <1>1. PICK b, d : b = OnAxis(a, axis) /\ d = AxisOf(a, axis)  OBVIOUS
  <1>2. Laid(b)  BY <1>1, OnAxisLaid
  <1>3. \A new : Laid(PutAlong(b, idx, new, d).arr) /\ PutAlong(b, idx, new, d).arr.shape = b.shape
    BY <1>2, WrittenLaid DEF PutAlong
  <1>4. ASSUME NEW new  PROVE Laid(PutBack(a, axis, PutAlong(b, idx, new, d)).arr)
    <2>1. PICK x : x = PutAlong(b, idx, new, d)  OBVIOUS
    <2>2. Laid(x.arr) /\ x.arr.shape = b.shape  BY <1>3, <2>1
    <2>3. CASE axis # None  BY <2>1, <2>2, <2>3 DEF PutBack
    <2>4. CASE axis = None
      <3>1. PICK n \in Int : n = Size(a.shape)  BY LaidIs
      <3>2. b.shape = <<n>>  BY <1>1, <2>4, <3>1, FlatLaid DEF OnAxis
      <3>3. Size(<<n>>) = n  BY SizeOne
      <3>4. PICK y, s : y = x.arr /\ s = a.shape  OBVIOUS
      <3>5. Laid(y) /\ s \in Seq(Nat) /\ Size(s) = Size(y.shape)  BY <2>2, <3>1, <3>2, <3>3, <3>4, LaidIs
      <3>6. Laid(reshape(y, s, "C"))  BY <3>5, ReshapeLaid
      <3>7. PutBack(a, axis, x).arr = IF x.raised THEN a ELSE reshape(y, s, "C")  BY <2>4, <3>4 DEF PutBack
      <3> QED  BY <2>1, <3>6, <3>7
    <2> QED  BY <2>3, <2>4
  <1>5. \/ put_along_axis(a, idx, values, axis) = [arr |-> a, raised |-> TRUE]
        \/ \E new : put_along_axis(a, idx, values, axis) = PutBack(a, axis, PutAlong(b, idx, new, d))
    BY <1>1 DEF put_along_axis
  <1>6. CASE put_along_axis(a, idx, values, axis) = [arr |-> a, raised |-> TRUE]
    <2>1. [arr |-> a, raised |-> TRUE].arr = a  OBVIOUS
    <2> QED  BY <1>6, <2>1
  <1>7. CASE \E new : put_along_axis(a, idx, values, axis) = PutBack(a, axis, PutAlong(b, idx, new, d))
    BY <1>4, <1>7
  <1> QED  BY <1>5, <1>6, <1>7

----------------------------------------------------------------------------
(* Reductions.                                                                *)

\* The axes that a reduction keeps, in their order.
LEMMA KeptIs ==
  ASSUME NEW a, Laid(a), NEW axes
  PROVE  \E m \in Nat : Leaves(Kept(a, axes), m, Len(a.shape), axes)
  <1>1. PICK n \in Nat : n = Len(a.shape) /\ DOMAIN a.shape = 1..n  BY LaidIs
  <1>2. PICK q : q = Kept(a, axes)  OBVIOUS
  <1>3. q = Ascending((1..n) \ axes)  BY <1>1, <1>2 DEF Kept
  <1>4. \E m \in Nat : Leaves(q, m, n, axes)  BY <1>3, WithoutNames
  <1> QED  BY <1>1, <1>2, <1>4

\* The lengths of the axes kept.
LEMMA KeptShape ==
  ASSUME NEW a, Laid(a), NEW axes
  PROVE  /\ Permuted(a.shape, Kept(a, axes)) \in Seq(Nat)
         /\ Len(Permuted(a.shape, Kept(a, axes))) = Cardinality((1..Len(a.shape)) \ axes)
  <1>1. PICK n \in Nat : n = Len(a.shape) /\ a.shape \in Seq(Nat)  BY LaidIs
  <1>2. PICK q : q = Kept(a, axes)  OBVIOUS
  <1>3. PICK m \in Nat : Leaves(q, m, n, axes)  BY <1>1, <1>2, KeptIs
  <1>4. Lists(q, m, n) /\ m = Cardinality((1..n) \ axes)  BY <1>3 DEF Leaves, Names, Lists
  <1>5. PICK V, s : V = Nat /\ s = a.shape  OBVIOUS
  <1>6. s \in Seq(V) /\ Len(s) = n  BY <1>1, <1>5
  <1>7. Permuted(s, q) \in Seq(V) /\ Len(Permuted(s, q)) = m  BY <1>4, <1>6, PermutedIs
  <1> QED  BY <1>1, <1>2, <1>4, <1>5, <1>7

\* The shape with its reduced axes at length one.
LEMMA FullShape ==
  ASSUME NEW a, Laid(a), NEW axes,
         NEW f, f = [d \in DOMAIN a.shape |-> IF d \in axes THEN 1 ELSE a.shape[d]]
  PROVE  f \in Seq(Nat) /\ Len(f) = Len(a.shape)
  <1>1. PICK n \in Nat : n = Len(a.shape) /\ DOMAIN a.shape = 1..n /\ a.shape \in Seq(Nat)  BY LaidIs
  <1>2. \A d \in 1..n : a.shape[d] \in Nat  BY <1>1
  <1>3. f \in [1..n -> Nat]  BY <1>1, <1>2
  <1>4. PICK V : V = Nat  OBVIOUS
  <1>5. f \in [1..n -> V]  BY <1>3, <1>4
  <1>6. f \in Seq(V) /\ Len(f) = n  BY <1>5, Enlisted
  <1> QED  BY <1>1, <1>4, <1>6

\* The strides of a reduction that keeps its axes.
LEMMA OutputSpans ==
  ASSUME NEW a, Laid(a), NEW axes, NEW out, out = reduce_output_layout(a, axes, TRUE)
  PROVE  Spans(out.shape, out.strides)
  <1>1. PICK n \in Nat : n = Len(a.shape) /\ a.strides \in Seq(Int) /\ Len(a.strides) = n  BY LaidIs
  <1>2. PICK f, s, q : /\ f = [d \in DOMAIN a.shape |-> IF d \in axes THEN 1 ELSE a.shape[d]]
                       /\ s = DenseStrides(f, AxesByStride(a.strides))
                       /\ q = AxesByStride(a.strides)
    OBVIOUS
  <1>3. f \in Seq(Nat) /\ Len(f) = n  BY <1>1, <1>2, FullShape
  <1>4. out = [shape |-> f, strides |-> IF Size(f) = 0 THEN Zeros(f) ELSE s]  BY <1>2 DEF reduce_output_layout
  <1>5. out.shape = f /\ out.strides = IF Size(f) = 0 THEN Zeros(f) ELSE s
    <2>1. PICK t : t = IF Size(f) = 0 THEN Zeros(f) ELSE s  OBVIOUS
    <2>2. out = [shape |-> f, strides |-> t]  BY <1>4, <2>1
    <2>3. out.shape = f /\ out.strides = t  BY ONLY <2>2
    <2> QED  BY <2>1, <2>3
  <1>6. Turns(q, n)  BY <1>1, <1>2, ByStrideTurns
  <1>7. DenseStrides(f, q) \in Seq(Int) /\ Len(DenseStrides(f, q)) = Len(f)  BY <1>3, <1>6, DenseStridesIs
  <1>8. Spans(f, s)  BY <1>2, <1>3, <1>7 DEF Spans
  <1>9. Spans(f, Zeros(f))  BY <1>3, StridesSpan
  <1> QED  BY <1>5, <1>8, <1>9

\* The kept axes in the order of the operand's memory, numbered as the result
\* numbers them.
KeptPerm(a, axes) ==
    LET keep == Kept(a, axes)
        order == SlowestFirst(a.strides, DOMAIN a.shape \ axes)
    IN  [i \in DOMAIN order |-> CHOOSE j \in DOMAIN keep : keep[j] = order[i]]

\* The kept axes, in the order of the strides, are a permutation.
LEMMA KeptTurns ==
  ASSUME NEW a, Laid(a), NEW axes
  PROVE  Turns(KeptPerm(a, axes), Cardinality((1..Len(a.shape)) \ axes))
  <1> DEFINE keep == Kept(a, axes)
             order == SlowestFirst(a.strides, DOMAIN a.shape \ axes)
             C(i) == CHOOSE j \in DOMAIN keep : keep[j] = order[i]
             q == [i \in DOMAIN order |-> C(i)]
  <1>0. q = KeptPerm(a, axes)  BY Zenon DEF KeptPerm
  <1> HIDE DEF keep, order, q
  <1>1. PICK n \in Nat : /\ n = Len(a.shape) /\ DOMAIN a.shape = 1..n /\ a.strides \in Seq(Int)
                         /\ Len(a.strides) = n
    BY LaidIs
  <1>2. PICK S : S = (1..n) \ axes  OBVIOUS
  <1>3. S \in SUBSET Int /\ IsFiniteSet(S) /\ \A d \in S : a.strides[d] \in Int
    <2>1. IsFiniteSet(1..n) /\ S \in SUBSET (1..n)  BY <1>2, IntervalFinite
    <2>2. IsFiniteSet(S)  BY <2>1, FS_Subset
    <2> QED  BY <1>1, <1>2, <2>1, <2>2
  <1>4. order = SlowestFirst(a.strides, S)  BY <1>1, <1>2 DEF order
  <1>5. ListsAll(order, S) /\ Cardinality(S) \in Nat  BY <1>3, <1>4, SlowestFirstIs
  <1>6. PICK m \in Nat : Leaves(keep, m, n, axes)  BY <1>1, KeptIs DEF keep
  <1>7. m = Cardinality(S)  BY <1>2, <1>6 DEF Leaves
  <1>8. /\ DOMAIN keep = 1..m /\ \A d \in S : \E j \in 1..m : keep[j] = d
        /\ \A i, j \in 1..m : keep[i] = keep[j] => i = j
    BY <1>2, <1>6 DEF Leaves, Names
  <1>9. /\ DOMAIN order = 1..m /\ \A i \in 1..m : order[i] \in S
        /\ \A i, j \in 1..m : order[i] = order[j] => i = j
    BY <1>5, <1>7 DEF ListsAll
  <1>10. q = [i \in DOMAIN order |-> C(i)]  BY DEF q
  <1>11. \A i \in 1..m : q[i] \in 1..m /\ keep[q[i]] = order[i]
    <2> TAKE i \in 1..m
    <2>1. q[i] = CHOOSE j \in 1..m : keep[j] = order[i]  BY <1>8, <1>9, <1>10
    <2>2. \E j \in 1..m : keep[j] = order[i]  BY <1>8, <1>9
    <2> QED  BY <2>1, <2>2
  <1>12. q \in [1..m -> 1..m]
    <2> HIDE DEF C
    <2>1. q = [i \in 1..m |-> C(i)]  BY <1>9, <1>10
    <2>2. q = [i \in 1..m |-> q[i]]  BY <2>1
    <2> QED  BY <1>11, <2>2
  <1>13. \A i, j \in 1..m : q[i] = q[j] => i = j
    <2> TAKE i, j \in 1..m
    <2> HAVE q[i] = q[j]
    <2>1. keep[q[i]] = order[i] /\ keep[q[j]] = order[j]  BY <1>11
    <2>2. order[i] = order[j]  BY <2>1
    <2> QED  BY <1>9, <2>2
  <1>14. Turns(q, m)  BY <1>12, <1>13 DEF Turns, Names
  <1> QED  BY <1>0, <1>1, <1>2, <1>7, <1>14

\* A result laid out like its operand.
LEMMA RelaidLaid ==
  ASSUME NEW a, Laid(a), NEW axes, NEW keepdims, NEW r, Laid(r),
         Len(r.shape) = Cardinality((1..Len(a.shape)) \ axes)
  PROVE  Laid(relayout_for_reduction(r, a, axes, keepdims))
  <1> DEFINE p == KeptPerm(a, axes)
  <1>2. PICK q : q = p  OBVIOUS
  <1>3. Turns(q, Cardinality((1..Len(a.shape)) \ axes))  BY <1>2, KeptTurns
  <1>4. PICK relaid, out : relaid = relayout_by_perm(r, q) /\ out = reduce_output_layout(a, axes, TRUE)
    OBVIOUS
  <1>5. Laid(relaid)
    <2>1. Turns(q, Len(r.shape))  BY <1>3
    <2>2. Good(relayout_by_perm(r, q))  BY <2>1, RelayoutIs
    <2> QED  BY <1>4, <2>2 DEF Good
  <1>6. Spans(out.shape, out.strides)  BY <1>4, OutputSpans
  <1>7. Laid(Fresh(relaid.buf, out.shape, out.strides))  BY <1>6, FreshLaid
  <1>8. relayout_for_reduction(r, a, axes, keepdims) =
          IF keepdims THEN Fresh(relayout_by_perm(r, p).buf, reduce_output_layout(a, axes, TRUE).shape,
                                 reduce_output_layout(a, axes, TRUE).strides)
          ELSE relayout_by_perm(r, p)
    BY Zenon DEF relayout_for_reduction, KeptPerm
  <1> HIDE DEF p
  <1>9. relayout_for_reduction(r, a, axes, keepdims) =
          IF keepdims THEN Fresh(relaid.buf, out.shape, out.strides) ELSE relaid
    BY <1>2, <1>4, <1>8
  <1> QED  BY <1>5, <1>7, <1>9

\* Reductions.
LEMMA ReduceLaid ==
  ASSUME NEW a, Laid(a), NEW axes, NEW keepdims, NEW kernel, NEW initial, NEW identity, NEW mask, NEW cast
  PROVE  Sound(reduce_axis(a, axes, keepdims, kernel, initial, identity, mask, cast))
  <1>1. PICK shape : shape = Permuted(a.shape, Kept(a, axes))  OBVIOUS
  <1>2. shape \in Seq(Nat) /\ Len(shape) = Cardinality((1..Len(a.shape)) \ axes)  BY <1>1, KeptShape
  <1>3. ASSUME NEW vals
        PROVE  Laid(relayout_for_reduction(from_buffer(vals, shape, "C"), a, axes, keepdims))
    <2>1. PICK r : r = from_buffer(vals, shape, "C")  OBVIOUS
    <2>2. Laid(r) /\ r.shape = shape  BY <1>2, <2>1, FromBufferLaid
    <2>3. Len(r.shape) = Cardinality((1..Len(a.shape)) \ axes)  BY <1>2, <2>2
    <2>4. Laid(relayout_for_reduction(r, a, axes, keepdims))  BY <2>2, <2>3, RelaidLaid
    <2> QED  BY <2>1, <2>4
  <1>4. PICK x : x = reduce_axis(a, axes, keepdims, kernel, initial, identity, mask, cast)  OBVIOUS
  <1>5. \/ x = Raised
        \/ \E vals : x = relayout_for_reduction(from_buffer(vals, shape, "C"), a, axes, keepdims)
    BY <1>1, <1>4, Zenon DEF reduce_axis
  <1> QED  BY <1>3, <1>4, <1>5 DEF Sound

\* Running sums.
LEMMA AccumulateLaid ==
  ASSUME NEW a, Laid(a), NEW d
  PROVE  Laid(accumulate_axis(a, d))
  <1>1. a.shape \in Seq(Nat)  BY LaidIs
  <1>2. PICK q : q = axis_perm_for_order(a, "K")  OBVIOUS
  <1>3. Turns(q, Len(a.shape))  BY <1>2, AxisPermIs
  <1>4. ASSUME NEW vals
        PROVE  Laid(relayout_by_perm(from_buffer(vals, a.shape, "C"), q))
    <2>1. PICK r : r = from_buffer(vals, a.shape, "C")  OBVIOUS
    <2>2. Laid(r) /\ r.shape = a.shape  BY <1>1, <2>1, FromBufferLaid
    <2>3. Turns(q, Len(r.shape))  BY <1>3, <2>2
    <2>4. Good(relayout_by_perm(r, q))  BY <2>2, <2>3, RelayoutIs
    <2> QED  BY <2>1, <2>4 DEF Good
  <1>5. \E vals : accumulate_axis(a, d) = relayout_by_perm(from_buffer(vals, a.shape, "C"), q)
    BY <1>2, Zenon DEF accumulate_axis
  <1> QED  BY <1>4, <1>5

\* Sums of segments.
LEMMA ReduceAtLaid ==
  ASSUME NEW a, Laid(a), NEW indices, Len(indices) \in Nat, NEW d
  PROVE  Sound(reduceat_axis(a, indices, d))
  <1>1. a.shape \in Seq(Nat)  BY LaidIs
  <1>2. PICK V, s, x : V = Nat /\ s = a.shape /\ x = Len(indices)  OBVIOUS
  <1>3. s \in Seq(V) /\ x \in V  BY <1>1, <1>2
  <1>4. Put1(s, d, x) \in Seq(V)  BY <1>3, Put1Is
  <1>5. PICK shape : shape = Put1(a.shape, d, Len(indices))  OBVIOUS
  <1>6. shape \in Seq(Nat)  BY <1>2, <1>4, <1>5
  <1>7. \/ reduceat_axis(a, indices, d) = Raised
        \/ \E vals : reduceat_axis(a, indices, d) = from_buffer(vals, shape, "C")
    BY <1>5, Zenon DEF reduceat_axis
  <1>8. \A vals : Laid(from_buffer(vals, shape, "C"))  BY <1>6, FromBufferLaid
  <1> QED  BY <1>7, <1>8 DEF Sound

\* The places of the largest.
LEMMA ArgExtLaid ==
  ASSUME NEW a, Laid(a), NEW axes, NEW keepdims
  PROVE  Sound(argext(a, axes, keepdims))
  <1>1. PICK f, g : /\ f = [d \in DOMAIN a.shape |-> IF d \in axes THEN 1 ELSE a.shape[d]]
                    /\ g = Permuted(a.shape, Kept(a, axes))
    OBVIOUS
  <1>2. f \in Seq(Nat)  BY <1>1, FullShape
  <1>3. g \in Seq(Nat)  BY <1>1, KeptShape
  <1>4. \/ argext(a, axes, keepdims) = Raised
        \/ \E vals : argext(a, axes, keepdims) = from_buffer(vals, IF keepdims THEN f ELSE g, "C")
    BY <1>1, Zenon DEF argext
  <1>5. PICK shape : shape = IF keepdims THEN f ELSE g  OBVIOUS
  <1>6. shape \in Seq(Nat)  BY <1>2, <1>3, <1>5
  <1>7. \A vals : Laid(from_buffer(vals, shape, "C"))  BY <1>6, FromBufferLaid
  <1> QED  BY <1>4, <1>5, <1>7 DEF Sound

\* The sum of every pair of elements.
LEMMA OuterLaid ==
  ASSUME NEW a, Laid(a), NEW b, Laid(b)
  PROVE  Laid(outer_binary(a, b))
  <1>1. PICK V, s, t : V = Nat /\ s = a.shape /\ t = b.shape  OBVIOUS
  <1>2. s \in Seq(V)  BY <1>1, LaidIs
  <1>3. t \in Seq(V)  BY <1>1, LaidIs
  <1>4. s \o t \in Seq(V)  BY <1>2, <1>3, Joins
  <1>5. PICK shape : shape = a.shape \o b.shape  OBVIOUS
  <1>6. shape \in Seq(Nat)  BY <1>1, <1>4, <1>5
  <1>7. \E vals : outer_binary(a, b) = from_buffer(vals, shape, "C")  BY <1>5, Zenon DEF outer_binary
  <1>8. \A vals : Laid(from_buffer(vals, shape, "C"))  BY <1>6, FromBufferLaid
  <1> QED  BY <1>7, <1>8

\* Sums in place.
LEMMA AtBinaryLaid ==
  ASSUME NEW a, Laid(a), NEW indices, NEW values
  PROVE  Sound(at_binary(a, indices, values))
  <1>1. \/ at_binary(a, indices, values) = Raised
        \/ \E buf : at_binary(a, indices, values) = [a EXCEPT !.buf = buf]
    BY Zenon DEF at_binary
  <1>2. ASSUME NEW buf  PROVE Laid([a EXCEPT !.buf = buf])
    <2>1. a = [buf |-> a.buf, shape |-> a.shape, strides |-> a.strides, offset |-> a.offset,
               fresh |-> a.fresh]
      BY DEF Laid
    <2>2. [a EXCEPT !.buf = buf] = [buf |-> buf, shape |-> a.shape, strides |-> a.strides,
                                    offset |-> a.offset, fresh |-> a.fresh]
      BY <2>1
    <2> QED  BY <2>2 DEF Laid
  <1> QED  BY <1>1, <1>2 DEF Sound

----------------------------------------------------------------------------
(* The order of the axes of an elementwise result.                            *)

\* Each of 1..k once.
Ranked(s, k) == s \in Seq(1..k) /\ Len(s) = k /\ \A i, j \in 1..k : s[i] = s[j] => i = j

\* A sequence with one element more.
LEMMA InsertedElements ==
  ASSUME NEW V, NEW s \in Seq(V), NEW x \in V, NEW i \in 1..Len(s) + 1
  PROVE  /\ \A j \in 1..i - 1 : InsertAt(s, i, x)[j] = s[j]
         /\ InsertAt(s, i, x)[i] = x
         /\ \A j \in i + 1..Len(s) + 1 : InsertAt(s, i, x)[j] = s[j - 1]
  <1>1. PICK n \in Nat : n = Len(s)  OBVIOUS
  <1>2. PICK u, v, w : u = SubSeq(s, 1, i - 1) /\ v = <<x>> /\ w = SubSeq(s, i, Len(s))  OBVIOUS
  <1>3. i \in Int /\ i - 1 \in Int /\ 1 <= i /\ i - 1 <= n /\ n \in Int  BY <1>1
  <1>4. u \in Seq(V) /\ Len(u) = i - 1 /\ \A j \in 1..i - 1 : u[j] = s[j]  BY <1>1, <1>2, <1>3
  <1>5. w \in Seq(V) /\ Len(w) = n - i + 1 /\ \A j \in 1..n - i + 1 : w[j] = s[i + j - 1]  BY <1>1, <1>2, <1>3
  <1>6. v \in Seq(V) /\ Len(v) = 1 /\ v[1] = x  BY <1>2
  <1>7. PICK z : z = u \o v  OBVIOUS
  <1>8. z \in Seq(V) /\ Len(z) = i /\ (\A j \in 1..i - 1 : z[j] = s[j]) /\ z[i] = x
    <2>1. u \in Seq(V)  BY <1>4
    <2>2. v \in Seq(V)  BY <1>6
    <2>3. u \o v \in Seq(V) /\ Len(u \o v) = Len(u) + Len(v)  BY <2>1, <2>2, Joins
    <2>4. (\A j \in 1..Len(u) : (u \o v)[j] = u[j]) /\ \A j \in 1..Len(v) : (u \o v)[Len(u) + j] = v[j]
      BY <2>1, <2>2, JoinedAt
    <2>5. z \in Seq(V) /\ Len(z) = i  BY <1>3, <1>4, <1>6, <1>7, <2>3
    <2>6. \A j \in 1..i - 1 : z[j] = s[j]  BY <1>4, <1>7, <2>4
    <2>7. z[i] = x
      <3>1. 1 \in 1..Len(v) /\ Len(u) + 1 = i  BY <1>3, <1>4, <1>6
      <3> QED  BY <1>6, <1>7, <2>4, <3>1
    <2> QED  BY <2>5, <2>6, <2>7
  <1>9. /\ \A j \in 1..i : (z \o w)[j] = z[j]
        /\ \A j \in 1..n - i + 1 : (z \o w)[i + j] = w[j]
    <2>1. z \in Seq(V)  BY <1>8
    <2>2. w \in Seq(V)  BY <1>5
    <2>3. (\A j \in 1..Len(z) : (z \o w)[j] = z[j]) /\ \A j \in 1..Len(w) : (z \o w)[Len(z) + j] = w[j]
      BY <2>1, <2>2, JoinedAt
    <2> QED  BY <1>5, <1>8, <2>3
  <1>10. PICK y : y = z \o w  OBVIOUS
  <1>11. InsertAt(s, i, x) = y  BY <1>2, <1>7, <1>10 DEF InsertAt
  <1>12. \A j \in 1..i - 1 : y[j] = s[j]
    <2> TAKE j \in 1..i - 1
    <2>1. j \in 1..i  BY <1>3
    <2> QED  BY <1>8, <1>9, <1>10, <2>1
  <1>13. y[i] = x
    <2>1. i \in 1..i  BY <1>3
    <2> QED  BY <1>8, <1>9, <1>10, <2>1
  <1>14. \A j \in i + 1..n + 1 : y[j] = s[j - 1]
    <2> TAKE j \in i + 1..n + 1
    <2>1. PICK k \in 1..n - i + 1 : k = j - i  BY <1>3
    <2>2. y[i + k] = w[k] /\ w[k] = s[i + k - 1]  BY <1>5, <1>9, <1>10
    <2>3. i + k = j /\ i + k - 1 = j - 1  BY <1>3, <2>1
    <2> QED  BY <2>2, <2>3
  <1> QED  BY <1>1, <1>11, <1>12, <1>13, <1>14

\* The next number goes anywhere.
LEMMA RankedMore ==
  ASSUME NEW k \in Nat \ {0}, NEW s, Ranked(s, k - 1), NEW i \in 1..k
  PROVE  Ranked(InsertAt(s, i, k), k)
  <1>1. s \in Seq(1..k - 1) /\ Len(s) = k - 1 /\ \A g, h \in 1..k - 1 : s[g] = s[h] => g = h  BY DEF Ranked
  <1>2. PICK V : V = 1..k  OBVIOUS
  <1>3. s \in Seq(V) /\ k \in V /\ i \in 1..Len(s) + 1  BY <1>1, <1>2
  <1>4. \A j \in 1..k - 1 : s[j] \in 1..k - 1
    <2>1. PICK U : U = 1..k - 1  OBVIOUS
    <2>2. s \in Seq(U) /\ Len(s) = k - 1  BY <1>1, <2>1
    <2>3. \A j \in 1..k - 1 : s[j] \in U  BY <2>2
    <2> QED  BY <2>1, <2>3
  <1>5. PICK t : t = InsertAt(s, i, k)  OBVIOUS
  <1>6. t \in Seq(V) /\ Len(t) = k
    <2>1. t \in Seq(V) /\ Len(t) = Len(s) + 1  BY <1>3, <1>5, InsertAtIs
    <2> QED  BY <1>1, <2>1
  <1>7. /\ \A j \in 1..i - 1 : t[j] = s[j]
        /\ t[i] = k
        /\ \A j \in i + 1..k : t[j] = s[j - 1]
    <2>1. /\ \A j \in 1..i - 1 : t[j] = s[j]
          /\ t[i] = k
          /\ \A j \in i + 1..Len(s) + 1 : t[j] = s[j - 1]
      BY <1>3, <1>5, InsertedElements
    <2> QED  BY <1>1, <2>1
  <1> DEFINE back(j) == IF j < i THEN j ELSE j - 1
  <1>8. \A j \in 1..k : j # i => t[j] = s[back(j)] /\ back(j) \in 1..k - 1 /\ t[j] # k
    <2> TAKE j \in 1..k
    <2> HAVE j # i
    <2>1. CASE j < i
      <3>1. j \in 1..i - 1 /\ j \in 1..k - 1  BY <2>1
      <3> QED  BY <1>4, <1>7, <2>1, <3>1
    <2>2. CASE ~(j < i)
      <3>1. j \in i + 1..k /\ j - 1 \in 1..k - 1  BY <2>2
      <3> QED  BY <1>4, <1>7, <2>2, <3>1
    <2> QED  BY <2>1, <2>2
  <1>9. \A g, h \in 1..k : t[g] = t[h] => g = h
    <2> TAKE g, h \in 1..k
    <2> HAVE t[g] = t[h]
    <2>1. CASE g = i \/ h = i  BY <1>7, <1>8, <2>1
    <2>2. CASE g # i /\ h # i
      <3>1. s[back(g)] = s[back(h)] /\ back(g) \in 1..k - 1 /\ back(h) \in 1..k - 1  BY <1>8, <2>2
      <3>2. back(g) = back(h)
        <4> HIDE DEF back
        <4> QED  BY <1>1, <3>1
      <3> QED  BY <2>2, <3>2
    <2> QED  BY <2>1, <2>2
  <1> QED  BY <1>2, <1>5, <1>6, <1>9 DEF Ranked

\* A ranking is a turn.
LEMMA RankedTurns ==
  ASSUME NEW n \in Nat, NEW s, Ranked(s, n)
  PROVE  Turns(s, n)
  <1>1. s \in [1..n -> 1..n]  BY DEF Ranked
  <1> QED  BY <1>1 DEF Ranked, Turns, Names

\* NumPy's insertion sort of the axes lists each of them once.
LEMMA MultiSortedTurns ==
  ASSUME NEW n \in Nat, NEW operands
  PROVE  Turns(multi_sorted_stride_perm(n, operands), n)
  <1> DEFINE pad(a) == n - Len(a.shape)
             tells(a, d, e) == /\ d > pad(a) /\ e > pad(a)
                               /\ a.shape[d - pad(a)] # 1 /\ a.shape[e - pad(a)] # 1
             slower(a, d, e) == Abs(a.strides[d - pad(a)]) > Abs(a.strides[e - pad(a)])
             judges(d, e) == {i \in DOMAIN operands : tells(operands[i], d, e)}
             moves(d, e) == judges(d, e) # {} /\ \A i \in judges(d, e) : slower(operands[i], d, e)
             stays(d, e) == \E i \in judges(d, e) : ~slower(operands[i], d, e)
             wall(k, s) == Max({i \in DOMAIN s : stays(k, s[i])} \cup {0})
             place(k, s) == Min({i \in wall(k, s) + 1..Len(s) : moves(k, s[i])} \cup {k})
             Next1(k, s) == InsertAt(s, place(k, s), k)
             Fits1(h) == h = [k \in 0..n |-> IF k = 0 THEN <<>> ELSE Next1(k, h[k - 1])]
  <1>1. multi_sorted_stride_perm(n, operands) = (CHOOSE h : Fits1(h))[n]
    BY Zenon DEF multi_sorted_stride_perm
  <1>2. ASSUME NEW k \in 1..n, NEW s, Ranked(s, k - 1)
        PROVE  Ranked(Next1(k, s), k)
    <2> HIDE DEF moves, stays
    <2>0. k \in Nat  OBVIOUS
    <2>1. Len(s) = k - 1 /\ DOMAIN s = 1..k - 1  BY <1>2 DEF Ranked
    <2>2. PICK S : S = {i \in DOMAIN s : stays(k, s[i])} \cup {0}  OBVIOUS
    <2>3. S \in SUBSET (0..k) /\ S # {}  BY <2>1, <2>2
    <2>4. Max(S) \in S  BY <2>0, <2>3, Extremes
    <2>5. PICK w \in Nat : w = wall(k, s)  BY <2>2, <2>3, <2>4
    <2> HIDE DEF wall
    <2>6. PICK D : D = {i \in wall(k, s) + 1..Len(s) : moves(k, s[i])} \cup {k}  OBVIOUS
    <2>7. D \in SUBSET (1..k) /\ D # {}  BY <2>1, <2>5, <2>6
    <2>8. D \in SUBSET (0..k)  BY <2>7
    <2>9. Min(D) \in D  BY <2>0, <2>7, <2>8, Extremes
    <2>10. PICK i \in 1..k : i = place(k, s)  BY <2>6, <2>7, <2>9
    <2>11. Ranked(InsertAt(s, i, k), k)  BY <1>2, RankedMore
    <2> HIDE DEF place
    <2> QED  BY <2>10, <2>11
  <1> HIDE DEF Next1
  <1>3. PICK W : W = UNION {Seq(1..k) : k \in 0..n}  OBVIOUS
  <1>4. \A k \in 0..n : \A s : Ranked(s, k) => s \in W  BY <1>3 DEF Ranked
  <1>5. PICK G : G = [p \in (1..n) \X W |-> IF Next1(p[1], p[2]) \in W THEN Next1(p[1], p[2]) ELSE <<>>]
    OBVIOUS
  <1>6. Ranked(<<>>, 0)  BY DEF Ranked
  <1>7. <<>> \in W
    <2>1. 0 \in 0..n  OBVIOUS
    <2> QED  BY <1>4, <1>6, <2>1
  <1>8. G \in [(1..n) \X W -> W]  BY <1>5, <1>7
  <1>9. PICK x : x = <<>>  OBVIOUS
  <1>10. x \in W  BY <1>7, <1>9
  <1>11. \E f \in [0..n -> W] : Chain(f, n, x, G)  BY <1>8, <1>10, ChainExists
  <1>12. PICK f \in [0..n -> W] : f[0] = x /\ \A k \in 1..n : f[k] = G[<<k, f[k - 1]>>]  BY <1>11 DEF Chain
  <1> DEFINE T == {k \in 0..n : Ranked(f[k], k)}
  <1>13. 0 \in T  BY <1>6, <1>9, <1>12
  <1>14. ASSUME NEW k \in 1..n, Ranked(f[k - 1], k - 1)
         PROVE  f[k] = Next1(k, f[k - 1]) /\ Ranked(f[k], k)
    <2>1. Ranked(Next1(k, f[k - 1]), k)  BY <1>2, <1>14
    <2>2. Next1(k, f[k - 1]) \in W  BY <1>4, <2>1
    <2>3. f[k - 1] \in W  BY <1>12
    <2>4. <<k, f[k - 1]>> \in (1..n) \X W /\ f[k] = G[<<k, f[k - 1]>>]  BY <1>12, <2>3
    <2>5. f[k] = Next1(k, f[k - 1])  BY <1>5, <2>2, <2>4
    <2> QED  BY <2>1, <2>5
  <1>15. ASSUME NEW k \in 0..n - 1, k \in T
         PROVE  k + 1 \in T
    <2>1. PICK j \in 1..n : j = k + 1 /\ j - 1 = k /\ j \in 0..n  OBVIOUS
    <2>2. Ranked(f[j - 1], j - 1)  BY <1>15, <2>1
    <2>3. Ranked(f[j], j)  BY <1>14, <2>2
    <2> QED  BY <2>1, <2>3
  <1>16. T = 0..n
    <2>1. T \in SUBSET (0..n)  OBVIOUS
    <2> HIDE DEF T
    <2> QED  BY <1>13, <1>15, <2>1, UpTo
  <1>17. \A k \in 0..n : Ranked(f[k], k)  BY <1>16
  <1>18. \A k \in 1..n : f[k] = Next1(k, f[k - 1])
    <2> TAKE k \in 1..n
    <2>1. k - 1 \in 0..n  OBVIOUS
    <2>2. Ranked(f[k - 1], k - 1)  BY <1>17, <2>1
    <2> QED  BY <1>14, <2>2
  <1> HIDE DEF T
  <1>19. Fits1(f)
    <2>1. ASSUME NEW i \in 0..n  PROVE f[i] = IF i = 0 THEN <<>> ELSE Next1(i, f[i - 1])
      <3>1. CASE i = 0  BY <1>9, <1>12, <3>1
      <3>2. CASE i # 0
        <4>1. i \in 1..n  BY <3>2
        <4> QED  BY <1>18, <3>2, <4>1
      <3> QED  BY <3>1, <3>2
    <2> QED  BY <2>1
  <1>20. PICK d : d = CHOOSE h : Fits1(h)  OBVIOUS
  <1>21. Fits1(d)
    <2> HIDE DEF Fits1
    <2> QED  BY <1>19, <1>20
  <1>22. \A i \in 0..n : d[i] = IF i = 0 THEN <<>> ELSE Next1(i, d[i - 1])  BY <1>21
  <1> DEFINE U == {k \in 0..n : d[k] = f[k]}
  <1>23. U = 0..n
    <2>1. 0 \in U  BY <1>9, <1>12, <1>22
    <2>2. ASSUME NEW k \in 0..n - 1, k \in U  PROVE k + 1 \in U
      <3>1. PICK j \in 1..n : j = k + 1 /\ j - 1 = k  OBVIOUS
      <3>2. j \in 0..n /\ j # 0 /\ d[j - 1] = f[j - 1]  BY <2>2, <3>1
      <3>3. d[j] = Next1(j, d[j - 1])  BY <1>22, <3>2
      <3>4. f[j] = Next1(j, f[j - 1])  BY <1>18
      <3>5. d[j] = f[j]  BY <3>2, <3>3, <3>4
      <3> QED  BY <3>1, <3>2, <3>5
    <2>3. U \in SUBSET (0..n)  OBVIOUS
    <2> HIDE DEF U
    <2> QED  BY <2>1, <2>2, <2>3, UpTo
  <1>24. d[n] = f[n]
    <2>1. n \in 0..n  OBVIOUS
    <2>2. n \in U  BY <1>23, <2>1, Zenon
    <2> QED  BY <2>2
  <1>25. Turns(f[n], n)
    <2>1. Ranked(f[n], n)  BY <1>17
    <2> QED  BY <2>1, RankedTurns
  <1> HIDE DEF Fits1
  <1> QED  BY <1>1, <1>20, <1>24, <1>25

\* The order of a ufunc's output is a permutation of the axes.
LEMMA UfuncPermTurns ==
  ASSUME NEW n \in Nat, NEW order \in {"C", "F", "A", "K"}, NEW operands
  PROVE  Turns(ufunc_perm(n, order, operands), n)
  <1>1. PICK c, f, m, q : /\ c = Identity(n) /\ f = Reversal(n)
                          /\ m = multi_sorted_stride_perm(n, operands)
                          /\ q = ufunc_perm(n, order, operands)
    OBVIOUS
  <1>2. Turns(c, n) /\ Turns(f, n)  BY <1>1, IdentityTurns
  <1>3. Turns(m, n)  BY <1>1, MultiSortedTurns
  <1>4. q = c \/ q = f \/ q = m  BY <1>1 DEF ufunc_perm
  <1> QED  BY <1>1, <1>2, <1>3, <1>4

\* Elementwise operations.
LEMMA BinaryLaid ==
  ASSUME NEW a, Laid(a), NEW b, Laid(b), NEW order \in {"C", "F", "A", "K"}
  PROVE  Sound(binary_op(a, b, order))
  <1>1. PICK shape : shape = broadcast_shapes(<<a.shape, b.shape>>)  OBVIOUS
  <1>2. PICK q : q = ufunc_perm(Len(shape), order, <<a, b>>)  OBVIOUS
  <1>3. \/ binary_op(a, b, order) = Raised
        \/ \E vals : binary_op(a, b, order) = relayout_by_perm(from_buffer(vals, shape, "C"), q) /\ shape # Raised
    BY <1>1, <1>2, Zenon DEF binary_op
  <1>4. ASSUME shape # Raised, NEW vals
        PROVE  Laid(relayout_by_perm(from_buffer(vals, shape, "C"), q))
    <2>1. a.shape \in Seq(Nat)  BY LaidIs
    <2>2. b.shape \in Seq(Nat)  BY LaidIs
    <2>3. shape \in Seq(Nat)  BY <1>1, <1>4, <2>1, <2>2, BroadcastTwo
    <2>4. PICK r : r = from_buffer(vals, shape, "C")  OBVIOUS
    <2>5. Laid(r) /\ r.shape = shape  BY <2>3, <2>4, FromBufferLaid
    <2>6. Len(shape) \in Nat  BY <2>3
    <2>7. Turns(q, Len(r.shape))  BY <1>2, <2>5, <2>6, UfuncPermTurns
    <2>8. Good(relayout_by_perm(r, q))  BY <2>5, <2>7, RelayoutIs
    <2> QED  BY <2>4, <2>8 DEF Good
  <1> QED  BY <1>3, <1>4 DEF Sound

----------------------------------------------------------------------------
(* Arguments.                                                                 *)

\* A call leaves r, or the array as it was.
After(r) == arr' = IF r = Raised THEN arr ELSE r

\* What a call leaves behind.
LEMMA DoIs ==
  ASSUME NEW c, NEW r, Do(c, r)
  PROVE  After(r)
  BY DEF Do, After

\* A call with a sound result keeps the invariant.
LEMMA AfterLaid ==
  ASSUME Laid(arr), NEW r, Sound(r), After(r)
  PROVE  Laid(arr')
  <1>1. CASE r = Raised  BY <1>1 DEF After
  <1>2. CASE r # Raised
    <2>1. arr' = r  BY <1>2 DEF After
    <2>2. Laid(r)  BY <1>2 DEF Sound
    <2> QED  BY <2>1, <2>2
  <1> QED  BY <1>1, <1>2

\* Short shapes.
LEMMA ShortShapes ==
  ASSUME NEW x \in Nat, NEW y \in Nat, NEW z \in Nat, NEW w \in Nat
  PROVE  /\ <<>> \in Seq(Nat) /\ <<x>> \in Seq(Nat) /\ <<x, y>> \in Seq(Nat)
         /\ <<x, y, z>> \in Seq(Nat) /\ <<x, y, z, w>> \in Seq(Nat)
  OBVIOUS

\* Shapes with one more axis, and reversed ones.
LEMMA RowIs ==
  ASSUME NEW s \in Seq(Nat)
  PROVE  Row(s) \in Seq(Nat) /\ Column(s) \in Seq(Nat) /\ Reverse(s) \in Seq(Nat)
  <1>1. Row(s) \in Seq(Nat)
    <2>1. CASE s = <<>>  BY <2>1 DEF Row
    <2>2. CASE s # <<>>
      <3>1. Len(s) \in 1..Len(s)  BY <2>2
      <3>2. PICK x \in Nat : x = s[Len(s)]  BY <3>1
      <3>3. Row(s) = <<x>>  BY <2>2, <3>2 DEF Row
      <3> QED  BY <3>3
    <2> QED  BY <2>1, <2>2
  <1>2. Column(s) \in Seq(Nat)
    <2>1. CASE Len(s) = 2
      <3>1. PICK x, y \in Nat : x = s[1] /\ y = 1  BY <2>1
      <3>2. Column(s) = <<x, y>>  BY <2>1, <3>1 DEF Column
      <3> QED  BY <3>2
    <2>2. CASE Len(s) # 2  BY <2>2 DEF Column
    <2> QED  BY <2>1, <2>2
  <1>3. Reverse(s) \in Seq(Nat)
    <2>1. PICK n \in Nat : n = Len(s) /\ DOMAIN s = 1..n  OBVIOUS
    <2>2. Reverse(s) = [i \in 1..n |-> s[(n - i) + 1]]  BY <2>1 DEF Reverse
    <2>3. \A i \in 1..n : s[(n - i) + 1] \in Nat
      <3> TAKE i \in 1..n
      <3>1. (n - i) + 1 \in 1..n  OBVIOUS
      <3> QED  BY <2>1, <3>1
    <2>4. PICK q : q = Reverse(s)  OBVIOUS
    <2>5. q \in [1..n -> Nat]  BY <2>2, <2>3, <2>4
    <2>6. PICK V : V = Nat  OBVIOUS
    <2>7. q \in [1..n -> V]  BY <2>5, <2>6
    <2>8. q \in Seq(V)  BY <2>7, Enlisted
    <2> QED  BY <2>4, <2>6, <2>8
  <1> QED  BY <1>1, <1>2, <1>3

\* Two shapes joined.
LEMMA JoinedShape ==
  ASSUME NEW s \in Seq(Nat), NEW t \in Seq(Nat)
  PROVE  s \o t \in Seq(Nat)
  <1>1. PICK V : V = Nat  OBVIOUS
  <1>2. s \in Seq(V)  BY <1>1
  <1>3. t \in Seq(V)  BY <1>1
  <1>4. s \o t \in Seq(V)  BY <1>2, <1>3, Joins
  <1> QED  BY <1>1, <1>4

\* The operands that the calls use.
LEMMA OtherLaid ==
  ASSUME NEW shape \in Seq(Nat), NEW order
  PROVE  Laid(Other(shape, order))
  BY FromBufferLaid DEF Other

\* The shapes that the calls ask for.
LEMMA NewShapesAre ==
  ASSUME NEW s \in Seq(Nat), NEW shape, shape \in NewShapes, arr.shape = s
  PROVE  shape \in Seq(Nat)
  <1>1. PICK n \in Nat : n = Size(s)  BY SizeIs
  <1>2. PICK k0, k1, k2 \in Nat : k0 = 0 /\ k1 = 1 /\ k2 = 2  OBVIOUS
  <1>3. \/ shape = <<n>> \/ shape = s \/ shape = Reverse(s)
        \/ \E x, y \in 1..4 : shape = <<x, y>>
        \/ \E x, y \in {1, 2, 3} : shape = <<2, x, y>>
        \/ shape = <<0, 2>> \/ shape = <<>> \/ shape = <<1, n, 1>>
    BY <1>1 DEF NewShapes
  <1>4. <<n>> \in Seq(Nat) /\ <<k1, n, k1>> \in Seq(Nat) /\ <<k0, k2>> \in Seq(Nat) /\ <<>> \in Seq(Nat)
    BY ShortShapes
  <1>5. \A x, y \in 1..4 : <<x, y>> \in Seq(Nat)
    <2> TAKE x, y \in 1..4
    <2>1. x \in Nat /\ y \in Nat  OBVIOUS
    <2> QED  BY <2>1, ShortShapes
  <1>6. \A x, y \in {1, 2, 3} : <<k2, x, y>> \in Seq(Nat)
    <2> TAKE x, y \in {1, 2, 3}
    <2>1. x \in Nat /\ y \in Nat  OBVIOUS
    <2> QED  BY <2>1, ShortShapes
  <1>7. Reverse(s) \in Seq(Nat)  BY RowIs
  <1> QED  BY <1>2, <1>3, <1>4, <1>5, <1>6, <1>7

----------------------------------------------------------------------------
(* Calls about layout and axes.                                               *)

\* Reshape keeps the invariant.
LEMMA ReshapeStep ==
  ASSUME Laid(arr), Reshape
  PROVE  Laid(arr')
  <1>1. PICK a, s : a = arr /\ s = arr.shape  OBVIOUS
  <1>2. PICK shape \in NewShapes, order \in Orders : After(reshape(arr, shape, order))  BY DoIs DEF Reshape
  <1>3. s \in Seq(Nat)  BY <1>1, LaidIs
  <1>4. shape \in Seq(Nat)  BY <1>1, <1>3, NewShapesAre
  <1>5. Sound(reshape(arr, shape, order))  BY <1>4, ReshapeLaid
  <1> QED  BY <1>2, <1>5, AfterLaid

\* Ravel keeps the invariant.
LEMMA RavelStep ==
  ASSUME Laid(arr), Ravel
  PROVE  Laid(arr')
  <1>1. PICK order \in {"C", "F", "A", "K"} : After(ravel_order(arr, order))  BY DoIs DEF Ravel, Orders
  <1>2. Sound(ravel_order(arr, order))  BY CopyLaid DEF Sound
  <1> QED  BY <1>1, <1>2, AfterLaid

\* Copy keeps the invariant.
LEMMA CopyStep ==
  ASSUME Laid(arr), Copy
  PROVE  Laid(arr')
  <1>1. PICK order \in {"C", "F", "A", "K"} : After(to_contiguous_order(arr, order))  BY DoIs DEF Copy, Orders
  <1>2. Sound(to_contiguous_order(arr, order))  BY CopyLaid DEF Sound
  <1> QED  BY <1>1, <1>2, AfterLaid

\* Transpose keeps the invariant.
LEMMA TransposeStep ==
  ASSUME Laid(arr), Transpose
  PROVE  Laid(arr')
  <1>1. PICK n \in Nat : n = Len(arr.shape)  BY LaidIs
  <1>2. PICK perm \in Perms(n) : After(IF perm = Reversal(n) THEN transpose(arr) ELSE transpose_axes(arr, perm))
    BY <1>1, DoIs DEF Transpose, Rank
  <1>3. Lists(perm, n, n)  BY <1>2 DEF Perms, Lists
  <1>4. Laid(transpose_axes(arr, perm))  BY <1>1, <1>3, TransposeLaid
  <1>5. Laid(transpose(arr))  BY TransposeIs
  <1>6. Sound(IF perm = Reversal(n) THEN transpose(arr) ELSE transpose_axes(arr, perm))
    BY <1>4, <1>5 DEF Sound
  <1> QED  BY <1>2, <1>6, AfterLaid

\* SwapAxes keeps the invariant.
LEMMA SwapAxesStep ==
  ASSUME Laid(arr), SwapAxes
  PROVE  Laid(arr')
  <1>1. PICK d, e \in DOMAIN arr.shape : After(swapaxes(arr, d, e))  BY DoIs DEF SwapAxes, Axes
  <1>2. Sound(swapaxes(arr, d, e))  BY SwapAxesLaid DEF Sound
  <1> QED  BY <1>1, <1>2, AfterLaid

\* MoveAxis keeps the invariant.
LEMMA MoveAxisStep ==
  ASSUME Laid(arr), MoveAxis
  PROVE  Laid(arr')
  <1>1. PICK n \in 1..2 : \E source, destination \in [1..n -> DOMAIN arr.shape] :
            /\ IsInjective(source) /\ IsInjective(destination)
            /\ After(moveaxis(arr, source, destination))
    BY DoIs DEF MoveAxis, Axes
  <1>2. PICK m \in Nat : m = n  OBVIOUS
  <1>3. PICK source, destination \in [1..m -> DOMAIN arr.shape] :
            /\ IsInjective(source) /\ IsInjective(destination)
            /\ After(moveaxis(arr, source, destination))
    BY <1>1, <1>2
  <1>4. Sound(moveaxis(arr, source, destination))  BY <1>3, MoveAxisLaid DEF Sound
  <1> QED  BY <1>3, <1>4, AfterLaid

\* RollAxis keeps the invariant.
LEMMA RollAxisStep ==
  ASSUME Laid(arr), RollAxis
  PROVE  Laid(arr')
  <1>1. PICK n \in Nat : n = Len(arr.shape)  BY LaidIs
  <1>2. PICK axis \in -n..n, start \in -n..n + 1 : After(rollaxis(arr, axis, start))
    BY <1>1, DoIs DEF RollAxis, Rank
  <1>3. axis \in Int /\ start \in Int  BY <1>1, <1>2
  <1>4. Sound(rollaxis(arr, axis, start))  BY <1>3, RollAxisLaid
  <1> QED  BY <1>2, <1>4, AfterLaid

\* Squeeze keeps the invariant.
LEMMA SqueezeStep ==
  ASSUME Laid(arr), Squeeze
  PROVE  Laid(arr')
  <1>1. PICK axes : After(squeeze(arr, axes))  BY DoIs DEF Squeeze
  <1>2. Sound(squeeze(arr, axes))  BY SqueezeLaid
  <1> QED  BY <1>1, <1>2, AfterLaid

\* ExpandDims keeps the invariant.
LEMMA ExpandDimsStep ==
  ASSUME Laid(arr), ExpandDims
  PROVE  Laid(arr')
  <1>1. PICK n \in Nat : n = Len(arr.shape)  BY LaidIs
  <1>2. PICK at \in SUBSET (1..n + 2) : \/ After(expand_dims(arr, at))
                                        \/ After(insert_newaxis(arr, at))
    BY <1>1, DoIs DEF ExpandDims, Rank
  <1>3. Fresher(at)
    <2>1. PICK m \in Nat : m = n + 2  BY <1>1
    <2>2. at \in SUBSET (1..m)  BY <1>2, <2>1
    <2>3. IsFiniteSet(1..m)  BY IntervalFinite
    <2>4. IsFiniteSet(at)  BY <2>2, <2>3, FS_Subset
    <2> QED  BY <2>2, <2>4 DEF Fresher
  <1>4. Sound(expand_dims(arr, at))  BY <1>3, ExpandDimsLaid
  <1>5. Sound(insert_newaxis(arr, at))  BY <1>3, NewAxisLaid
  <1>6. CASE After(expand_dims(arr, at))  BY <1>4, <1>6, AfterLaid
  <1>7. CASE After(insert_newaxis(arr, at))  BY <1>5, <1>7, AfterLaid
  <1> QED  BY <1>2, <1>6, <1>7

\* Flip keeps the invariant.
LEMMA FlipStep ==
  ASSUME Laid(arr), Flip
  PROVE  Laid(arr')
  <1>1. PICK axes : After(flip(arr, axes))  BY DoIs DEF Flip
  <1>2. Sound(flip(arr, axes))  BY FlipLaid DEF Sound
  <1> QED  BY <1>1, <1>2, AfterLaid

\* Rot90 keeps the invariant.
LEMMA Rot90Step ==
  ASSUME Laid(arr), Rot90
  PROVE  Laid(arr')
  <1>1. PICK d, e \in DOMAIN arr.shape, k \in -1..4 : After(rot90(arr, k, d, e))  BY DoIs DEF Rot90, Axes
  <1>2. k \in Int  BY <1>1
  <1>3. Sound(rot90(arr, k, d, e))  BY <1>2, Rot90Laid DEF Sound
  <1> QED  BY <1>1, <1>3, AfterLaid

\* BroadcastTo keeps the invariant.
LEMMA BroadcastToStep ==
  ASSUME Laid(arr), BroadcastTo
  PROVE  Laid(arr')
  <1>1. PICK s \in Seq(Nat) : s = arr.shape  BY LaidIs
  <1>2. PICK shape \in {<<2>> \o s, [d \in DOMAIN s |-> Max({2, s[d]})], <<3>>} : After(broadcast_to(arr, shape))
    BY <1>1, DoIs DEF BroadcastTo, Axes
  <1>3. PICK k2, k3 \in Nat : k2 = 2 /\ k3 = 3  OBVIOUS
  <1>4. PICK u : u = <<k2>>  OBVIOUS
  <1>5. u \in Seq(Nat) /\ <<k3>> \in Seq(Nat)  BY <1>4
  <1>6. u \o s \in Seq(Nat)  BY <1>5, JoinedShape
  <1>7. PICK f : f = [d \in DOMAIN s |-> Max({2, s[d]})]  OBVIOUS
  <1>8. f \in Seq(Nat)
    <2>1. PICK n \in Nat : n = Len(s) /\ DOMAIN s = 1..n  OBVIOUS
    <2>2. \A d \in 1..n : Max({2, s[d]}) \in Nat
      <3> TAKE d \in 1..n
      <3>1. PICK x, y \in Int : x = 2 /\ y = s[d] /\ y >= 0  BY <2>1
      <3>2. Max({x, y}) = IF x >= y THEN x ELSE y  BY MinMaxTwo
      <3> QED  BY <3>1, <3>2
    <2>3. f \in [1..n -> Nat]  BY <1>7, <2>1, <2>2
    <2>4. PICK V : V = Nat  OBVIOUS
    <2>5. f \in [1..n -> V]  BY <2>3, <2>4
    <2>6. f \in Seq(V)  BY <2>5, Enlisted
    <2> QED  BY <2>4, <2>6
  <1>9. shape \in Seq(Nat)  BY <1>2, <1>3, <1>4, <1>5, <1>6, <1>7, <1>8
  <1>10. Sound(broadcast_to(arr, shape))  BY <1>9, BroadcastLaid DEF Sound
  <1> QED  BY <1>2, <1>10, AfterLaid

----------------------------------------------------------------------------
(* Keys.                                                                      *)

\* Key items of every kind have known uses of axes.
LEMMA ItemsLegal ==
  /\ \A i \in Int : Legal(Index(i))
  /\ \A start, stop, step \in Int \cup {None} : Legal(Slice(start, stop, step))
  /\ Legal(NewAxis) /\ Legal(Ellipsis) /\ Legal(FullSlice)
  /\ \A s \in Seq(Nat) : \A v : Legal(Ints(s, v)) /\ Legal(Mask(s, v)) /\ Legal(EveryOther(s))
  <1>1. ASSUME NEW i \in Int  PROVE Legal(Index(i))  BY DEF Legal, Index
  <1>2. ASSUME NEW start \in Int \cup {None}, NEW stop \in Int \cup {None}, NEW step \in Int \cup {None}
        PROVE  Legal(Slice(start, stop, step))
    BY DEF Legal, Slice
  <1>3. Legal(NewAxis) /\ Legal(Ellipsis)  BY DEF Legal, NewAxis, Ellipsis
  <1>4. Legal(FullSlice)  BY DEF Legal, FullSlice
  <1>5. ASSUME NEW s \in Seq(Nat), NEW v  PROVE Legal(Ints(s, v))  BY DEF Legal, Ints
  <1>6. ASSUME NEW s \in Seq(Nat), NEW v  PROVE Legal(Mask(s, v))  BY DEF Legal, Mask
  <1>7. ASSUME NEW s \in Seq(Nat)  PROVE Legal(EveryOther(s))  BY <1>6 DEF EveryOther
  <1> QED  BY <1>1, <1>2, <1>3, <1>4, <1>5, <1>6, <1>7

\* Sequences of some of these.
LEMMA ShortKeys ==
  ASSUME NEW V, NEW x \in V, NEW y \in V, NEW z \in V, NEW w \in V
  PROVE  /\ <<>> \in Seq(V) /\ <<x>> \in Seq(V) /\ <<x, y>> \in Seq(V)
         /\ <<x, y, z>> \in Seq(V) /\ <<x, y, z, w>> \in Seq(V)
  OBVIOUS

\* A key of items that are legal.
KeyOf(key) == \E V : Words(V) /\ key \in Seq(V)

\* Short keys of such items.
LEMMA KeysOf ==
  ASSUME NEW x, NEW y, NEW z, NEW w, Legal(x), Legal(y), Legal(z), Legal(w)
  PROVE  KeyOf(<<>>) /\ KeyOf(<<x>>) /\ KeyOf(<<x, y>>) /\ KeyOf(<<x, y, z>>) /\ KeyOf(<<x, y, z, w>>)
  <1>1. PICK f : f = FullSlice  OBVIOUS
  <1>2. Legal(f)  BY <1>1, ItemsLegal
  <1>3. PICK V : V = {x, y, z, w, f}  OBVIOUS
  <1>4. Words(V)  BY <1>1, <1>2, <1>3 DEF Words
  <1>5. x \in V /\ y \in V /\ z \in V /\ w \in V  BY <1>3
  <1>6. /\ <<>> \in Seq(V) /\ <<x>> \in Seq(V) /\ <<x, y>> \in Seq(V)
        /\ <<x, y, z>> \in Seq(V) /\ <<x, y, z, w>> \in Seq(V)
    BY <1>5, ShortKeys
  <1> QED  BY <1>4, <1>6 DEF KeyOf

\* The items that the calls use.
LEMMA ConstantsLegal ==
  /\ Legal(Ints(<<2>>, <<0, -1>>)) /\ Legal(Ints(<<2, 1>>, <<1, 0>>)) /\ Legal(Ints(<<>>, <<1>>))
  /\ Legal(Ints(<<2>>, <<1, 0>>)) /\ Legal(EveryOther(<<2>>)) /\ Legal(EveryOther(<<3>>))
  /\ Legal(Mask(<<>>, <<TRUE>>)) /\ Legal(Index(0)) /\ Legal(Index(-1)) /\ Legal(Index(1))
  /\ Legal(Slice(None, None, -1)) /\ Legal(Slice(1, None, None)) /\ Legal(Slice(None, None, 2))
  <1>1. PICK s0, s2, s3, s21 : s0 = <<>> /\ s2 = <<2>> /\ s3 = <<3>> /\ s21 = <<2, 1>>  OBVIOUS
  <1>2. PICK k1, k2, k3 \in Nat : k1 = 1 /\ k2 = 2 /\ k3 = 3  OBVIOUS
  <1>3. s0 \in Seq(Nat) /\ s2 \in Seq(Nat) /\ s3 \in Seq(Nat) /\ s21 \in Seq(Nat)
    <2>1. <<>> \in Seq(Nat) /\ <<k2>> \in Seq(Nat) /\ <<k3>> \in Seq(Nat) /\ <<k2, k1>> \in Seq(Nat)
      BY ShortShapes
    <2> QED  BY <1>1, <1>2, <2>1
  <1>4. Legal(Ints(s2, <<0, -1>>)) /\ Legal(Ints(s21, <<1, 0>>)) /\ Legal(Ints(s0, <<1>>)) /\ Legal(Ints(s2, <<1, 0>>))
    BY <1>3, ItemsLegal
  <1>5. Legal(EveryOther(s2)) /\ Legal(EveryOther(s3))  BY <1>3, ItemsLegal
  <1>6. PICK v : v = <<TRUE>>  BY Zenon
  <1>7. Legal(Mask(s0, v))  BY <1>3, ItemsLegal
  <1>8. PICK i0, i1, i2, im \in Int : i0 = 0 /\ i1 = 1 /\ i2 = 2 /\ im = -1  OBVIOUS
  <1>9. Legal(Index(i0)) /\ Legal(Index(im)) /\ Legal(Index(i1))  BY ItemsLegal
  <1>10. PICK n \in Int \cup {None} : n = None  OBVIOUS
  <1>11. Legal(Slice(n, n, im)) /\ Legal(Slice(i1, n, n)) /\ Legal(Slice(n, n, i2))
    <2>1. im \in Int \cup {None} /\ i1 \in Int \cup {None} /\ i2 \in Int \cup {None}  OBVIOUS
    <2> QED  BY <2>1, ItemsLegal
  <1>12. Legal(Mask(<<>>, <<TRUE>>))  BY <1>1, <1>6, <1>7, Zenon
  <1>13. Legal(Slice(None, None, -1)) /\ Legal(Slice(1, None, None)) /\ Legal(Slice(None, None, 2))
    BY <1>8, <1>10, <1>11
  <1>14. Legal(Index(0)) /\ Legal(Index(-1)) /\ Legal(Index(1))  BY <1>8, <1>9
  <1> QED  BY <1>1, <1>4, <1>5, <1>12, <1>13, <1>14

\* ... as a set.
LEMMA SomeItemsLegal ==
  \A x \in SomeItems : Legal(x)
  BY ConstantsLegal, ItemsLegal, Zenon DEF SomeItems

\* Keys of slices.
LEMMA SliceKeysAre ==
  \A key \in SliceKeys : KeyOf(key)
  <1> TAKE key \in SliceKeys
  <1>1. PICK start \in Bounds, stop \in Bounds, step \in {None, -2, -1, 2, 0} :
            key = <<Slice(start, stop, step)>>
    BY DEF SliceKeys
  <1>2. start \in Int \cup {None} /\ stop \in Int \cup {None} /\ step \in Int \cup {None}  BY <1>1 DEF Bounds
  <1>3. PICK x : x = Slice(start, stop, step)  OBVIOUS
  <1>4. Legal(x)  BY <1>2, <1>3, ItemsLegal
  <1>5. KeyOf(<<x>>)  BY <1>4, KeysOf
  <1> QED  BY <1>1, <1>3, <1>5

\* All keys of the calls.
LEMMA KeysAre ==
  ASSUME Laid(arr), NEW key, key \in Keys
  PROVE  KeyOf(key)
  <1>1. PICK I2 : I2 = {Index(-1), Slice(None, None, -1), NewAxis, Ints(<<2>>, <<0, -1>>), EveryOther(<<3>>)}
    BY Zenon
  <1>2. PICK I3 : I3 = {Ints(<<2>>, <<0, -1>>), Ints(<<>>, <<1>>), Index(1)}  BY Zenon
  <1>3. PICK I4 : I4 = {FullSlice, Index(0), NewAxis, Ellipsis, EveryOther(<<2>>)}  BY Zenon
  <1>4. PICK I5 : I5 = {NewAxis, FullSlice}  BY Zenon
  <1>5. PICK I6 : I6 = {NewAxis, FullSlice, Ints(<<>>, <<1>>)}  BY Zenon
  <1>6. PICK u, v, e, m : /\ u = Ints(<<2>>, <<0, -1>>) /\ v = Ints(<<2>>, <<1, 0>>) /\ e = EveryOther(arr.shape)
                          /\ m = Mask(<<>>, <<TRUE>>)
    BY Zenon
  <1>7. \A x \in I2 : Legal(x)  BY <1>1, ConstantsLegal, ItemsLegal, Zenon
  <1>8. \A x \in I3 : Legal(x)  BY <1>2, ConstantsLegal, ItemsLegal, Zenon
  <1>9. \A x \in I4 : Legal(x)  BY <1>3, ConstantsLegal, ItemsLegal, Zenon
  <1>10. \A x \in I5 : Legal(x)  BY <1>4, ConstantsLegal, ItemsLegal, Zenon
  <1>11. \A x \in I6 : Legal(x)  BY <1>5, ConstantsLegal, ItemsLegal, Zenon
  <1>12. Legal(u) /\ Legal(v) /\ Legal(m)  BY <1>6, ConstantsLegal, Zenon
  <1>13. Legal(e)
    <2>1. PICK s \in Seq(Nat) : s = arr.shape  BY LaidIs
    <2>2. Legal(EveryOther(s))  BY ItemsLegal
    <2> QED  BY <1>6, <2>1, <2>2
  <1>14. \/ key \in SliceKeys
         \/ \E x \in SomeItems : key = <<x>>
         \/ \E x \in SomeItems, y \in I2 : key = <<x, y>>
         \/ \E x \in I3, z \in I3, y \in I4 : key = <<x, y, z>>
         \/ \E x \in I5, y \in I6 : key = <<x, u, y, v>>
         \/ key = <<e>> \/ key = <<m>> \/ key = <<>>
    BY <1>1, <1>2, <1>3, <1>4, <1>5, <1>6 DEF Keys
  <1>15. CASE key \in SliceKeys  BY <1>15, SliceKeysAre
  <1>16. ASSUME NEW x \in SomeItems  PROVE KeyOf(<<x>>)  BY SomeItemsLegal, KeysOf
  <1>17. ASSUME NEW x \in SomeItems, NEW y \in I2  PROVE KeyOf(<<x, y>>)
    <2>1. Legal(x) /\ Legal(y)  BY <1>7, SomeItemsLegal
    <2> QED  BY <2>1, KeysOf
  <1>18. ASSUME NEW x \in I3, NEW z \in I3, NEW y \in I4  PROVE KeyOf(<<x, y, z>>)
    <2>1. Legal(x) /\ Legal(y) /\ Legal(z)  BY <1>8, <1>9
    <2> QED  BY <2>1, KeysOf
  <1>19. ASSUME NEW x \in I5, NEW y \in I6  PROVE KeyOf(<<x, u, y, v>>)
    <2>1. Legal(x) /\ Legal(y) /\ Legal(u) /\ Legal(v)  BY <1>10, <1>11, <1>12
    <2> QED  BY <2>1, KeysOf
  <1>20. KeyOf(<<e>>) /\ KeyOf(<<m>>) /\ KeyOf(<<>>)  BY <1>12, <1>13, KeysOf
  <1> QED  BY <1>14, <1>15, <1>16, <1>17, <1>18, <1>19, <1>20

\* GetItem keeps the invariant.
LEMMA GetItemStep ==
  ASSUME Laid(arr), GetItem
  PROVE  Laid(arr')
  <1>1. PICK key \in Keys : After(getitem(arr, key))  BY DoIs DEF GetItem
  <1>2. KeyOf(key)  BY <1>1, KeysAre
  <1>3. PICK V : Words(V) /\ key \in Seq(V)  BY <1>2 DEF KeyOf
  <1>4. Sound(getitem(arr, key))  BY <1>3, GetItemLaid
  <1> QED  BY <1>1, <1>4, AfterLaid

\* SetItem keeps the invariant.
LEMMA SetItemStep ==
  ASSUME Laid(arr), SetItem
  PROVE  Laid(arr')
  <1>1. PICK key, values : After(setitem(arr, key, values))  BY DoIs DEF SetItem
  <1>2. Sound(setitem(arr, key, values))  BY SetItemLaid
  <1> QED  BY <1>1, <1>2, AfterLaid

----------------------------------------------------------------------------
(* Joining, cutting, placing.                                                 *)

\* The axes that the calls ask for.
LEMMA SomeAxesAre ==
  \A axis \in SomeAxes : axis \in Int \cup {None}
  BY DEF SomeAxes

\* Two operands.
LEMMA PairArrays ==
  ASSUME NEW a, Laid(a), NEW b, Laid(b)
  PROVE  \E m \in Nat \ {0} : Arrays(<<a, b>>, m)
  <1>1. PICK m \in Nat \ {0} : m = 2  OBVIOUS
  <1>2. PICK s : s = <<a, b>>  OBVIOUS
  <1>3. DOMAIN s = 1..m /\ s[1] = a /\ s[2] = b  BY <1>1, <1>2
  <1>4. \A i \in 1..m : i = 1 \/ i = 2  BY <1>1
  <1>5. Arrays(s, m)  BY <1>3, <1>4 DEF Arrays
  <1> QED  BY <1>2, <1>5

\* Concatenate keeps the invariant.
LEMMA ConcatenateStep ==
  ASSUME Laid(arr), Concatenate
  PROVE  Laid(arr')
  <1>1. PICK s \in Seq(Nat) : s = arr.shape  BY LaidIs
  <1>2. PICK axis \in SomeAxes, order \in {"C", "F"}, shape \in {s, Reverse(s), Row(s)} :
            After(concatenate(<<arr, Other(shape, order)>>, axis))
    BY <1>1, DoIs DEF Concatenate
  <1>3. shape \in Seq(Nat)  BY <1>2, RowIs
  <1>4. Laid(Other(shape, order))  BY <1>3, OtherLaid
  <1>5. PICK m \in Nat \ {0} : Arrays(<<arr, Other(shape, order)>>, m)  BY <1>4, PairArrays
  <1>6. Sound(concatenate(<<arr, Other(shape, order)>>, axis))  BY <1>5, ConcatenateLaid
  <1> QED  BY <1>2, <1>6, AfterLaid

\* Stack keeps the invariant.
LEMMA StackStep ==
  ASSUME Laid(arr), Stack
  PROVE  Laid(arr')
  <1>1. PICK s \in Seq(Nat) : s = arr.shape  BY LaidIs
  <1>2. PICK axis \in {0, -1, 1, 3}, shape \in {s, Row(s)} : After(stack(<<arr, Other(shape, "F")>>, axis))
    BY <1>1, DoIs DEF Stack
  <1>3. shape \in Seq(Nat)  BY <1>2, RowIs
  <1>4. Laid(Other(shape, "F"))  BY <1>3, OtherLaid
  <1>5. PICK m \in Nat \ {0} : Arrays(<<arr, Other(shape, "F")>>, m)  BY <1>4, PairArrays
  <1>6. axis \in Int  BY <1>2
  <1>7. Sound(stack(<<arr, Other(shape, "F")>>, axis))  BY <1>5, <1>6, StackLaid
  <1> QED  BY <1>2, <1>7, AfterLaid

\* ArraySplit keeps the invariant.
LEMMA ArraySplitStep ==
  ASSUME Laid(arr), ArraySplit
  PROVE  Laid(arr')
  <1>1. PICK axis \in {0, -1, 3}, sections \in 0..4, indices \in {None, <<1>>, <<2, 1>>, <<-1>>, <<9>>} :
            LET r == array_split(arr, sections, indices, axis)
                c(i) == [op |-> "array_split", axis |-> axis, sections |-> sections, indices |-> indices,
                         piece |-> i]
            IN  /\ indices # None => sections = 0
                /\ IF r = Raised THEN Do(c(1), Raised) ELSE \E i \in DOMAIN r : Do(c(i), r[i])
    BY Zenon DEF ArraySplit
  <1>2. PICK r : r = array_split(arr, sections, indices, axis)  OBVIOUS
  <1> DEFINE c(i) == [op |-> "array_split", axis |-> axis, sections |-> sections, indices |-> indices, piece |-> i]
  <1>7. IF r = Raised THEN Do(c(1), Raised) ELSE \E i \in DOMAIN r : Do(c(i), r[i])  BY <1>1, <1>2, Zenon
  <1> HIDE DEF c
  <1>3. indices \in Seq(Int) \cup {None}
    <2>1. PICK k1, k2, km, k9 \in Int : k1 = 1 /\ k2 = 2 /\ km = -1 /\ k9 = 9  OBVIOUS
    <2>2. <<k1>> \in Seq(Int) /\ <<k2, k1>> \in Seq(Int) /\ <<km>> \in Seq(Int) /\ <<k9>> \in Seq(Int)
      OBVIOUS
    <2> QED  BY <1>1, <2>1, <2>2
  <1>4. axis \in Int /\ sections \in Int  BY <1>1
  <1>5. CASE r = Raised
    <2>1. After(Raised)  BY <1>5, <1>7, DoIs
    <2>2. arr' = arr  BY <2>1 DEF After
    <2> QED  BY <2>2
  <1>6. CASE r # Raised
    <2>1. PICK i \in DOMAIN r : After(r[i])  BY <1>6, <1>7, DoIs
    <2>2. Sound(r[i])  BY <1>2, <1>3, <1>4, <1>6, SplitSound
    <2> QED  BY <2>1, <2>2, AfterLaid
  <1> QED  BY <1>5, <1>6

\* Roll keeps the invariant.
LEMMA RollStep ==
  ASSUME Laid(arr), Roll
  PROVE  Laid(arr')
  <1>1. PICK shift, axes : After(roll(arr, shift, axes))  BY DoIs DEF Roll
  <1>2. Sound(roll(arr, shift, axes))  BY RollLaid
  <1> QED  BY <1>1, <1>2, AfterLaid

\* The repetitions and shapes that the calls ask for.
LEMMA SmallCounts ==
  /\ \A reps \in {<<>>, <<2>>, <<0>>, <<1>>, <<2, 1>>, <<1, 2>>, <<2, 1, 1, 2>>} : reps \in Seq(Nat)
  /\ \A reps \in {<<2>>, <<1, 0>>, <<2, 1>>, <<0, 1, 2>>, <<1, 2, 0, 1, 1, 0>>} : reps \in Seq(Nat)
  /\ \A shape \in {<<>>, <<0>>, <<1>>, <<2>>, <<3>>, <<2, 1>>, <<3, 1>>, <<1, 2>>, <<2, 2>>, <<2, 5>>} : shape \in Seq(Nat)
  <1>1. PICK k0, k1, k2, k3, k5 \in Nat : k0 = 0 /\ k1 = 1 /\ k2 = 2 /\ k3 = 3 /\ k5 = 5  OBVIOUS
  <1>2. /\ <<>> \in Seq(Nat) /\ <<k0>> \in Seq(Nat) /\ <<k1>> \in Seq(Nat) /\ <<k2>> \in Seq(Nat) /\ <<k3>> \in Seq(Nat)
        /\ <<k2, k1>> \in Seq(Nat) /\ <<k1, k2>> \in Seq(Nat) /\ <<k1, k0>> \in Seq(Nat) /\ <<k2, k2>> \in Seq(Nat)
        /\ <<k3, k1>> \in Seq(Nat) /\ <<k2, k5>> \in Seq(Nat)
        /\ <<k0, k1, k2>> \in Seq(Nat) /\ <<k2, k1, k1, k2>> \in Seq(Nat)
    BY ShortShapes
  <1>3. <<k1, k2, k0, k1, k1, k0>> \in Seq(Nat)  OBVIOUS
  <1> QED  BY <1>1, <1>2, <1>3

\* Tile keeps the invariant.
LEMMA TileStep ==
  ASSUME Laid(arr), Tile
  PROVE  Laid(arr')
  <1>1. PICK reps \in {<<>>, <<2>>, <<0>>, <<1>>, <<2, 1>>, <<1, 2>>, <<2, 1, 1, 2>>} : After(tile(arr, reps))
    BY DoIs DEF Tile
  <1>2. reps \in Seq(Nat)  BY SmallCounts
  <1>3. Sound(tile(arr, reps))  BY <1>2, TileLaid
  <1> QED  BY <1>1, <1>3, AfterLaid

\* Repeat keeps the invariant.
LEMMA RepeatStep ==
  ASSUME Laid(arr), Repeat
  PROVE  Laid(arr')
  <1>1. PICK axis \in SomeAxes, repeats \in {<<2>>, <<1, 0>>, <<2, 1>>, <<0, 1, 2>>, <<1, 2, 0, 1, 1, 0>>} :
            After(repeat(arr, repeats, axis))
    BY DoIs DEF Repeat
  <1>2. repeats \in Seq(Nat)  BY SmallCounts
  <1>3. axis \in Int \cup {None}  BY SomeAxesAre
  <1>4. Sound(repeat(arr, repeats, axis))  BY <1>2, <1>3, RepeatLaid
  <1> QED  BY <1>1, <1>4, AfterLaid

\* Delete keeps the invariant.
LEMMA DeleteStep ==
  ASSUME Laid(arr), Delete
  PROVE  Laid(arr')
  <1>1. PICK axis, obj : axis \in SomeAxes /\ After(delete(arr, obj, axis))  BY DoIs DEF Delete
  <1>2. axis \in Int \cup {None}  BY <1>1, SomeAxesAre
  <1>3. Sound(delete(arr, obj, axis))  BY <1>2, DeleteLaid
  <1> QED  BY <1>1, <1>3, AfterLaid

\* What insert takes.
Placing(obj) == /\ Legal(obj) /\ obj.kind \in {"index", "slice", "array"}
                /\ obj.kind = "array" => Len(obj.vals) \in Nat

\* The places that insert and delete are given.
LEMMA PlacingAre ==
  \A obj \in Objects \cup {Index(-1), Index(7)} : Placing(obj)
  <1>1. ASSUME NEW i \in Int  PROVE Placing(Index(i))
    <2>1. Legal(Index(i))  BY ItemsLegal
    <2>2. Index(i).kind = "index"  BY DEF Index
    <2> QED  BY <2>1, <2>2 DEF Placing
  <1>2. Placing(Slice(None, None, 2))
    <2>1. Legal(Slice(None, None, 2))  BY ConstantsLegal
    <2>2. Slice(None, None, 2).kind = "slice"  BY DEF Slice
    <2> QED  BY <2>1, <2>2 DEF Placing
  <1>3. ASSUME NEW s \in Seq(Nat), NEW v, Len(v) \in Nat  PROVE Placing(Ints(s, v))
    <2>1. Legal(Ints(s, v))  BY ItemsLegal
    <2>2. Ints(s, v).kind = "array" /\ Ints(s, v).vals = v  BY DEF Ints
    <2> QED  BY <1>3, <2>1, <2>2 DEF Placing
  <1>4. PICK s1, s2, u, v, w : s1 = <<1>> /\ s2 = <<2>> /\ u = <<0, -1>> /\ v = <<1, 1>> /\ w = <<1>>  OBVIOUS
  <1>5. s1 \in Seq(Nat) /\ s2 \in Seq(Nat)  BY <1>4, SmallCounts
  <1>6. Len(u) \in Nat /\ Len(v) \in Nat /\ Len(w) \in Nat  BY <1>4
  <1>7. Placing(Ints(s2, u)) /\ Placing(Ints(s2, v)) /\ Placing(Ints(s1, w))  BY <1>3, <1>5, <1>6
  <1>8. PICK i7, im \in Int : i7 = 7 /\ im = -1  OBVIOUS
  <1>9. Placing(Index(im)) /\ Placing(Index(i7))  BY <1>1
  <1> QED  BY <1>2, <1>4, <1>7, <1>8, <1>9 DEF Objects

\* Insert keeps the invariant.
LEMMA InsertStep ==
  ASSUME Laid(arr), Insert
  PROVE  Laid(arr')
  <1>1. PICK s \in Seq(Nat) : s = arr.shape  BY LaidIs
  <1>2. PICK axis \in SomeAxes, obj \in Objects \cup {Index(-1), Index(7)}, shape \in {<<>>, <<2>>, Column(s)} :
            After(insert(arr, obj, Other(shape, "C"), axis))
    BY <1>1, DoIs DEF Insert
  <1>3. shape \in Seq(Nat)  BY <1>2, RowIs, SmallCounts
  <1>4. Laid(Other(shape, "C"))  BY <1>3, OtherLaid
  <1>5. axis \in Int \cup {None}  BY <1>2, SomeAxesAre
  <1>6. Legal(obj) /\ obj.kind \in {"index", "slice", "array"}  BY <1>2, PlacingAre DEF Placing
  <1>7. obj.kind = "array" => Len(obj.vals) \in Nat  BY <1>2, PlacingAre DEF Placing
  <1>8. Sound(insert(arr, obj, Other(shape, "C"), axis))  BY <1>4, <1>5, <1>6, <1>7, InsertLaid
  <1> QED  BY <1>2, <1>8, AfterLaid

----------------------------------------------------------------------------
(* Elements.                                                                  *)

\* Diagonal keeps the invariant.
LEMMA DiagonalStep ==
  ASSUME Laid(arr), Diagonal
  PROVE  Laid(arr')
  <1>1. PICK offset \in -3..3, axis1 \in {0, 1, -1}, axis2 \in {0, 1, -1} :
            After(diagonal(arr, offset, axis1, axis2))
    BY DoIs DEF Diagonal
  <1>2. offset \in Int /\ axis1 \in Int /\ axis2 \in Int  BY <1>1
  <1>3. Sound(diagonal(arr, offset, axis1, axis2))  BY <1>2, DiagonalLaid
  <1> QED  BY <1>1, <1>3, AfterLaid

\* Diag keeps the invariant.
LEMMA DiagStep ==
  ASSUME Laid(arr), Diag
  PROVE  Laid(arr')
  <1>1. PICK k \in -2..2 : After(diag(arr, k))  BY DoIs DEF Diag
  <1>2. k \in Int  BY <1>1
  <1>3. Sound(diag(arr, k))  BY <1>2, DiagLaid
  <1> QED  BY <1>1, <1>3, AfterLaid

\* Tri keeps the invariant.
LEMMA TriStep ==
  ASSUME NdArraysAssumption, Laid(arr), Tri
  PROVE  Laid(arr')
  <1>1. PICK k, upper : After(tri_mask(arr, k, upper))  BY DoIs DEF Tri
  <1>2. Raised \notin Seq(Nat)  BY DEF NdArraysAssumption
  <1>3. Sound(tri_mask(arr, k, upper))  BY <1>2, TriLaid
  <1> QED  BY <1>1, <1>3, AfterLaid

\* Resize keeps the invariant.
LEMMA ResizeStep ==
  ASSUME Laid(arr), Resize
  PROVE  Laid(arr')
  <1>1. PICK shape \in {<<>>, <<0>>, <<3>>, <<2, 5>>} : After(resize(arr, shape))  BY DoIs DEF Resize
  <1>2. shape \in Seq(Nat)  BY SmallCounts
  <1>3. Sound(resize(arr, shape))  BY <1>2, ResizeLaid DEF Sound
  <1> QED  BY <1>1, <1>3, AfterLaid

\* Index arrays have shapes.
LEMMA IntsShape ==
  ASSUME NEW s \in Seq(Nat), NEW v
  PROVE  Ints(s, v).shape \in Seq(Nat)
  BY DEF Ints

\* The index arrays that take and put are given.
LEMMA IndexSetsAre ==
  \A idx \in IndexSets : idx.shape \in Seq(Nat)
  <1>1. PICK s0, sz, s1, s2, s3, s21, s12 : /\ s0 = <<>> /\ sz = <<0>> /\ s1 = <<1>> /\ s2 = <<2>>
                                            /\ s3 = <<3>> /\ s21 = <<2, 1>> /\ s12 = <<1, 2>>
    OBVIOUS
  <1>2. /\ s0 \in Seq(Nat) /\ sz \in Seq(Nat) /\ s1 \in Seq(Nat) /\ s2 \in Seq(Nat) /\ s3 \in Seq(Nat)
        /\ s21 \in Seq(Nat) /\ s12 \in Seq(Nat)
    BY <1>1, SmallCounts
  <1>3. \A s \in {s0, sz, s1, s2, s3, s21, s12} : \A v : Ints(s, v).shape \in Seq(Nat)  BY <1>2, IntsShape
  <1>4. \A idx \in IndexSets : \E s \in {s0, sz, s1, s2, s3, s21, s12} : \E v : idx = Ints(s, v)
    BY <1>1 DEF IndexSets
  <1> QED  BY <1>3, <1>4

\* Take keeps the invariant.
LEMMA TakeStep ==
  ASSUME Laid(arr), Take
  PROVE  Laid(arr')
  <1>1. PICK axis, idx, mode : axis \in SomeAxes /\ idx \in IndexSets /\ After(take(arr, idx, axis, mode))
    BY DoIs DEF Take
  <1>2. axis \in Int \cup {None}  BY <1>1, SomeAxesAre
  <1>3. idx.shape \in Seq(Nat)  BY <1>1, IndexSetsAre
  <1>4. Sound(take(arr, idx, axis, mode))  BY <1>2, <1>3, TakeLaid
  <1> QED  BY <1>1, <1>4, AfterLaid

\* Compress keeps the invariant.
LEMMA CompressStep ==
  ASSUME Laid(arr), Compress
  PROVE  Laid(arr')
  <1>1. PICK t, f : t = TRUE /\ f = FALSE  BY Zenon
  <1>2. PICK axis, mask : /\ axis \in SomeAxes /\ mask \in {<<>>, <<t>>, <<f, t>>, <<t, f, t>>}
                          /\ After(compress(arr, mask, axis))
    BY <1>1, DoIs, Zenon DEF Compress
  <1>3. axis \in Int \cup {None}  BY <1>2, SomeAxesAre
  <1>4. Len(mask) \in Nat  BY <1>2
  <1>5. Sound(compress(arr, mask, axis))  BY <1>3, <1>4, CompressLaid
  <1> QED  BY <1>2, <1>5, AfterLaid

\* Put keeps the invariant.
LEMMA PutStep ==
  ASSUME Laid(arr), Put
  PROVE  Laid(arr')
  <1>1. PICK idx, b, mode : After(put(arr, idx, b, mode))  BY DoIs DEF Put
  <1>2. Sound(put(arr, idx, b, mode))  BY PutLaid
  <1> QED  BY <1>1, <1>2, AfterLaid

\* The index arrays along an axis.
LEMMA AlongIndicesAre ==
  ASSUME NEW axis, NEW idx, idx \in AlongIndices(axis)
  PROVE  idx.shape \in Seq(Nat)
  <1>1. PICK k2 \in Nat : k2 = 2  OBVIOUS
  <1>2. PICK s : s = <<k2, k2>>  OBVIOUS
  <1>3. s \in Seq(Nat)  BY <1>2
  <1>4. \/ idx \in IndexSets
        \/ \E n \in 1..3 : \E i \in {0, -1, 4} : idx = Ints([d \in 1..n |-> 1], <<i>>)
        \/ \E v : idx = Ints(s, v)
    BY <1>1, <1>2 DEF AlongIndices
  <1>5. CASE idx \in IndexSets  BY <1>5, IndexSetsAre
  <1>6. ASSUME NEW n \in 1..3, NEW i \in {0, -1, 4}
        PROVE  Ints([d \in 1..n |-> 1], <<i>>).shape \in Seq(Nat)
    <2>1. [d \in 1..n |-> 1] \in Seq(Nat)  OBVIOUS
    <2>2. PICK r : r = [d \in 1..n |-> 1]  OBVIOUS
    <2>3. \A v : Ints(r, v).shape \in Seq(Nat)  BY <2>1, <2>2, IntsShape
    <2> QED  BY <2>2, <2>3
  <1>7. \A v : Ints(s, v).shape \in Seq(Nat)  BY <1>3, IntsShape
  <1> QED  BY <1>4, <1>5, <1>6, <1>7

\* TakeAlongAxis keeps the invariant.
LEMMA TakeAlongAxisStep ==
  ASSUME Laid(arr), TakeAlongAxis
  PROVE  Laid(arr')
  <1>1. PICK axis, idx : idx \in AlongIndices(axis) /\ After(take_along_axis(arr, idx, axis))
    BY DoIs DEF TakeAlongAxis
  <1>2. idx.shape \in Seq(Nat)  BY <1>1, AlongIndicesAre
  <1>3. Sound(take_along_axis(arr, idx, axis))  BY <1>2, TakeAlongAxisLaid
  <1> QED  BY <1>1, <1>3, AfterLaid

\* PutAlongAxis keeps the invariant.
LEMMA PutAlongAxisStep ==
  ASSUME Laid(arr), PutAlongAxis
  PROVE  Laid(arr')
  <1>1. PICK axis, idx, b : axis \in SomeAxes /\ arr' = put_along_axis(arr, idx, b, axis).arr
    BY DEF PutAlongAxis
  <1>2. axis \in Int \cup {None}  BY <1>1, SomeAxesAre
  <1>3. Laid(put_along_axis(arr, idx, b, axis).arr)  BY <1>2, PutAlongAxisLaid
  <1> QED  BY <1>1, <1>3

\* FillDiagonal keeps the invariant.
LEMMA FillDiagonalStep ==
  ASSUME Laid(arr), FillDiagonal
  PROVE  Laid(arr')
  <1>1. PICK b, wrap : After(fill_diagonal(arr, b, wrap))  BY DoIs DEF FillDiagonal
  <1>2. Sound(fill_diagonal(arr, b, wrap))  BY FillDiagonalLaid
  <1> QED  BY <1>1, <1>2, AfterLaid

----------------------------------------------------------------------------
(* ufuncs.                                                                    *)

\* Reduce keeps the invariant.
LEMMA ReduceStep ==
  ASSUME Laid(arr), Reduce
  PROVE  Laid(arr')
  <1>1. PICK axes, keepdims, kernel, initial, identity, mask, cast :
            After(reduce_axis(arr, axes, keepdims, kernel, initial, identity, mask, cast))
    BY DoIs DEF Reduce
  <1>2. Sound(reduce_axis(arr, axes, keepdims, kernel, initial, identity, mask, cast))  BY ReduceLaid
  <1> QED  BY <1>1, <1>2, AfterLaid

\* Accumulate keeps the invariant.
LEMMA AccumulateStep ==
  ASSUME Laid(arr), Accumulate
  PROVE  Laid(arr')
  <1>1. PICK d : After(accumulate_axis(arr, d))  BY DoIs DEF Accumulate
  <1>2. Sound(accumulate_axis(arr, d))  BY AccumulateLaid DEF Sound
  <1> QED  BY <1>1, <1>2, AfterLaid

\* ReduceAt keeps the invariant.
LEMMA ReduceAtStep ==
  ASSUME Laid(arr), ReduceAt
  PROVE  Laid(arr')
  <1>1. PICK d, idx : idx \in {<<>>, <<0>>, <<1, 0>>, <<0, 0, 1>>, <<2>>, <<0, 5>>} /\ After(reduceat_axis(arr, idx, d))
    BY DoIs DEF ReduceAt
  <1>2. Len(idx) \in Nat  BY <1>1
  <1>3. Sound(reduceat_axis(arr, idx, d))  BY <1>2, ReduceAtLaid
  <1> QED  BY <1>1, <1>3, AfterLaid

\* ArgMax keeps the invariant.
LEMMA ArgMaxStep ==
  ASSUME Laid(arr), ArgMax
  PROVE  Laid(arr')
  <1>1. PICK axes, keepdims : After(argext(arr, axes, keepdims))  BY DoIs DEF ArgMax
  <1>2. Sound(argext(arr, axes, keepdims))  BY ArgExtLaid
  <1> QED  BY <1>1, <1>2, AfterLaid

\* UfuncAt keeps the invariant.
LEMMA UfuncAtStep ==
  ASSUME Laid(arr), UfuncAt
  PROVE  Laid(arr')
  <1>1. PICK idx, b : After(at_binary(arr, idx, b))  BY DoIs DEF UfuncAt
  <1>2. Sound(at_binary(arr, idx, b))  BY AtBinaryLaid
  <1> QED  BY <1>1, <1>2, AfterLaid

\* Outer keeps the invariant.
LEMMA OuterStep ==
  ASSUME Laid(arr), Outer
  PROVE  Laid(arr')
  <1>1. PICK shape \in {<<>>, <<2>>, <<0>>} : After(outer_binary(arr, Other(shape, "C")))  BY DoIs DEF Outer
  <1>2. shape \in Seq(Nat)  BY SmallCounts
  <1>3. Laid(Other(shape, "C"))  BY <1>2, OtherLaid
  <1>4. Sound(outer_binary(arr, Other(shape, "C")))  BY <1>3, OuterLaid DEF Sound
  <1> QED  BY <1>1, <1>4, AfterLaid

\* Binary keeps the invariant.
LEMMA BinaryStep ==
  ASSUME Laid(arr), Binary
  PROVE  Laid(arr')
  <1>1. PICK s \in Seq(Nat) : s = arr.shape  BY LaidIs
  <1>2. PICK shape, order, out : /\ shape \in {s, Reverse(s), <<>>, Column(s), <<2, 1>> \o Row(s)}
                                 /\ out \in Orders /\ After(binary_op(arr, Other(shape, order), out))
    BY <1>1, DoIs DEF Binary
  <1>3. <<2, 1>> \o Row(s) \in Seq(Nat)
    <2>1. PICK t : t = <<2, 1>>  OBVIOUS
    <2>2. t \in Seq(Nat)  BY <2>1, SmallCounts
    <2>3. t \o Row(s) \in Seq(Nat)  BY <2>2, RowIs, JoinedShape
    <2> QED  BY <2>1, <2>3
  <1>4. shape \in Seq(Nat)  BY <1>2, <1>3, RowIs, SmallCounts
  <1>5. Laid(Other(shape, order))  BY <1>4, OtherLaid
  <1>6. out \in {"C", "F", "A", "K"}  BY <1>2 DEF Orders
  <1>7. Sound(binary_op(arr, Other(shape, order), out))  BY <1>5, <1>6, BinaryLaid
  <1> QED  BY <1>2, <1>7, AfterLaid

----------------------------------------------------------------------------
(* The start.                                                                 *)

\* A shape with an axis in front stretches to the whole.
LEMMA FrontFits ==
  ASSUME NEW s \in Seq(Nat), NEW x \in Nat, NEW t, t = <<x>> \o s
  PROVE  broadcast_shapes(<<s, t>>) = t
  <1> DEFINE z == <<s, t>>
             c == Max({Len(z[i]) : i \in DOMAIN z} \cup {0})
             long(d) == {Aligned(z[i], c, d) : i \in DOMAIN z} \ {1}
  <1>1. PICK n \in Nat : n = Len(s)  OBVIOUS
  <1>2. t \in Seq(Nat) /\ Len(t) = n + 1 /\ \A d \in 1..n : t[d + 1] = s[d]
    <2>1. PICK V : V = Nat  OBVIOUS
    <2>2. x \in V /\ s \in Seq(V)  BY <2>1
    <2>3. /\ <<x>> \o s \in Seq(V) /\ Len(<<x>> \o s) = Len(s) + 1
          /\ \A d \in 1..Len(s) : (<<x>> \o s)[d + 1] = s[d]
      BY <2>2, Prepend
    <2> QED  BY <1>1, <2>1, <2>3
  <1>3. DOMAIN z = {1, 2} /\ z[1] = s /\ z[2] = t  OBVIOUS
  <1>4. broadcast_shapes(z) = IF \E d \in 1..c : \E g, h \in long(d) : g # h THEN Raised
                              ELSE [d \in 1..c |-> IF long(d) = {} THEN 1 ELSE CHOOSE g \in long(d) : TRUE]
    BY DEF broadcast_shapes
  <1> HIDE DEF z
  <1>5. c = n + 1
    <2>1. PICK L, N : L = {Len(z[i]) : i \in DOMAIN z} \cup {0} /\ N = n + 1  OBVIOUS
    <2>2. L = {n, n + 1, 0}  BY <1>1, <1>2, <1>3, <2>1
    <2>3. N \in Nat /\ n \in 0..N /\ 0 \in 0..N /\ N \in 0..N  BY <1>1, <2>1
    <2>4. L = {n, N, 0}  BY <2>1, <2>2
    <2>5. L \in SUBSET (0..N) /\ L # {} /\ N \in L  BY <2>3, <2>4
    <2>6. Max(L) \in L /\ \A y \in L : y <= Max(L)  BY <2>3, <2>5, Extremes
    <2>7. Max(L) \in 0..N /\ N <= Max(L)  BY <2>5, <2>6
    <2>8. Max(L) = N  BY <2>3, <2>7
    <2> QED  BY <2>1, <2>8
  <1> HIDE DEF c
  <1>6. \A d \in 1..n + 1 : long(d) = {t[d]} \ {1}
    <2> TAKE d \in 1..n + 1
    <2>1. long(d) = {Aligned(s, c, d), Aligned(t, c, d)} \ {1}  BY <1>3
    <2>2. Aligned(t, c, d) = t[d]
      <3>1. ~(d <= (n + 1) - (n + 1)) /\ d - ((n + 1) - (n + 1)) = d  BY <1>1
      <3> QED  BY <1>2, <1>5, <3>1 DEF Aligned
    <2>3. Aligned(s, c, d) = IF d <= 1 THEN 1 ELSE s[d - 1]
      <3>1. (n + 1) - n = 1  BY <1>1
      <3>2. Aligned(s, c, d) = IF d <= (n + 1) - n THEN 1 ELSE s[d - ((n + 1) - n)]  BY <1>1, <1>5 DEF Aligned
      <3> QED  BY <3>1, <3>2
    <2>4. Aligned(s, c, d) = 1 \/ Aligned(s, c, d) = t[d]
      <3>1. CASE d <= 1  BY <2>3, <3>1
      <3>2. CASE ~(d <= 1)
        <4>1. PICK e \in 1..n : e = d - 1 /\ e + 1 = d  BY <1>1, <3>2
        <4>2. t[e + 1] = s[e]  BY <1>2
        <4> QED  BY <2>3, <3>2, <4>1, <4>2
      <3> QED  BY <3>1, <3>2
    <2> QED  BY <2>1, <2>2, <2>4
  <1> HIDE DEF long
  <1>7. ~\E d \in 1..c : \E g, h \in long(d) : g # h  BY <1>5, <1>6
  <1>8. PICK r : r = [d \in 1..c |-> IF long(d) = {} THEN 1 ELSE CHOOSE g \in long(d) : TRUE]  OBVIOUS
  <1>9. \A d \in 1..n + 1 : r[d] = t[d]
    <2> TAKE d \in 1..n + 1
    <2>1. r[d] = IF long(d) = {} THEN 1 ELSE CHOOSE g \in long(d) : TRUE  BY <1>5, <1>8
    <2>2. long(d) = {t[d]} \ {1}  BY <1>6
    <2>3. CASE t[d] = 1  BY <2>1, <2>2, <2>3
    <2>4. CASE t[d] # 1
      <3>1. long(d) = {t[d]}  BY <2>2, <2>4
      <3>2. (CHOOSE g \in {t[d]} : TRUE) = t[d]  OBVIOUS
      <3> QED  BY <2>1, <3>1, <3>2
    <2> QED  BY <2>3, <2>4
  <1>10. r = t
    <2>1. r = [d \in 1..n + 1 |-> r[d]]  BY <1>5, <1>8
    <2>2. t = [d \in 1..n + 1 |-> t[d]]  BY <1>2
    <2> QED  BY <1>9, <2>1, <2>2
  <1>11. broadcast_shapes(z) = r  BY <1>4, <1>7, <1>8
  <1> QED  BY <1>10, <1>11 DEF z

\* An array that starts out broadcast.
LEMMA StretchedStart ==
  ASSUME Raised \notin Seq(Nat), NEW a, Laid(a), NEW s \in Seq(Nat), a.shape = s
  PROVE  Laid(broadcast_to(a, <<2>> \o s))
  <1>1. PICK x \in Nat : x = 2  OBVIOUS
  <1>2. PICK t : t = <<x>> \o s  OBVIOUS
  <1>3. t \in Seq(Nat)
    <2>1. PICK u : u = <<x>>  OBVIOUS
    <2>2. u \in Seq(Nat)  BY <2>1
    <2>3. u \o s \in Seq(Nat)  BY <2>2, JoinedShape
    <2> QED  BY <1>2, <2>1, <2>3
  <1>4. broadcast_shapes(<<s, t>>) = t  BY <1>2, FrontFits
  <1>5. t # Raised /\ Len(s) <= Len(t)
    <2>1. t # Raised  BY <1>3
    <2>2. t = broadcast_shapes(<<s, t>>)  BY <1>4
    <2>3. Len(s) <= Len(t)  BY <1>3, <2>1, <2>2, BroadcastTwo
    <2> QED  BY <2>1, <2>3
  <1>6. PICK w : w = broadcast_strides_to(a.shape, a.strides, t)  OBVIOUS
  <1>7. broadcast_to(a, t) = View(a, t, w, a.offset)
    <2>1. broadcast_to(a, t) = IF broadcast_shapes(<<a.shape, t>>) = Raised \/ broadcast_shapes(<<a.shape, t>>) # t
                               THEN Raised ELSE View(a, t, broadcast_strides_to(a.shape, a.strides, t), a.offset)
      BY Zenon DEF broadcast_to
    <2>2. broadcast_shapes(<<a.shape, t>>) = t  BY <1>4
    <2> QED  BY <1>5, <1>6, <2>1, <2>2
  <1>8. Spans(t, w) /\ a.offset \in Int
    <2>1. a.strides \in Seq(Int) /\ Len(a.strides) = Len(a.shape) /\ a.offset \in Int  BY LaidIs
    <2>2. PICK v : v = a.strides  OBVIOUS
    <2>3. Spans(t, broadcast_strides_to(s, v, t))  BY <1>3, <1>5, <2>1, <2>2, StretchSpans
    <2> QED  BY <1>6, <2>1, <2>2, <2>3
  <1>9. Laid(View(a, t, w, a.offset))  BY <1>8, WindowLaid
  <1> QED  BY <1>1, <1>2, <1>7, <1>9

\* The keys of arrays that start out as slices.
LEMMA StartKeysAre ==
  ASSUME NEW shape, NEW key \in StartKeys(shape)
  PROVE  KeyOf(key)
  <1>1. PICK b, e, o, h, i : /\ b = Slice(None, None, -1) /\ e = Ellipsis /\ o = Slice(1, None, None)
                             /\ h = Slice(None, None, 2) /\ i = Index(0)
    OBVIOUS
  <1>2. Legal(b) /\ Legal(e) /\ Legal(o) /\ Legal(h) /\ Legal(i)  BY <1>1, ConstantsLegal, ItemsLegal
  <1>3. key = <<>> \/ key = <<b>> \/ key = <<e, o>> \/ key = <<e, h>> \/ key = <<i>>  BY <1>1 DEF StartKeys
  <1>4. KeyOf(<<>>) /\ KeyOf(<<b>>) /\ KeyOf(<<e, o>>)  BY <1>2, KeysOf
  <1>5. KeyOf(<<i>>) /\ KeyOf(<<e, h>>)  BY <1>2, KeysOf
  <1> QED  BY <1>3, <1>4, <1>5

\* Rotations of the axes.
LEMMA RotationsList ==
  ASSUME NEW n \in Nat, NEW perm \in Rotations(n)
  PROVE  Lists(perm, n, n)
  <1>1. PICK k \in 1..n : perm = [i \in 1..n |-> ((i + k) % n) + 1]  BY DEF Rotations
  <1>2. \A i \in 1..n : ((i + k) % n) + 1 \in 1..n
    <2> TAKE i \in 1..n
    <2>1. n \in Nat \ {0} /\ i + k \in Int  OBVIOUS
    <2>2. (i + k) % n \in Int /\ 0 <= (i + k) % n /\ (i + k) % n < n  BY <2>1, DivMod
    <2> QED  BY <2>2
  <1>3. perm \in [1..n -> 1..n]  BY <1>1, <1>2
  <1> QED  BY <1>3 DEF Lists

\* Every layout that an array starts out with.
LEMMA LayoutsLaid ==
  ASSUME NdArraysAssumption, NEW shape \in Seq(Nat), NEW order, NEW x \in Layouts(shape, order)
  PROVE  Laid(x)
  <1>1. PICK own, seen : /\ own = from_buffer(Powers(0, Size(shape)), shape, order)
                         /\ seen = {getitem(own, key) : key \in StartKeys(shape)} \ {Raised}
    OBVIOUS
  <1>2. Laid(own) /\ own.shape = shape  BY <1>1, FromBufferLaid
  <1>3. \A a \in seen : Laid(a)
    <2> TAKE a \in seen
    <2>1. a # Raised  BY <1>1
    <2>2. PICK key \in StartKeys(shape) : a = getitem(own, key)  BY <1>1
    <2>3. KeyOf(key)  BY StartKeysAre
    <2>4. PICK V : Words(V) /\ key \in Seq(V)  BY <2>3 DEF KeyOf
    <2>5. Sound(getitem(own, key))  BY <1>2, <2>4, GetItemLaid
    <2> QED  BY <2>1, <2>2, <2>5 DEF Sound
  <1>4. Laid(broadcast_to(own, <<2>> \o shape))
    <2>1. Raised \notin Seq(Nat)  BY DEF NdArraysAssumption
    <2> QED  BY <1>2, <2>1, StretchedStart
  <1>5. \/ x \in seen
        \/ x = broadcast_to(own, <<2>> \o shape)
        \/ \E a \in seen : \E perm \in Rotations(Len(a.shape)) : x = transpose_axes(a, perm)
    BY <1>1 DEF Layouts
  <1>6. ASSUME NEW a \in seen, NEW perm \in Rotations(Len(a.shape))
        PROVE  Laid(transpose_axes(a, perm))
    <2>1. Laid(a)  BY <1>3
    <2>2. PICK n \in Nat : n = Len(a.shape)  BY <2>1, LaidIs
    <2>3. Lists(perm, n, n)  BY <2>2, RotationsList
    <2>4. Lists(perm, n, Len(a.shape))  BY <2>2, <2>3
    <2> QED  BY <2>1, <2>4, TransposeLaid
  <1> QED  BY <1>3, <1>4, <1>5, <1>6

\* The initial states.
LEMMA StartLaid ==
  ASSUME NdArraysAssumption, Init
  PROVE  Laid(arr)
  <1>1. PICK shape, order : shape \in Shapes /\ arr \in Layouts(shape, order)  BY DEF Init
  <1>2. shape \in Seq(Nat)  BY <1>1 DEF NdArraysAssumption
  <1> QED  BY <1>1, <1>2, LayoutsLaid

----------------------------------------------------------------------------
(* Every state.                                                               *)

\* Every step.
LEMMA StepLaid ==
  ASSUME NdArraysAssumption, Laid(arr), [Next]_vars
  PROVE  Laid(arr')
  <1>1. CASE UNCHANGED vars  BY <1>1 DEF vars
  <1>2. CASE Reshape \/ Ravel \/ Copy \/ Transpose \/ SwapAxes \/ MoveAxis \/ RollAxis \/ Squeeze
    BY <1>2, ReshapeStep, RavelStep, CopyStep, TransposeStep, SwapAxesStep, MoveAxisStep, RollAxisStep,
       SqueezeStep, Zenon
  <1>3. CASE ExpandDims \/ Flip \/ Rot90 \/ BroadcastTo \/ GetItem \/ SetItem \/ Concatenate \/ Stack
    BY <1>3, ExpandDimsStep, FlipStep, Rot90Step, BroadcastToStep, GetItemStep, SetItemStep,
       ConcatenateStep, StackStep, Zenon
  <1>4. CASE ArraySplit \/ Roll \/ Tile \/ Repeat \/ Delete \/ Insert \/ Diagonal \/ Diag \/ Tri \/ Resize
    BY <1>4, ArraySplitStep, RollStep, TileStep, RepeatStep, DeleteStep, InsertStep, DiagonalStep, DiagStep,
       TriStep, ResizeStep, Zenon
  <1>5. CASE Take \/ Compress \/ Put \/ TakeAlongAxis \/ PutAlongAxis \/ FillDiagonal \/ Reduce
    BY <1>5, TakeStep, CompressStep, PutStep, TakeAlongAxisStep, PutAlongAxisStep, FillDiagonalStep,
       ReduceStep, Zenon
  <1>6. CASE Accumulate \/ ReduceAt \/ ArgMax \/ UfuncAt \/ Outer \/ Binary
    BY <1>6, AccumulateStep, ReduceAtStep, ArgMaxStep, UfuncAtStep, OuterStep, BinaryStep, Zenon
  <1> QED  BY <1>1, <1>2, <1>3, <1>4, <1>5, <1>6, Zenon DEF Next

\* Whatever calls are made, in any layout and of any shape, the array keeps one
\* integer stride for each axis and an integer offset.
THEOREM AlwaysLaid ==
  Spec => []Laid(arr)
  <1>1. Init => Laid(arr)  BY StartLaid, NdArraysAssumption
  <1>2. Laid(arr) /\ [Next]_vars => Laid(arr)'  BY StepLaid, NdArraysAssumption DEF Laid
  <1> QED  BY <1>1, <1>2, PTL DEF Spec

----------------------------------------------------------------------------
(* Sorts.                                                                     *)

\* A buffer says nothing of the layout.
LEMMA BufferLaid ==
  ASSUME NEW a, Laid(a), NEW b
  PROVE  Laid([a EXCEPT !.buf = b]) /\ [a EXCEPT !.buf = b].shape = a.shape
  <1>1. a = [buf |-> a.buf, shape |-> a.shape, strides |-> a.strides, offset |-> a.offset, fresh |-> a.fresh]
    BY DEF Laid
  <1>2. [a EXCEPT !.buf = b] =
          [buf |-> b, shape |-> a.shape, strides |-> a.strides, offset |-> a.offset, fresh |-> a.fresh]
    BY <1>1
  <1> QED  BY <1>2 DEF Laid

\* Lines written to an array.
LEMMA LinesPutLaid ==
  ASSUME NEW out, Laid(out), NEW cells, NEW lines
  PROVE  Laid(LinesPut(out, cells, lines)) /\ LinesPut(out, cells, lines).shape = out.shape
  <1>1. PICK b : b = Assign(out.buf, Concat(cells), Concat(lines))  OBVIOUS
  <1>2. LinesPut(out, cells, lines) = [out EXCEPT !.buf = b]  BY <1>1 DEF LinesPut
  <1> QED  BY <1>2, BufferLaid

\* An array to be filled.
LEMMA BlankLaid ==
  ASSUME NEW shape \in Seq(Nat)
  PROVE  Laid(Blank(shape)) /\ Blank(shape).shape = shape
  BY FromBufferLaid DEF Blank

\* sort_along keeps the layout of its output.
LEMMA SortAlongLaid ==
  ASSUME NEW a, NEW out, Laid(out), NEW d, NEW kind, NEW tie, NEW desc
  PROVE  Laid(sort_along(a, out, d, kind, tie, desc)) /\ sort_along(a, out, d, kind, tie, desc).shape = out.shape
  <1>1. \E cells, lines : sort_along(a, out, d, kind, tie, desc) = LinesPut(out, cells, lines)
    BY DEF sort_along, Along, Changed
  <1> QED  BY <1>1, LinesPutLaid

\* A copy that is sorted.
LEMMA FinishedLaid ==
  ASSUME NEW a, Laid(a), NEW d, NEW kind, NEW stable, NEW desc
  PROVE  Laid(Finished(a, d, kind, stable, desc)) /\ Finished(a, d, kind, stable, desc).shape = a.shape
  <1>1. \E cells, lines : reverse_axis_lines(a, d) = LinesPut(a, cells, lines)  BY DEF reverse_axis_lines
  <1>2. \E cells, lines : Along(a, a, d, LAMBDA s : [i \in DOMAIN s |-> canonicalize(kind, s[i])]) = LinesPut(a, cells, lines)
    BY DEF Along, Changed
  <1>3. PICK r, s : /\ r = reverse_axis_lines(a, d)
                    /\ s = Along(a, a, d, LAMBDA t : [i \in DOMAIN t |-> canonicalize(kind, t[i])])
    OBVIOUS
  <1>4. Laid(r) /\ r.shape = a.shape /\ Laid(s) /\ s.shape = a.shape  BY <1>1, <1>2, <1>3, LinesPutLaid
  <1>5. Finished(a, d, kind, stable, desc) \in {r, s, a}  BY <1>3 DEF Finished
  <1> QED  BY <1>4, <1>5

\* A sort into an array, stable or not, ascending or not.
LEMMA SortedLaid ==
  ASSUME NEW a, NEW out, Laid(out), NEW d, NEW kind, NEW stable, NEW desc
  PROVE  Laid(Sorted(a, out, d, kind, stable, desc)) /\ Sorted(a, out, d, kind, stable, desc).shape = out.shape
  <1>1. PICK tie, down : tie = (kind = "float" /\ ~stable) /\ down = (kind # "int" /\ desc)  OBVIOUS
  <1>2. PICK s : s = sort_along(a, out, d, kind, tie, down)  OBVIOUS
  <1>3. Laid(s) /\ s.shape = out.shape  BY <1>2, SortAlongLaid
  <1>4. Sorted(a, out, d, kind, stable, desc) = Finished(s, d, kind, stable, desc)  BY <1>1, <1>2 DEF Sorted
  <1> QED  BY <1>3, <1>4, FinishedLaid

\* The operand of a sort without an axis.
LEMMA OnAxis1Laid ==
  ASSUME NEW a, Laid(a), NEW axis
  PROVE  Laid(OnAxis1(a, axis))
  BY CopyLaid DEF OnAxis1

\* sort and ndarray.sort.
LEMMA SortLaid ==
  ASSUME NEW a, Laid(a), NEW axis, NEW kind, NEW stable, NEW desc
  PROVE  Sound(sort(a, axis, kind, stable, desc)) /\ Sound(ndarray_sort(a, axis, kind, stable, desc))
  <1>1. PICK b, d : b = OnAxis1(a, axis) /\ d = Axis1(a, axis)  OBVIOUS
  <1>2. Laid(b)  BY <1>1, OnAxis1Laid
  <1>3. b.shape \in Seq(Nat)  BY <1>2, LaidIs
  <1>4. Laid(sort_axis(b, d, kind, stable, desc))  BY <1>3, BlankLaid, SortedLaid DEF sort_axis
  <1>5. sort(a, axis, kind, stable, desc) = IF d = Raised THEN Raised ELSE sort_axis(b, d, kind, stable, desc)
    BY <1>1 DEF sort
  <1>6. PICK e : e = normalize_axis(axis, Len(a.shape))  OBVIOUS
  <1>7. Laid(sort_in_place(a, e, kind, stable, desc))  BY SortedLaid DEF sort_in_place
  <1>8. ndarray_sort(a, axis, kind, stable, desc) = IF e = Raised THEN Raised ELSE sort_in_place(a, e, kind, stable, desc)
    BY <1>6 DEF ndarray_sort
  <1> QED  BY <1>4, <1>5, <1>7, <1>8 DEF Sound

\* argsort.
LEMMA ArgSortLaid ==
  ASSUME NEW a, Laid(a), NEW axis, NEW kind, NEW stable, NEW desc
  PROVE  Sound(argsort(a, axis, kind, stable, desc))
  <1>1. PICK b : b = IF a.shape = <<>> THEN ravel_order(a, "C") ELSE a  OBVIOUS
  <1>2. Laid(b)  BY <1>1, CopyLaid
  <1>3. PICK c, d : c = OnAxis1(b, axis) /\ d = Axis1(b, axis)  OBVIOUS
  <1>4. Laid(c)  BY <1>2, <1>3, OnAxis1Laid
  <1>5. PICK out : out = Blank(c.shape)  OBVIOUS
  <1>6. Laid(out)  BY <1>4, <1>5, LaidIs, BlankLaid
  <1>7. \E cells, lines : argsort_axis(c, d, kind, stable, desc) = LinesPut(out, cells, lines)
    BY <1>5 DEF argsort_axis, Along, Changed
  <1>8. Laid(argsort_axis(c, d, kind, stable, desc))  BY <1>6, <1>7, LinesPutLaid
  <1>9. argsort(a, axis, kind, stable, desc) = IF d = Raised THEN Raised ELSE argsort_axis(c, d, kind, stable, desc)
    BY <1>1, <1>3 DEF argsort
  <1> QED  BY <1>8, <1>9 DEF Sound

\* sort_complex.
LEMMA SortComplexLaid ==
  ASSUME NEW a, Laid(a), NEW kind
  PROVE  Sound(sort_complex(a, kind))
  <1>1. PICK s : s = sort_axis(a, Len(a.shape), kind, FALSE, FALSE)  OBVIOUS
  <1>2. a.shape \in Seq(Nat)  BY LaidIs
  <1>3. Laid(s)  BY <1>1, <1>2, BlankLaid, SortedLaid DEF sort_axis
  <1>4. PICK b : b = [i \in DOMAIN s.buf |-> IF kind = "complex" THEN s.buf[i] ELSE <<s.buf[i][1], 0>>]
    OBVIOUS
  <1>5. sort_complex(a, kind) = IF a.shape = <<>> THEN Raised ELSE [s EXCEPT !.buf = b]
    BY <1>1, <1>4 DEF sort_complex
  <1>6. Laid([s EXCEPT !.buf = b])  BY <1>3, BufferLaid
  <1> QED  BY <1>5, <1>6 DEF Sound

\* lexsort, for any number of keys.
LEMMA LexSortLaid ==
  ASSUME NEW keys, Laid(keys[1]), NEW kinds, NEW axis
  PROVE  Sound(lexsort(keys, kinds, axis))
  <1>1. keys[1].shape \in Seq(Nat)  BY LaidIs
  <1>2. PICK out : out = Blank(keys[1].shape)  OBVIOUS
  <1>3. Laid(out)  BY <1>1, <1>2, BlankLaid
  <1>4. \/ lexsort(keys, kinds, axis) = Raised
        \/ \E cells, lines : lexsort(keys, kinds, axis) = LinesPut(out, cells, lines)
    BY <1>2 DEF lexsort
  <1> QED  BY <1>3, <1>4, LinesPutLaid DEF Sound

----------------------------------------------------------------------------
(* Searches.                                                                  *)

\* The positions where something holds, in order.
LEMMA PickedPlaces ==
  ASSUME NEW n \in Nat, NEW S \in SUBSET (1..n), NEW q, q = Ascending(S)
  PROVE  q \in Seq(S) /\ Len(q) \in Nat /\ DOMAIN q = 1..Len(q)
  <1>1. S \in SUBSET (0..n)  OBVIOUS
  <1>2. n \in Int  OBVIOUS
  <1>3. q \in Seq(S)  BY <1>1, <1>2, HitsAre
  <1> QED  BY <1>3

\* The length of a sequence.
LEMMA ListedLen ==
  ASSUME NEW s, Listed(s)
  PROVE  Len(s) \in Nat /\ DOMAIN s = 1..Len(s)
  <1>1. PICK n \in Nat : s = [i \in 1..n |-> s[i]]  BY DEF Listed
  <1>2. PICK f : f = [i \in 1..n |-> s[i]]  OBVIOUS
  <1>3. Len(f) = n /\ DOMAIN f = 1..n  BY <1>2
  <1> QED  BY <1>1, <1>2, <1>3

\* The elements of an array are a sequence.
LEMMA ElemsAre ==
  ASSUME NEW a, Laid(a)
  PROVE  Listed(Elems(a)) /\ Listed(Flattened(a))
  <1>1. Good(to_contiguous(a))  BY ToContiguousIs
  <1>2. Good(ravel_order(a, "C"))  BY RavelIs
  <1> QED  BY <1>1, <1>2 DEF Elems, Flattened, Good

\* The true elements are counted.
LEMMA MaskIs ==
  ASSUME NEW a, Laid(a), NEW kind
  PROVE  Len(Hits(is_truthy_mask(a, kind))) \in Nat
  <1>1. PICK n \in Nat : n = Len(Elems(a)) /\ DOMAIN Elems(a) = 1..n  BY ElemsAre, ListedLen
  <1>2. PICK m : m = is_truthy_mask(a, kind)  OBVIOUS
  <1>3. DOMAIN m = 1..n  BY <1>1, <1>2 DEF is_truthy_mask
  <1>4. PICK S : S = {i \in DOMAIN m : m[i]}  OBVIOUS
  <1>5. S \in SUBSET (1..n)  BY <1>3, <1>4
  <1>6. Hits(m) = Ascending(S)  BY <1>4 DEF Hits
  <1> QED  BY <1>2, <1>5, <1>6, PickedPlaces

\* The coordinates along an axis.
LEMMA CoordinatesLaid ==
  ASSUME NEW shape \in Seq(Nat), NEW hits, Len(hits) \in Nat, NEW d \in DOMAIN shape
  PROVE  Laid(Coordinates(shape, hits)[d])
  <1>1. PICK l \in Nat : l = Len(hits)  OBVIOUS
  <1>2. <<l>> \in Seq(Nat)  OBVIOUS
  <1>3. \E buf : Coordinates(shape, hits)[d] = from_buffer(buf, <<l>>, "C")  BY <1>1 DEF Coordinates
  <1> QED  BY <1>2, <1>3, FromBufferLaid

\* nonzero gives a vector for each axis.
LEMMA NonZeroLaid ==
  ASSUME NEW a, Laid(a), NEW kind, nonzero(a, kind) # Raised, NEW d \in 1..Max({1, Len(a.shape)})
  PROVE  Laid(nonzero(a, kind)[d])
  <1>1. PICK hits : hits = Hits(is_truthy_mask(a, kind))  OBVIOUS
  <1>2. Len(hits) \in Nat  BY <1>1, MaskIs
  <1>3. a.shape # <<>> /\ nonzero(a, kind) = Coordinates(a.shape, hits)  BY <1>1 DEF nonzero
  <1>4. PICK n \in Nat : n = Len(a.shape) /\ DOMAIN a.shape = 1..n /\ a.shape \in Seq(Nat)  BY LaidIs
  <1>5. n >= 1  BY <1>3, <1>4
  <1>6. PICK o, z \in Int : o = 1 /\ z = n  BY <1>4
  <1>7. Max({o, z}) = IF o >= z THEN o ELSE z  BY MinMaxTwo
  <1>8. d \in 1..n  BY <1>4, <1>5, <1>6, <1>7
  <1> QED  BY <1>2, <1>3, <1>4, <1>8, CoordinatesLaid

\* flatnonzero.
LEMMA FlatNonZeroLaid ==
  ASSUME NEW a, Laid(a), NEW kind
  PROVE  Laid(flatnonzero(a, kind))
  <1>1. PICK b : b = ravel_order(a, "C")  OBVIOUS
  <1>2. PICK n \in Nat : n = Size(a.shape)  BY LaidIs
  <1>3. Laid(b) /\ b.shape = <<n>>  BY <1>1, <1>2, CopyLaid
  <1>4. b.shape # <<>> /\ b.shape \in Seq(Nat)  BY <1>3
  <1>5. PICK hits : hits = Hits(is_truthy_mask(b, kind))  OBVIOUS
  <1>6. Len(hits) \in Nat  BY <1>3, <1>5, MaskIs
  <1>7. nonzero(b, kind) = Coordinates(b.shape, hits)  BY <1>4, <1>5 DEF nonzero
  <1>8. PICK d : d = 1  OBVIOUS
  <1>9. d \in DOMAIN b.shape  BY <1>3, <1>8
  <1>10. Laid(Coordinates(b.shape, hits)[d])  BY <1>4, <1>6, <1>9, CoordinatesLaid
  <1> QED  BY <1>1, <1>7, <1>8, <1>10 DEF flatnonzero

\* argwhere.
LEMMA ArgWhereLaid ==
  ASSUME NEW a, Laid(a), NEW kind
  PROVE  Sound(argwhere(a, kind))
  <1>1. CASE a.shape = <<>>
    <2>1. PICK x \in Nat : x = IF is_truthy_mask(a, kind)[1] THEN 1 ELSE 0  OBVIOUS
    <2>2. <<x, 0>> \in Seq(Nat)  OBVIOUS
    <2>3. argwhere(a, kind) = from_buffer(<<>>, <<x, 0>>, "C")  BY <1>1, <2>1 DEF argwhere
    <2> QED  BY <2>2, <2>3, FromBufferLaid DEF Sound
  <1>2. CASE a.shape # <<>>
    <2>1. PICK n \in Nat : n = Len(a.shape) /\ DOMAIN a.shape = 1..n  BY LaidIs
    <2>2. PICK hits : hits = Hits(is_truthy_mask(a, kind))  OBVIOUS
    <2>3. PICK l \in Nat : l = Len(hits)  BY <2>2, MaskIs
    <2>4. DOMAIN hits = 1..l
      <3>1. PICK m : m = is_truthy_mask(a, kind)  OBVIOUS
      <3>2. PICK k \in Nat : k = Len(Elems(a)) /\ DOMAIN Elems(a) = 1..k  BY ElemsAre, ListedLen
      <3>3. DOMAIN m = 1..k  BY <3>1, <3>2 DEF is_truthy_mask
      <3>4. PICK S : S = {i \in DOMAIN m : m[i]}  OBVIOUS
      <3>5. S \in SUBSET (1..k)  BY <3>3, <3>4
      <3>6. hits = Ascending(S)  BY <2>2, <3>1, <3>4 DEF Hits
      <3> QED  BY <2>3, <3>5, <3>6, PickedPlaces
    <2>5. PICK cols : cols = Coordinates(a.shape, hits)  OBVIOUS
    <2>6. nonzero(a, kind) = cols  BY <1>2, <2>2, <2>5 DEF nonzero
    <2>7. cols = [d \in 1..n |-> cols[d]]  BY <2>1, <2>5 DEF Coordinates
    <2>8. Len(cols) = n
      <3>1. PICK f : f = [d \in 1..n |-> cols[d]]  OBVIOUS
      <3>2. Len(f) = n  BY <3>1
      <3> QED  BY <2>7, <3>1, <3>2
    <2>9. PICK e : e = 1  OBVIOUS
    <2>10. e \in DOMAIN a.shape  BY <1>2, <2>1, <2>9
    <2>11. PICK w : w = [i \in 1..l |-> Position(a.shape, hits[i] - 1)[e]]  OBVIOUS
    <2>12. cols[e] = from_buffer(w, <<l>>, "C")  BY <2>3, <2>4, <2>5, <2>10, <2>11 DEF Coordinates
    <2>13. from_buffer(w, <<l>>, "C").buf = w  BY DEF from_buffer, Fresh
    <2>14. Len(cols[e].buf) = l  BY <2>11, <2>12, <2>13
    <2>15. \E buf : argwhere(a, kind) = from_buffer(buf, <<l, n>>, "C")
      BY <1>2, <2>6, <2>8, <2>9, <2>14 DEF argwhere, Interleaved
    <2>16. <<l, n>> \in Seq(Nat)  OBVIOUS
    <2> QED  BY <2>15, <2>16, FromBufferLaid DEF Sound
  <1> QED  BY <1>1, <1>2

\* broadcast_view.
LEMMA StretchedLaid ==
  ASSUME NEW a, Laid(a), NEW target \in Seq(Nat), Len(a.shape) <= Len(target)
  PROVE  Laid(broadcast_view(a, target))
  <1>1. PICK s, t : s = a.shape /\ t = a.strides  OBVIOUS
  <1>2. s \in Seq(Nat) /\ t \in Seq(Int) /\ Len(t) = Len(s) /\ Len(s) <= Len(target)  BY <1>1, LaidIs
  <1>3. PICK r : r = broadcast_strides_to(s, t, target)  OBVIOUS
  <1>4. Spans(target, r)  BY <1>2, <1>3, StretchSpans
  <1>5. a.offset \in Int  BY LaidIs
  <1> QED  BY <1>1, <1>3, <1>4, <1>5, WindowLaid DEF broadcast_view

\* extract, also when it raises.
LEMMA ExtractLaid ==
  ASSUME NEW b, Laid(b), NEW kind, NEW a, Laid(a)
  PROVE  Sound(extract(b, kind, a))
  <1>1. PICK shape : shape = broadcast_shapes(<<b.shape, a.shape>>)  OBVIOUS
  <1>2. CASE shape = Raised  BY <1>1, <1>2 DEF extract, Sound
  <1>3. CASE shape # Raised
    <2>1. b.shape \in Seq(Nat) /\ a.shape \in Seq(Nat)  BY LaidIs
    <2>2. shape \in Seq(Nat) /\ Len(b.shape) <= Len(shape)  BY <1>1, <1>3, <2>1, BroadcastTwo
    <2>3. PICK v : v = broadcast_view(b, shape)  OBVIOUS
    <2>4. Laid(v)  BY <2>2, <2>3, StretchedLaid
    <2>5. PICK hits : hits = Hits(is_truthy_mask(v, kind))  OBVIOUS
    <2>6. PICK l \in Nat : l = Len(hits)  BY <2>4, <2>5, MaskIs
    <2>7. \E buf : extract(b, kind, a) = from_buffer(buf, <<l>>, "C")
      BY <1>1, <1>3, <2>3, <2>5, <2>6 DEF extract
    <2>8. <<l>> \in Seq(Nat)  OBVIOUS
    <2> QED  BY <2>7, <2>8, FromBufferLaid DEF Sound
  <1> QED  BY <1>2, <1>3

\* Three shapes.
LEMMA ThreeShapely ==
  ASSUME NEW r \in Seq(Nat), NEW s \in Seq(Nat), NEW t \in Seq(Nat)
  PROVE  Shapely(<<r, s, t>>)
  <1>1. PICK u : u = <<r, s, t>>  OBVIOUS
  <1>2. Len(u) = 3 /\ DOMAIN u = 1..3 /\ u[1] = r /\ u[2] = s /\ u[3] = t  BY <1>1
  <1>3. \A i \in 1..3 : u[i] \in Seq(Nat)  BY <1>2
  <1> QED  BY <1>1, <1>2, <1>3 DEF Shapely

\* where with three operands.
LEMMA WhereLaid ==
  ASSUME NEW b, Laid(b), NEW kind, NEW x, Laid(x), NEW y, Laid(y)
  PROVE  Sound(where_select(b, kind, x, y))
  <1>1. PICK shapes : shapes = <<b.shape, x.shape, y.shape>>  OBVIOUS
  <1>2. b.shape \in Seq(Nat) /\ x.shape \in Seq(Nat) /\ y.shape \in Seq(Nat)  BY LaidIs
  <1>3. Shapely(shapes)  BY <1>1, <1>2, ThreeShapely
  <1>4. PICK shape : shape = broadcast_shapes(shapes)  OBVIOUS
  <1>5. shape # Raised => shape \in Seq(Nat)  BY <1>3, <1>4, BroadcastIs
  <1>6. IF shape = Raised THEN where_select(b, kind, x, y) = Raised
        ELSE \E buf : where_select(b, kind, x, y) = from_buffer(buf, shape, "C")
    BY <1>1, <1>4 DEF where_select
  <1> QED  BY <1>5, <1>6, FromBufferLaid DEF Sound

\* searchsorted, with and without a sorter.
LEMMA SearchSortedLaid ==
  ASSUME NEW a, NEW values, Laid(values), NEW kind, NEW right, NEW sorter
  PROVE  Sound(searchsorted(a, values, kind, right, sorter))
  <1>1. values.shape \in Seq(Nat)  BY LaidIs
  <1>2. \/ searchsorted(a, values, kind, right, sorter) = Raised
        \/ \E buf : searchsorted(a, values, kind, right, sorter) = from_buffer(buf, values.shape, "C")
    BY DEF searchsorted
  <1> QED  BY <1>1, <1>2, FromBufferLaid DEF Sound

\* nanargmin and nanargmax.
LEMMA NanArgLaid ==
  ASSUME NEW a, Laid(a), NEW axis, NEW keepdims, NEW kind, NEW max
  PROVE  Sound(nanargext(a, axis, keepdims, kind, max))
  <1>1. ASSUME NEW b, NEW d, NEW shape \in Seq(Nat)
        PROVE  Sound(NanArgs(b, d, kind, max, shape))
    <2>1. \/ NanArgs(b, d, kind, max, shape) = Raised
          \/ \E buf : NanArgs(b, d, kind, max, shape) = from_buffer(buf, shape, "C")
      BY DEF NanArgs
    <2> QED  BY <2>1, FromBufferLaid DEF Sound
  <1>2. PICK d : d = IF axis = None THEN 1 ELSE normalize_axis(axis, Max({1, Len(a.shape)}))  OBVIOUS
  <1>3. PICK s, t, u, v : /\ s = [e \in DOMAIN a.shape |-> 1] /\ t = <<>>
                          /\ u = Put1(a.shape, d, 1) /\ v = Permuted(a.shape, Kept(a, {d}))
    OBVIOUS
  <1>4. PICK n \in Nat : n = Len(a.shape) /\ DOMAIN a.shape = 1..n /\ a.shape \in Seq(Nat)  BY LaidIs
  <1>5. s \in Seq(Nat)
    <2>1. s = [e \in 1..n |-> 1]  BY <1>3, <1>4
    <2>2. s \in [1..n -> Nat]  BY <2>1
    <2> QED  BY <2>2, Enlisted
  <1>6. t \in Seq(Nat)  BY <1>3
  <1>7. u \in Seq(Nat)
    <2>1. PICK N, w, x : N = Nat /\ w = a.shape /\ x = 1  OBVIOUS
    <2>2. w \in Seq(N) /\ x \in N  BY <1>4, <2>1
    <2>3. Put1(w, d, x) \in Seq(N)  BY <2>2, Put1Is
    <2> QED  BY <1>3, <2>1, <2>3
  <1>8. v \in Seq(Nat)  BY <1>3, KeptShape
  <1>9. \/ nanargext(a, axis, keepdims, kind, max) = Raised
        \/ \E b, e : \E shape \in {s, t, u, v} : nanargext(a, axis, keepdims, kind, max) = NanArgs(b, e, kind, max, shape)
    <2>1. PICK r : r = nanargext(a, axis, keepdims, kind, max)  OBVIOUS
    <2>2. \/ r = Raised
          \/ r = NanArgs(ravel_order(a, "C"), 1, kind, max, IF keepdims THEN s ELSE t)
          \/ r = NanArgs(a, d, kind, max, IF keepdims THEN u ELSE v)
      BY <1>2, <1>3, <2>1 DEF nanargext
    <2>3. CASE r = NanArgs(ravel_order(a, "C"), 1, kind, max, IF keepdims THEN s ELSE t)  BY <2>1, <2>3
    <2>4. CASE r = NanArgs(a, d, kind, max, IF keepdims THEN u ELSE v)  BY <2>1, <2>4
    <2> QED  BY <2>1, <2>2, <2>3, <2>4
  <1> QED  BY <1>1, <1>5, <1>6, <1>7, <1>8, <1>9 DEF Sound

----------------------------------------------------------------------------
(* Distinct elements.                                                         *)

\* A new vector.
LEMMA VectorLaid ==
  ASSUME NEW s, Len(s) \in Nat
  PROVE  Laid(Vector(s)) /\ Vector(s).buf = s /\ Vector(s).shape = <<Len(s)>>
  <1>1. PICK l \in Nat : l = Len(s)  OBVIOUS
  <1>2. <<l>> \in Seq(Nat)  OBVIOUS
  <1>3. Vector(s) = from_buffer(s, <<l>>, "C")  BY <1>1 DEF Vector
  <1>4. from_buffer(s, <<l>>, "C").buf = s  BY DEF from_buffer, Fresh
  <1>5. PICK x : x = from_buffer(s, <<l>>, "C")  OBVIOUS
  <1>6. Laid(x) /\ x.shape = <<l>>  BY <1>2, <1>5, FromBufferLaid
  <1> QED  BY <1>1, <1>3, <1>4, <1>5, <1>6

\* What is known of groups of n positions.
Groups(g, n) == Listed(g.first) /\ Listed(g.counts) /\ Listed(g.inverse) /\ Len(g.inverse) = n

\* A function on 1..n is a sequence of n elements.
LEMMA ListedMap ==
  ASSUME NEW n \in Nat, NEW s, s = [i \in 1..n |-> s[i]]
  PROVE  Listed(s) /\ Len(s) = n /\ DOMAIN s = 1..n
  <1>1. PICK f : f = [i \in 1..n |-> s[i]]  OBVIOUS
  <1>2. Len(f) = n /\ DOMAIN f = 1..n  BY <1>1
  <1>3. Listed(s)  BY DEF Listed
  <1> QED  BY <1>1, <1>2, <1>3

\* Grouping an order gives groups of its places.
LEMMA GroupsAre ==
  ASSUME NEW n \in Nat, NEW order, DOMAIN order = 1..n, NEW eq, NEW g, g = stable_group_by(order, eq)
  PROVE  Groups(g, n)
  <1>1. PICK heads : heads = {k \in DOMAIN order : k = 1 \/ ~eq[order[k - 1], order[k]]}  OBVIOUS
  <1>2. PICK group : group = [k \in DOMAIN order |-> Cardinality({h \in heads : h <= k})]  OBVIOUS
  <1>3. g = Grouped(order, heads, group)  BY <1>1, <1>2 DEF stable_group_by
  <1>4. heads \in SUBSET (1..n)  BY <1>1
  <1>5. PICK q : q = Ascending(heads)  OBVIOUS
  <1>6. PICK m \in Nat : m = Len(q) /\ DOMAIN q = 1..m  BY <1>4, <1>5, PickedPlaces
  <1>7. PICK c \in Nat : c = Cardinality(heads)  BY <1>4, IntervalFinite, FS_Subset, FS_CardinalityType
  <1>8. /\ g.first = Permuted(order, q)
        /\ g.inverse = [i \in DOMAIN order |-> group[CHOOSE k \in DOMAIN order : order[k] = i] - 1]
        /\ g.counts = [h \in 1..Cardinality(heads) |-> Cardinality({k \in DOMAIN order : group[k] = h})]
    BY <1>3, <1>5 DEF Grouped
  <1>9. g.first = [i \in 1..m |-> g.first[i]]  BY <1>6, <1>8 DEF Permuted
  <1>10. g.inverse = [i \in 1..n |-> g.inverse[i]]  BY <1>8
  <1>11. g.counts = [h \in 1..c |-> g.counts[h]]  BY <1>7, <1>8
  <1> QED  BY <1>9, <1>10, <1>11, ListedMap DEF Groups

\* A stable order has every place.
LEMMA StableOrder ==
  ASSUME NEW n \in Nat, NEW lt
  PROVE  DOMAIN stable_order(n, lt) = 1..n
  BY DEF stable_order, ByRank, Ranks

\* unique_raw gives groups of the elements.
LEMMA UniqueRawIs ==
  ASSUME NEW s, Listed(s), NEW kind, NEW canon, NEW equal_nan, NEW u, u = unique_raw(s, kind, canon, equal_nan)
  PROVE  Groups(u, Len(s)) /\ Listed(u.values)
  <1>1. PICK n \in Nat : n = Len(s)  BY ListedLen
  <1>2. PICK cn : cn = (canon /\ Len(s) > 1)  OBVIOUS
  <1>3. PICK order : order = stable_order(n, Less(s, kind, cn, FALSE))  OBVIOUS
  <1>4. DOMAIN order = 1..n  BY <1>3, StableOrder
  <1>5. PICK g : g = stable_group_by(order, Sames(s, kind, equal_nan))  OBVIOUS
  <1>6. Groups(g, n)  BY <1>4, <1>5, GroupsAre
  <1>7. PICK b : b = (kind = "complex" /\ equal_nan /\ cn)  OBVIOUS
  <1>8. PICK f : f = FixedUp(s, g, b)  OBVIOUS
  <1>9. u = Represented(s, kind, cn, f)  BY <1>1, <1>2, <1>3, <1>5, <1>7, <1>8 DEF unique_raw
  <1>10. PICK m \in Nat : g.first = [i \in 1..m |-> g.first[i]]  BY <1>6 DEF Groups, Listed
  <1>11. DOMAIN g.first = 1..m  BY <1>10, ListedMap
  <1>12. /\ f.first = [i \in 1..m |-> f.first[i]]
         /\ f.inverse = g.inverse /\ f.counts = g.counts
    <2>1. CASE b
      <3>1. PICK h : h = [i \in DOMAIN g.first |->
                            IF IsNaN("complex", s[g.first[i]]) THEN Min({j \in DOMAIN s : g.inverse[j] = i - 1}) ELSE g.first[i]]
        OBVIOUS
      <3>2. f = [g EXCEPT !.first = h]
        BY <1>8, <2>1, <3>1 DEF FixedUp, fixup_complex_nan_group_representative
      <3>3. g = Grouped(order, {k \in DOMAIN order : k = 1 \/ ~Sames(s, kind, equal_nan)[order[k - 1], order[k]]},
                        [k \in DOMAIN order |-> Cardinality({h1 \in {k1 \in DOMAIN order : k1 = 1 \/ ~Sames(s, kind, equal_nan)[order[k1 - 1], order[k1]]} : h1 <= k})])
        BY <1>5 DEF stable_group_by
      <3>4. g = [first |-> g.first, inverse |-> g.inverse, counts |-> g.counts]  BY <3>3 DEF Grouped
      <3>5. f = [first |-> h, inverse |-> g.inverse, counts |-> g.counts]  BY <3>2, <3>4
      <3>6. h = [i \in 1..m |-> h[i]]  BY <1>11, <3>1
      <3> QED  BY <3>5, <3>6
    <2>2. CASE ~b  BY <1>8, <1>10, <2>2 DEF FixedUp
    <2> QED  BY <2>1, <2>2
  <1>13. DOMAIN f.first = 1..m  BY <1>12, ListedMap
  <1>14. PICK v : v = [i \in DOMAIN f.first |-> IF cn THEN canonicalize(kind, s[f.first[i]]) ELSE s[f.first[i]]]
    OBVIOUS
  <1>15. u = [values |-> v, first |-> f.first, inverse |-> f.inverse, counts |-> f.counts]
    BY <1>9, <1>14 DEF Represented
  <1>16. v = [i \in 1..m |-> v[i]]  BY <1>13, <1>14
  <1>17. Listed(v) /\ Listed(f.first)  BY <1>12, <1>16, ListedMap
  <1>18. Listed(f.inverse) /\ Len(f.inverse) = n /\ Listed(f.counts)  BY <1>6, <1>12 DEF Groups
  <1> QED  BY <1>1, <1>15, <1>17, <1>18 DEF Groups

\* The four results of unique.
Unique4(u) == Laid(u.values) /\ Laid(u.index) /\ Laid(u.inverse) /\ Laid(u.counts)

\* Places counted from zero.
LEMMA FromZeroIs ==
  ASSUME NEW s, Listed(s)
  PROVE  Listed(FromZero(s)) /\ Len(FromZero(s)) = Len(s)
  <1>1. PICK n \in Nat : n = Len(s) /\ DOMAIN s = 1..n  BY ListedLen
  <1>2. PICK f : f = FromZero(s)  OBVIOUS
  <1>3. f = [i \in 1..n |-> s[i] - 1]  BY <1>1, <1>2 DEF FromZero
  <1>4. f = [i \in 1..n |-> f[i]]  BY <1>3
  <1> QED  BY <1>1, <1>2, <1>4, ListedMap

\* The four results of unique without an axis.
LEMMA UniqueGeneralIs ==
  ASSUME NEW a, Laid(a), NEW kind, NEW indices, NEW equal_nan
  PROVE  /\ Unique4(unique_general(a, kind, indices, equal_nan))
         /\ Listed(unique_general(a, kind, indices, equal_nan).values.buf)
         /\ Listed(unique_general(a, kind, indices, equal_nan).index.buf)
         /\ \E n \in Nat : unique_general(a, kind, indices, equal_nan).values.shape = <<n>>
  <1>1. PICK s : s = Flattened(a)  OBVIOUS
  <1>2. Listed(s)  BY <1>1, ElemsAre
  <1>3. PICK canon, u : canon = ~indices /\ u = unique_raw(s, kind, canon, equal_nan)  OBVIOUS
  <1>4. Groups(u, Len(s)) /\ Listed(u.values)  BY <1>2, <1>3, UniqueRawIs
  <1>5. PICK r : r = unique_general(a, kind, indices, equal_nan)  OBVIOUS
  <1>6. r = Unpacked(u, a.shape)  BY <1>1, <1>3, <1>5 DEF unique_general
  <1>7. /\ r.values = Vector(u.values) /\ r.index = Vector(FromZero(u.first))
        /\ r.inverse = from_buffer(u.inverse, a.shape, "C") /\ r.counts = Vector(u.counts)
    BY <1>6 DEF Unpacked
  <1>8. Len(u.values) \in Nat /\ Laid(r.values) /\ r.values.buf = u.values /\ r.values.shape = <<Len(u.values)>>
    BY <1>4, <1>7, ListedLen, VectorLaid
  <1>9. Listed(FromZero(u.first))  BY <1>4, FromZeroIs DEF Groups
  <1>10. Laid(r.index) /\ r.index.buf = FromZero(u.first)  BY <1>7, <1>9, ListedLen, VectorLaid
  <1>11. Laid(r.inverse)  BY <1>7, LaidIs, FromBufferLaid
  <1>12. Laid(r.counts)  BY <1>4, <1>7, ListedLen, VectorLaid DEF Groups
  <1> QED  BY <1>4, <1>5, <1>8, <1>9, <1>10, <1>11, <1>12 DEF Unique4

\* An axis moved to the front, and the front moved back.
LEMMA AxisInFrontIs ==
  ASSUME NEW a, Laid(a), NEW d \in 1..Len(a.shape)
  PROVE  /\ Laid(AxisInFront(a, d)) /\ Len(AxisInFront(a, d).shape) = Len(a.shape)
         /\ Laid(FrontAxisAt(a, d))
  <1>1. PICK n \in Nat : n = Len(a.shape) /\ DOMAIN a.shape = 1..n  BY LaidIs
  <1>2. PICK q : q = Ascending((1..n) \ {d})  OBVIOUS
  <1>3. PICK V, e : V = 1..n /\ e = <<d>>  OBVIOUS
  <1>4. q \in Seq(V) /\ Len(q) = n - 1  BY <1>1, <1>2, <1>3, OneLeft
  <1>5. e \in Seq(V) /\ Len(e) = 1  BY <1>1, <1>3
  <1>6. PICK p : p = e \o q  OBVIOUS
  <1>7. p \in Seq(V) /\ Len(p) = Len(e) + Len(q)  BY <1>4, <1>5, <1>6, Joins
  <1>8. p \in Seq(1..n) /\ Len(p) = n  BY <1>1, <1>3, <1>4, <1>5, <1>7
  <1>9. Lists(p, n, n)  BY <1>8, ListsSeq
  <1>10. PICK b : b = transpose_axes(a, p)  OBVIOUS
  <1>11. Laid(b) /\ Len(b.shape) = n  BY <1>1, <1>9, <1>10, TransposeLaid
  <1>12. AxisInFront(a, d) = to_contiguous(b)  BY <1>1, <1>2, <1>3, <1>6, <1>10 DEF AxisInFront
  <1>13. PICK o : o = [k \in 1..n |-> IF k < d THEN k + 1 ELSE IF k = d THEN 1 ELSE k]  OBVIOUS
  <1>14. Lists(o, n, n)  BY <1>1, <1>13 DEF Lists
  <1>15. PICK c : c = transpose_axes(a, o)  OBVIOUS
  <1>16. Laid(c)  BY <1>1, <1>14, <1>15, TransposeLaid
  <1>17. FrontAxisAt(a, d) = to_contiguous(c)  BY <1>1, <1>13, <1>15 DEF FrontAxisAt
  <1> QED  BY <1>1, <1>11, <1>12, <1>16, <1>17, ContigLaid

\* The four results of unique along an axis.
LEMMA UniqueAxisIs ==
  ASSUME NEW a, Laid(a), NEW d \in 1..Len(a.shape), NEW kind
  PROVE  Unique4(unique_axis(a, d, kind))
  <1>1. PICK moved : moved = AxisInFront(a, d)  OBVIOUS
  <1>2. Laid(moved) /\ Len(moved.shape) = Len(a.shape)  BY <1>1, AxisInFrontIs
  <1>3. PICK n \in Nat : n = Len(moved.shape) /\ DOMAIN moved.shape = 1..n /\ moved.shape \in Seq(Nat)
    BY <1>2, LaidIs
  <1>4. d \in 1..n  BY <1>2, <1>3
  <1>5. PICK e : e = 1  OBVIOUS
  <1>6. e \in 1..n  BY <1>3, <1>4, <1>5
  <1>7. PICK m \in Nat : m = moved.shape[e]  BY <1>3, <1>6
  <1>8. PICK rows : rows = Rows(moved)  OBVIOUS
  <1>9. rows = [i \in 1..m |-> rows[i]]  BY <1>5, <1>7, <1>8 DEF Rows
  <1>10. Len(rows) = m  BY <1>9, ListedMap
  <1>11. PICK lt, eq : lt = RowsLess(rows, kind) /\ eq = RowsSame(rows, kind)  OBVIOUS
  <1>12. PICK order : order = stable_order(m, lt)  OBVIOUS
  <1>13. DOMAIN order = 1..m  BY <1>12, StableOrder
  <1>14. PICK g : g = stable_group_by(order, eq)  OBVIOUS
  <1>15. Groups(g, m)  BY <1>13, <1>14, GroupsAre
  <1>16. g = unique_axis_raw(rows, kind)  BY <1>10, <1>11, <1>12, <1>14 DEF unique_axis_raw
  <1>17. PICK r : r = unique_axis(a, d, kind)  OBVIOUS
  <1>18. r = UnpackedAxis(g, moved, d)  BY <1>1, <1>8, <1>16, <1>17 DEF unique_axis, UniqueRows
  <1>19. PICK f : f = FromZero(g.first)  OBVIOUS
  <1>20. Listed(f)  BY <1>15, <1>19, FromZeroIs DEF Groups
  <1>21. PICK l \in Nat : l = Len(f)  BY <1>20, ListedLen
  <1>22. /\ r.values = FrontAxisAt(AlongAxis(moved, e, f), d) /\ r.index = Vector(f)
         /\ r.inverse = Vector(g.inverse) /\ r.counts = Vector(g.counts)
    BY <1>5, <1>18, <1>19 DEF UnpackedAxis
  <1>23. PICK N, s : N = Nat /\ s = moved.shape  OBVIOUS
  <1>24. PICK t : t = Put1(s, e, l)  OBVIOUS
  <1>25. t \in Seq(N) /\ Len(t) = Len(s)  BY <1>3, <1>23, <1>24, Put1Is
  <1>26. \E buf : AlongAxis(moved, e, f) = from_buffer(buf, t, "C")
    BY <1>21, <1>23, <1>24 DEF AlongAxis, Arranged
  <1>27. PICK x : x = AlongAxis(moved, e, f)  OBVIOUS
  <1>28. Laid(x) /\ x.shape = t  BY <1>23, <1>25, <1>26, <1>27, FromBufferLaid
  <1>29. Len(x.shape) = n  BY <1>3, <1>23, <1>25, <1>28
  <1>30. Laid(FrontAxisAt(x, d))  BY <1>4, <1>28, <1>29, AxisInFrontIs
  <1>31. Laid(r.index)  BY <1>21, <1>22, VectorLaid
  <1>32. Laid(r.inverse) /\ Laid(r.counts)  BY <1>15, <1>22, ListedLen, VectorLaid DEF Groups
  <1> QED  BY <1>17, <1>22, <1>27, <1>30, <1>31, <1>32 DEF Unique4

\* unique, also when it raises.
LEMMA UniqueIs ==
  ASSUME NEW a, Laid(a), NEW kind, NEW indices, NEW axis \in Int \cup {None}, NEW equal_nan
  PROVE  unique(a, kind, indices, axis, equal_nan) = Raised \/ Unique4(unique(a, kind, indices, axis, equal_nan))
  <1>1. PICK n \in Nat : n = Len(a.shape)  BY LaidIs
  <1>2. PICK d : d = IF axis = None THEN 1 ELSE normalize_axis(axis, n)  OBVIOUS
  <1>3. PICK r : r = unique(a, kind, indices, axis, equal_nan)  OBVIOUS
  <1>4. \/ r = Raised
        \/ r = unique_general(a, kind, indices, equal_nan)
        \/ axis # None /\ d # Raised /\ r = unique_axis(a, d, kind)
    BY <1>1, <1>2, <1>3 DEF unique
  <1>5. axis # None /\ d # Raised => d \in 1..n  BY <1>2, NormAxisIs
  <1>6. Unique4(unique_general(a, kind, indices, equal_nan))  BY UniqueGeneralIs
  <1> QED  BY <1>1, <1>3, <1>4, <1>5, <1>6, UniqueAxisIs

----------------------------------------------------------------------------
(* Set operations.                                                            *)

\* A sequence of its own elements.
LEMMA ListedSeq ==
  ASSUME NEW s, Listed(s)
  PROVE  s \in Seq(ToSet(s))
  <1>1. PICK n \in Nat : s = [i \in 1..n |-> s[i]]  BY DEF Listed
  <1>2. DOMAIN s = 1..n  BY <1>1, ListedMap
  <1>3. \A i \in 1..n : s[i] \in ToSet(s)  BY <1>2 DEF ToSet
  <1>4. s \in [1..n -> ToSet(s)]  BY <1>1, <1>3
  <1> QED  BY <1>4, Enlisted

\* A sequence.
LEMMA SeqIsListed ==
  ASSUME NEW V, NEW s \in Seq(V)
  PROVE  Listed(s)
  <1>1. PICK n \in Nat : n = Len(s) /\ DOMAIN s = 1..n  OBVIOUS
  <1>2. s = [i \in 1..n |-> s[i]]  BY <1>1
  <1> QED  BY <1>2 DEF Listed

\* Joined sequences.
LEMMA ConcatListed ==
  ASSUME NEW m \in Nat, NEW seqs, seqs = [i \in 1..m |-> seqs[i]], \A i \in 1..m : Listed(seqs[i])
  PROVE  Listed(Concat(seqs))
  <1>1. PICK V : V = UNION {ToSet(seqs[i]) : i \in 1..m}  OBVIOUS
  <1>2. ASSUME NEW i \in 1..m  PROVE seqs[i] \in Seq(V)
    <2>1. PICK s : s = seqs[i]  OBVIOUS
    <2>2. s \in Seq(ToSet(s))  BY <2>1, ListedSeq
    <2>3. ToSet(s) \in SUBSET V  BY <1>1, <2>1
    <2> QED  BY <2>1, <2>2, <2>3
  <1>3. PICK W : W = Seq(V)  OBVIOUS
  <1>4. seqs \in [1..m -> W]  BY <1>2, <1>3
  <1>5. seqs \in Seq(W)  BY <1>4, Enlisted
  <1>6. Concat(seqs) \in Seq(V)  BY <1>3, <1>5, FlattenIs
  <1> QED  BY <1>6, SeqIsListed

\* A segment.
LEMMA SubSeqListed ==
  ASSUME NEW s, NEW i \in Int, NEW j \in Int
  PROVE  Listed(SubSeq(s, i, j))
  <1>1. PICK n \in Int : n = 1 + j - i  OBVIOUS
  <1>2. PICK r : r = SubSeq(s, i, j)  OBVIOUS
  <1>3. r = [k \in 1..n |-> s[k + i - 1]]  BY <1>1, <1>2 DEF SubSeq
  <1>4. PICK m \in Nat : m = IF n < 0 THEN 0 ELSE n  OBVIOUS
  <1>5. 1..n = 1..m  BY <1>4
  <1>6. r = [k \in 1..m |-> r[k]]  BY <1>3, <1>5
  <1> QED  BY <1>2, <1>6 DEF Listed

\* Two sequences joined.
LEMMA JoinListed ==
  ASSUME NEW s, Listed(s), NEW t, Listed(t)
  PROVE  Listed(s \o t)
  <1>1. PICK V : V = ToSet(s) \cup ToSet(t)  OBVIOUS
  <1>2. s \in Seq(ToSet(s)) /\ t \in Seq(ToSet(t))  BY ListedSeq
  <1>3. s \in Seq(V) /\ t \in Seq(V)  BY <1>1, <1>2
  <1>4. s \o t \in Seq(V)  BY <1>3, Joins
  <1> QED  BY <1>4, SeqIsListed

\* Two vectors are joined into one.
LEMMA JoinedVectors ==
  ASSUME Raised \notin Nat, NEW x, Laid(x), NEW m \in Nat, x.shape = <<m>>,
         NEW y, Laid(y), NEW n \in Nat, y.shape = <<n>>
  PROVE  /\ Laid(Joined(<<x, y>>, 1)) /\ Listed(Joined(<<x, y>>, 1).buf)
  <1>1. PICK arrays : arrays = <<x, y>>  OBVIOUS
  <1>2. arrays[1] = x /\ arrays[2] = y /\ DOMAIN arrays = 1..2  BY <1>1
  <1>3. PICK d \in Nat : d = 1  OBVIOUS
  <1>4. PICK t : t = [i \in DOMAIN arrays |-> arrays[i].shape[d]]  OBVIOUS
  <1>5. t[1] = m /\ t[2] = n /\ DOMAIN t = 1..2  BY <1>2, <1>3, <1>4
  <1>6. t \in Seq(Nat)
    <2>1. \A i \in 1..2 : t[i] \in Nat  BY <1>5
    <2>2. t = [i \in 1..2 |-> t[i]]  BY <1>4, <1>5
    <2>3. t \in [1..2 -> Nat]  BY <2>1, <2>2
    <2> QED  BY <2>3, Enlisted
  <1>7. PICK z \in Nat : z = Total(t)  BY <1>6, NatTotal
  <1>8. PICK shape : shape = Put1(x.shape, d, z)  OBVIOUS
  <1>9. shape \in Seq(Nat)
    <2>1. PICK N, u : N = Nat /\ u = x.shape  OBVIOUS
    <2>2. u \in Seq(N)  BY <2>1
    <2> QED  BY <1>7, <1>8, <2>1, <2>2, Put1Is
  <1>a. PICK e \in Seq(Nat) : e = <<>>
    <2>1. <<>> \in Seq(Nat)  OBVIOUS
    <2> QED  BY <2>1, Zenon
  <1>b. PICK l \in Nat : l = Len(arrays[1].shape) /\ l = 1  BY <1>2
  <1>c. SubSeq(shape, d + 1, l) = <<>> /\ SubSeq(shape, 1, d - 1) = <<>>  BY <1>3, <1>9, <1>b
  <1>d. Size(e) \in Nat  BY SizeIs
  <1>10. PICK inner \in Int : inner = Size(SubSeq(shape, d + 1, l))
    <2>1. PICK z0 \in Nat : z0 = Size(e)  BY <1>d
    <2>2. z0 = Size(SubSeq(shape, d + 1, l))  BY <1>a, <1>c, <2>1
    <2>3. z0 \in Int  OBVIOUS
    <2> QED  BY <2>2, <2>3
  <1>11. PICK k \in Nat : k = Size(SubSeq(shape, 1, d - 1))  BY <1>a, <1>c, <1>d
  <1> DEFINE contigs == [i \in DOMAIN arrays |-> to_contiguous(arrays[i])]
             chunk(i, o) == LET len == arrays[i].shape[d] * inner
                            IN  SubSeq(contigs[i].buf, (o - 1) * len + 1, o * len)
             row(o) == [i \in DOMAIN arrays |-> chunk(i, o)]
             rows == [o \in 1..k |-> Concat(row(o))]
  <1>12. ASSUME NEW i \in 1..2, NEW o \in 1..k  PROVE Listed(chunk(i, o))
    <2>1. PICK w \in Int : w = arrays[i].shape[d] * inner
      <3>1. PICK p \in Int : p = arrays[i].shape[d]  BY <1>2, <1>3
      <3>2. p * inner \in Int  OBVIOUS
      <3> QED  BY <3>1, <3>2
    <2>2. PICK q \in Int : q = o - 1  OBVIOUS
    <2>3. q * w \in Int /\ o * w \in Int  OBVIOUS
    <2>4. PICK g, h \in Int : g = q * w + 1 /\ h = o * w  BY <2>3
    <2>5. PICK s : s = contigs[i].buf  OBVIOUS
    <2>6. chunk(i, o) = SubSeq(s, g, h)  BY <2>1, <2>2, <2>4, <2>5
    <2> QED  BY <2>6, SubSeqListed
  <1> HIDE DEF chunk
  <1>13. ASSUME NEW o \in 1..k  PROVE Listed(Concat(row(o)))
    <2>1. PICK r : r = row(o)  OBVIOUS
    <2>2. r = [i \in 1..2 |-> r[i]] /\ \A i \in 1..2 : r[i] = chunk(i, o)  BY <1>2, <2>1
    <2>3. \A i \in 1..2 : Listed(r[i])  BY <1>12, <2>2
    <2>4. PICK c \in Nat : c = 2  OBVIOUS
    <2>5. Listed(Concat(r))  BY <2>2, <2>3, <2>4, ConcatListed
    <2> QED  BY <2>1, <2>5
  <1> HIDE DEF row
  <1>14. Listed(Concat(rows))
    <2>1. PICK r : r = rows  OBVIOUS
    <2>2. r = [o \in 1..k |-> r[o]] /\ \A o \in 1..k : r[o] = Concat(row(o))  BY <2>1
    <2>3. \A o \in 1..k : Listed(r[o])  BY <1>13, <2>2
    <2>4. Listed(Concat(r))  BY <2>2, <2>3, ConcatListed
    <2> QED  BY <2>1, <2>4
  <1>15. PICK bad, odd : /\ bad = (l = 0 \/ d = Raised \/ \E i \in DOMAIN arrays : Len(arrays[i].shape) # l)
                         /\ odd = (\E i \in DOMAIN arrays, q \in 1..l :
                                     q # d /\ arrays[i].shape[q] # arrays[1].shape[q])
    OBVIOUS
  <1>e. ~bad /\ ~odd
    <2>1. l # 0 /\ d # Raised  BY <1>3, <1>b
    <2>2. \A i \in DOMAIN arrays : Len(arrays[i].shape) = l  BY <1>2, <1>b
    <2>3. \A q \in 1..l : q = d  BY <1>3, <1>b
    <2> QED  BY <1>15, <2>1, <2>2, <2>3
  <1>f. shape = Put1(arrays[1].shape, d, Total(t))  BY <1>2, <1>7, <1>8
  <1>16. PICK buf : buf = Concat(rows)  OBVIOUS
  <1>17. Joined(arrays, d) = from_buffer(buf, shape, "C")
    <2>1. Joined(arrays, d) = IF bad \/ odd THEN Raised ELSE from_buffer(Concat(rows), shape, "C")
      BY <1>4, <1>10, <1>11, <1>15, <1>b, <1>f DEF Joined, chunk, row
    <2> QED  BY <1>16, <1>e, <2>1
  <1>18. from_buffer(buf, shape, "C").buf = buf  BY DEF from_buffer, Fresh
  <1> HIDE DEF rows, contigs
  <1>19. Laid(Joined(arrays, d))  BY <1>9, <1>17, FromBufferLaid
  <1> QED  BY <1>1, <1>3, <1>14, <1>16, <1>17, <1>18, <1>19

\* An operand of a set operation is made unique, or flat.
LEMMA MaybeUniqueIs ==
  ASSUME NEW a, Laid(a), NEW kind, NEW assume_unique
  PROVE  /\ Laid(maybe_unique(a, kind, assume_unique)) /\ Listed(maybe_unique(a, kind, assume_unique).buf)
         /\ \E n \in Nat : maybe_unique(a, kind, assume_unique).shape = <<n>>
  <1>1. CASE assume_unique
    <2>1. PICK r : r = ravel_order(a, "C")  OBVIOUS
    <2>2. PICK n \in Nat : n = Size(a.shape)  BY LaidIs
    <2>3. Good(r) /\ r.shape = <<n>>  BY <2>1, <2>2, RavelIs
    <2> QED  BY <1>1, <2>1, <2>3 DEF maybe_unique, Good
  <1>2. CASE ~assume_unique
    <2>1. PICK no, yes : no = FALSE /\ yes = TRUE  BY Zenon
    <2>2. PICK u : u = unique_general(a, kind, no, yes)  OBVIOUS
    <2>3. Laid(u.values) /\ Listed(u.values.buf) /\ \E n \in Nat : u.values.shape = <<n>>
      BY <2>2, UniqueGeneralIs DEF Unique4
    <2>4. maybe_unique(a, kind, assume_unique) = u.values
      BY <1>2, <2>1, <2>2, Zenon DEF maybe_unique, unique_values
    <2> QED  BY <2>3, <2>4
  <1> QED  BY <1>1, <1>2

\* A permuted sequence.
LEMMA PermutedListed ==
  ASSUME NEW s, NEW n \in Nat, NEW q, DOMAIN q = 1..n
  PROVE  Listed(Permuted(s, q)) /\ Len(Permuted(s, q)) = n
  <1>1. PICK r : r = Permuted(s, q)  OBVIOUS
  <1>2. r = [i \in 1..n |-> r[i]]  BY <1>1 DEF Permuted
  <1> QED  BY <1>1, <1>2, ListedMap

\* A sorted buffer.
LEMMA SortedBufferListed ==
  ASSUME NEW s, Listed(s), NEW kind
  PROVE  Listed(sort_canon_buffer(s, kind))
  <1>1. PICK n \in Nat : n = Len(s)  BY ListedLen
  <1>2. PICK lt : lt = Less(s, kind, TRUE, FALSE)  OBVIOUS
  <1>3. PICK q : q = stable_order(n, lt)  OBVIOUS
  <1>4. DOMAIN q = 1..n  BY <1>3, StableOrder
  <1>5. PICK t : t = Permuted(s, q)  OBVIOUS
  <1>6. DOMAIN t = 1..n  BY <1>4, <1>5 DEF Permuted
  <1>7. PICK r : r = sort_canon_buffer(s, kind)  OBVIOUS
  <1>8. r = [i \in 1..n |-> canonicalize(kind, t[i])]
    BY <1>1, <1>2, <1>3, <1>5, <1>6, <1>7 DEF sort_canon_buffer
  <1>9. r = [i \in 1..n |-> r[i]]  BY <1>8
  <1> QED  BY <1>7, <1>9, ListedMap

\* Both operands of a set operation, sorted.
LEMMA CombinedListed ==
  ASSUME Raised \notin Nat, NEW a, Laid(a), NEW b, Laid(b), NEW kind, NEW assume_unique
  PROVE  Listed(Combined(a, b, kind, assume_unique))
  <1>1. PICK x, y : x = maybe_unique(a, kind, assume_unique) /\ y = maybe_unique(b, kind, assume_unique)
    OBVIOUS
  <1>2. Laid(x) /\ Laid(y) /\ \E m, n \in Nat : x.shape = <<m>> /\ y.shape = <<n>>  BY <1>1, MaybeUniqueIs
  <1>3. Listed(Joined(<<x, y>>, 1).buf)  BY <1>2, JoinedVectors
  <1> QED  BY <1>1, <1>3, SortedBufferListed DEF Combined

\* Which neighbours are equal.
LEMMA AdjacentIs ==
  ASSUME NEW s, Listed(s), NEW kind
  PROVE  Len(adjacent_eq(s, kind)) \in Nat /\ DOMAIN adjacent_eq(s, kind) = 1..Len(adjacent_eq(s, kind))
  <1>1. PICK n \in Nat : n = Len(s)  BY ListedLen
  <1>2. PICK S : S = {i \in 1..n - 1 : Equal(kind, s[i], s[i + 1])}  OBVIOUS
  <1>3. S \in SUBSET (1..n)  BY <1>2
  <1>4. PICK q : q = Ascending(S)  OBVIOUS
  <1>5. Len(q) \in Nat /\ DOMAIN q = 1..Len(q)  BY <1>3, <1>4, PickedPlaces
  <1>6. q = adjacent_eq(s, kind)  BY <1>1, <1>2, <1>4 DEF adjacent_eq
  <1> QED  BY <1>5, <1>6

\* The elements that intersect1d and setxor1d keep.
LEMMA BodiesListed ==
  ASSUME NEW s, Listed(s), NEW kind
  PROVE  Listed(intersect_body(s, kind)) /\ Listed(setxor_body(s, kind))
  <1>1. Listed(intersect_body(s, kind))
    <2>1. PICK q : q = adjacent_eq(s, kind)  OBVIOUS
    <2>2. PICK m \in Nat : DOMAIN q = 1..m  BY <2>1, AdjacentIs
    <2>3. Listed(Permuted(s, q))  BY <2>2, PermutedListed
    <2> QED  BY <2>1, <2>3 DEF intersect_body
  <1>2. Listed(setxor_body(s, kind))
    <2>1. PICK n \in Nat : n = Len(s) /\ DOMAIN s = 1..n  BY ListedLen
    <2>2. PICK S : S = {i \in DOMAIN s : \A j \in {i - 1, i + 1} \cap DOMAIN s : ~Equal(kind, s[i], s[j])}
      OBVIOUS
    <2>3. S \in SUBSET (1..n)  BY <2>1, <2>2
    <2>4. PICK q : q = Ascending(S)  OBVIOUS
    <2>5. PICK m \in Nat : DOMAIN q = 1..m  BY <2>3, <2>4, PickedPlaces
    <2>6. Listed(Permuted(s, q))  BY <2>5, PermutedListed
    <2> QED  BY <2>2, <2>4, <2>6 DEF setxor_body
  <1> QED  BY <1>1, <1>2

\* The vector of a sequence.
LEMMA VectorOf ==
  ASSUME NEW s, Listed(s)
  PROVE  Laid(Vector(s))
  BY ListedLen, VectorLaid

\* union1d.
LEMMA UnionLaid ==
  ASSUME Raised \notin Nat, NEW a, Laid(a), NEW b, Laid(b), NEW kind
  PROVE  Laid(union1d(a, b, kind))
  <1>1. PICK m, n : m = Size(a.shape) /\ n = Size(b.shape)  OBVIOUS
  <1>2. m \in Nat /\ n \in Nat  BY <1>1, LaidIs
  <1>3. PICK x, y : x = ravel_order(a, "C") /\ y = ravel_order(b, "C")  OBVIOUS
  <1>4. Laid(x) /\ x.shape = <<m>> /\ Laid(y) /\ y.shape = <<n>>  BY <1>1, <1>3, RavelIs DEF Good
  <1>5. PICK z : z = Joined(<<x, y>>, 1)  OBVIOUS
  <1>6. Laid(z)  BY <1>2, <1>4, <1>5, JoinedVectors
  <1>7. PICK no, yes : no = FALSE /\ yes = TRUE  BY Zenon
  <1>8. PICK u : u = unique_general(z, kind, no, yes)  OBVIOUS
  <1>9. Laid(u.values)  BY <1>6, <1>8, UniqueGeneralIs DEF Unique4
  <1>10. union1d(a, b, kind) = u.values  BY <1>3, <1>5, <1>7, <1>8, Zenon DEF union1d, unique_values
  <1> QED  BY <1>9, <1>10

\* intersect1d, setxor1d and setdiff1d.
LEMMA SetsLaid ==
  ASSUME Raised \notin Nat, NEW a, Laid(a), NEW b, Laid(b), NEW kind, NEW assume_unique
  PROVE  /\ Laid(intersect1d(a, b, kind, assume_unique))
         /\ Laid(setxor1d(a, b, kind, assume_unique))
         /\ Laid(setdiff1d(a, b, kind, assume_unique))
  <1>1. PICK c : c = Combined(a, b, kind, assume_unique)  OBVIOUS
  <1>2. Listed(c)  BY <1>1, CombinedListed
  <1>3. Laid(intersect1d(a, b, kind, assume_unique)) /\ Laid(setxor1d(a, b, kind, assume_unique))
    <2>1. Laid(Vector(intersect_body(c, kind))) /\ Laid(Vector(setxor_body(c, kind)))
      BY <1>2, BodiesListed, VectorOf
    <2> QED  BY <1>1, <2>1 DEF intersect1d, setxor1d
  <1>4. Laid(setdiff1d(a, b, kind, assume_unique))
    <2>1. PICK s : s = maybe_unique(a, kind, assume_unique).buf  OBVIOUS
    <2>2. PICK n \in Nat : DOMAIN s = 1..n  BY <2>1, MaybeUniqueIs, ListedLen
    <2>3. PICK present : present = isin_mask(s, maybe_unique(b, kind, assume_unique).buf, kind)  OBVIOUS
    <2>4. PICK m : m = [i \in DOMAIN s |-> ~present[i]]  OBVIOUS
    <2>5. PICK S : S = {i \in DOMAIN m : m[i]}  OBVIOUS
    <2>6. S \in SUBSET (1..n)  BY <2>2, <2>4, <2>5
    <2>7. PICK q : q = Ascending(S)  OBVIOUS
    <2>8. PICK l \in Nat : DOMAIN q = 1..l  BY <2>6, <2>7, PickedPlaces
    <2>9. q = Hits(m)  BY <2>5, <2>7 DEF Hits
    <2>10. Laid(Vector(Permuted(s, q)))  BY <2>8, PermutedListed, VectorOf
    <2>11. setdiff1d(a, b, kind, assume_unique) = Vector(Permuted(s, q))
      BY <2>1, <2>3, <2>4, <2>9 DEF setdiff1d
    <2> QED  BY <2>10, <2>11
  <1> QED  BY <1>3, <1>4

\* The operand of intersect1d with indices.
LEMMA WithIndicesListed ==
  ASSUME NEW x, Laid(x), NEW kind, NEW assume_unique
  PROVE  Listed(WithIndices(x, kind, assume_unique).values.buf)
  <1>1. CASE assume_unique
    <2>1. Listed(ravel_order(x, "C").buf)  BY RavelIs DEF Good
    <2> QED  BY <1>1, <2>1 DEF WithIndices
  <1>2. CASE ~assume_unique
    <2>1. PICK yes : yes = TRUE  BY Zenon
    <2>2. PICK u : u = unique_general(x, kind, yes, yes)  OBVIOUS
    <2>3. Listed(u.values.buf)  BY <2>2, UniqueGeneralIs
    <2>4. WithIndices(x, kind, assume_unique) = u  BY <1>2, <2>1, <2>2, Zenon DEF WithIndices
    <2> QED  BY <2>3, <2>4
  <1> QED  BY <1>1, <1>2

\* A vector of counts.
LEMMA CountsLaid ==
  ASSUME NEW n \in Nat, NEW s, s = [i \in 1..n |-> s[i]]
  PROVE  Laid(Vector(s))
  BY ListedMap, VectorOf

\* intersect1d with indices.
LEMMA IndicesLaid ==
  ASSUME NEW a, Laid(a), NEW b, Laid(b), NEW kind, NEW assume_unique,
         NEW r, r = intersect1d_return_indices(a, b, kind, assume_unique)
  PROVE  Laid(r.values) /\ Laid(r.index1) /\ Laid(r.index2)
  <1>1. PICK one, two : one = WithIndices(a, kind, assume_unique) /\ two = WithIndices(b, kind, assume_unique)
    OBVIOUS
  <1>2. PICK both : both = one.values.buf \o two.values.buf  OBVIOUS
  <1>3. Listed(both)  BY <1>1, <1>2, WithIndicesListed, JoinListed
  <1>4. PICK n \in Nat : n = Len(both)  BY <1>3, ListedLen
  <1>5. PICK order : order = stable_order(n, Less(both, kind, FALSE, FALSE))  OBVIOUS
  <1>6. DOMAIN order = 1..n  BY <1>5, StableOrder
  <1>7. PICK sorted : sorted = Permuted(both, order)  OBVIOUS
  <1>8. Listed(sorted)  BY <1>6, <1>7, PermutedListed
  <1>9. PICK hits : hits = adjacent_eq(sorted, kind)  OBVIOUS
  <1>a. PICK m \in Nat : DOMAIN hits = 1..m  BY <1>8, <1>9, AdjacentIs
  <1>10. r = Matches(one, two, order, hits, sorted)
    <2>1. r = Merged(one, two, both, kind)  BY <1>1, <1>2 DEF intersect1d_return_indices, MergedValues
    <2>2. Merged(one, two, both, kind) = SortedMatches(one, two, both, order, kind)
      BY <1>4, <1>5, Zenon DEF Merged
    <2>3. SortedMatches(one, two, both, order, kind) = Matched(one, two, order, sorted, kind)
      BY <1>7, Zenon DEF SortedMatches
    <2>4. Matched(one, two, order, sorted, kind) = Matches(one, two, order, hits, sorted)
      BY <1>9, Zenon DEF Matched
    <2> QED  BY <2>1, <2>2, <2>3, <2>4
  <1>11. PICK p, q : /\ p = [i \in 1..m |-> one.index.buf[order[hits[i]]]]
                     /\ q = [i \in 1..m |-> two.index.buf[order[hits[i] + 1] - Len(one.index.buf)]]
    OBVIOUS
  <1>12. p = [i \in 1..m |-> p[i]] /\ q = [i \in 1..m |-> q[i]]  BY <1>11
  <1>13. Laid(Vector(p)) /\ Laid(Vector(q))  BY <1>12, CountsLaid
  <1>14. r.values = Vector(Permuted(sorted, hits)) /\ r.index1 = Vector(p) /\ r.index2 = Vector(q)
    BY <1>a, <1>10, <1>11 DEF Matches
  <1>15. Laid(Vector(Permuted(sorted, hits)))  BY <1>a, PermutedListed, VectorOf
  <1> QED  BY <1>13, <1>14, <1>15

\* isin.
LEMMA IsInLaid ==
  ASSUME NEW a, Laid(a), NEW b, NEW kind, NEW invert
  PROVE  Laid(isin(a, b, kind, invert))
  <1>1. a.shape \in Seq(Nat)  BY LaidIs
  <1>2. PICK shape \in Seq(Nat) : shape = a.shape  BY <1>1
  <1>3. PICK m : m = isin_mask(Elems(a), Flattened(b), kind)  OBVIOUS
  <1>4. PICK buf : buf = [i \in DOMAIN m |-> m[i] # invert]  OBVIOUS
  <1>5. isin(a, b, kind, invert) = from_buffer(buf, shape, "C")  BY <1>2, <1>3, <1>4, Zenon DEF isin
  <1> QED  BY <1>5, FromBufferLaid

\* ediff1d, with and without ends.
LEMMA EDiffLaid ==
  ASSUME NEW a, Laid(a), NEW x, x = None \/ Laid(x), NEW y, y = None \/ Laid(y)
  PROVE  Laid(ediff1d(a, x, y))
  <1>1. PICK s : s = Flattened(a)  OBVIOUS
  <1>2. PICK n \in Nat : n = Len(s)  BY <1>1, ElemsAre, ListedLen
  <1>3. PICK l \in Nat : l = Max({0, n - 1})
    <2>1. PICK z, c \in Int : z = 0 /\ c = n - 1  OBVIOUS
    <2>2. Max({z, c}) = IF z >= c THEN z ELSE c  BY MinMaxTwo
    <2> QED  BY <2>1, <2>2
  <1>4. PICK d : d = [i \in 1..l |-> s[i + 1] - s[i]]  OBVIOUS
  <1>5. d = [i \in 1..l |-> d[i]]  BY <1>4
  <1>6. Listed(d)  BY <1>5, ListedMap
  <1>7. Listed(<<>>)
    <2>1. PICK V : V = Nat  OBVIOUS
    <2>2. <<>> \in Seq(V)  OBVIOUS
    <2> QED  BY <2>2, SeqIsListed
  <1>8. PICK e, f : /\ e = (IF x = None THEN <<>> ELSE Flattened(x))
                    /\ f = (IF y = None THEN <<>> ELSE Flattened(y))
    OBVIOUS
  <1>9. Listed(e) /\ Listed(f)  BY <1>7, <1>8, ElemsAre
  <1>10. PICK g : g = f \o d  OBVIOUS
  <1>11. Listed(g)  BY <1>6, <1>9, <1>10, JoinListed
  <1>12. Laid(Vector(g \o e))  BY <1>9, <1>11, JoinListed, VectorOf
  <1>13. ediff1d(a, x, y) = Vector((f \o d) \o e)  BY <1>1, <1>2, <1>3, <1>4, <1>8, Zenon DEF ediff1d
  <1> QED  BY <1>10, <1>12, <1>13

----------------------------------------------------------------------------
(* Zeros at the ends.                                                         *)

\* An array has as many elements as its shape says.
LEMMA ElemsFit ==
  ASSUME NEW a, Laid(a)
  PROVE  DOMAIN Elems(a) = 1..Size(a.shape)
  <1>1. PICK s, t : s = a.shape /\ t = a.strides  OBVIOUS
  <1>2. s \in Seq(Nat) /\ t \in Seq(Int) /\ Len(t) = Len(s)  BY <1>1, LaidIs
  <1>3. PICK buf : buf = Gathered(a, s, t)  OBVIOUS
  <1>4. Fits(buf, s)  BY <1>1, <1>2, <1>3, GatheredIs
  <1>5. PICK n \in Nat : n = Size(s)  BY <1>2, SizeIs
  <1>6. Listed(buf) /\ Len(buf) = n  BY <1>4, <1>5 DEF Fits
  <1>7. DOMAIN buf = 1..n  BY <1>6, ListedLen
  <1>8. Elems(a) = buf  BY <1>1, <1>3 DEF Elems, to_contiguous, Fresh
  <1> QED  BY <1>1, <1>5, <1>7, <1>8

\* The true elements are at places of the array.
LEMMA TruthyAre ==
  ASSUME NEW a, Laid(a), NEW kind, NEW hits, hits = Hits(is_truthy_mask(a, kind))
  PROVE  hits \in Seq(1..Size(a.shape)) /\ Size(a.shape) \in Nat
  <1>1. PICK n \in Nat : n = Size(a.shape)  BY LaidIs
  <1>2. PICK m : m = is_truthy_mask(a, kind)  OBVIOUS
  <1>3. DOMAIN m = 1..n  BY <1>1, <1>2, ElemsFit DEF is_truthy_mask
  <1>4. PICK S : S = {i \in DOMAIN m : m[i]}  OBVIOUS
  <1>5. S \in SUBSET (1..n)  BY <1>3, <1>4
  <1>6. hits = Ascending(S)  BY <1>2, <1>4 DEF Hits
  <1>7. hits \in Seq(S)  BY <1>5, <1>6, PickedPlaces
  <1>8. hits \in Seq(1..n)
    <2>0. PICK V : V = 1..n  OBVIOUS
    <2>1. PICK l \in Nat : l = Len(hits) /\ DOMAIN hits = 1..l  BY <1>7
    <2>2. hits = [i \in 1..l |-> hits[i]] /\ \A i \in 1..l : hits[i] \in V  BY <1>5, <1>7, <2>0, <2>1
    <2>3. hits \in [1..l -> V]  BY <2>2
    <2> QED  BY <2>0, <2>3, Enlisted
  <1> QED  BY <1>1, <1>8

\* The first and the last true element along an axis.
LEMMA PlacesBetween ==
  ASSUME NEW shape \in Seq(Nat), NEW hits \in Seq(1..Size(shape)), hits # <<>>, NEW d \in DOMAIN shape,
         NEW S, S = {Position(shape, hits[i] - 1)[d] : i \in DOMAIN hits}
  PROVE  Min(S) \in Int /\ Max(S) \in Int /\ Max(S) + 1 \in Int
  <1>1. PICK n \in Nat : n = Size(shape)  BY SizeIs
  <1>2. PICK m \in Nat : m = Len(hits) /\ DOMAIN hits = 1..m  OBVIOUS
  <1>3. 1 \in DOMAIN hits  BY <1>2
  <1>4. \A i \in DOMAIN hits : hits[i] \in 1..n  BY <1>1
  <1>5. Filled(shape)  BY <1>1, <1>3, <1>4, FilledIs
  <1>6. PICK N \in Nat : N = shape[d]  OBVIOUS
  <1>7. ASSUME NEW i \in DOMAIN hits  PROVE Position(shape, hits[i] - 1)[d] \in 0..N
    <2>1. PICK k \in Nat : k = hits[i] - 1  BY <1>4
    <2>2. d \in 1..Len(shape)  OBVIOUS
    <2>3. Position(shape, k)[d] \in 0..N - 1  BY <1>5, <1>6, <2>2, PositionIs
    <2> QED  BY <2>1, <2>3
  <1>8. S \in SUBSET (0..N)  BY <1>7
  <1>9. S # {}  BY <1>3
  <1>10. Min(S) \in S /\ Max(S) \in S  BY <1>8, <1>9, Extremes
  <1>11. Min(S) \in 0..N /\ Max(S) \in 0..N  BY <1>8, <1>10
  <1> QED  BY <1>11

\* The bounds between which trim_zeros cuts.
LEMMA BoundsAre ==
  ASSUME NEW shape \in Seq(Nat), NEW hits \in Seq(1..Size(shape)), NEW front, NEW back, NEW axes,
         NEW bounds, bounds = trim_zeros_bounds(shape, hits, front, back, axes)
  PROVE  DOMAIN bounds = DOMAIN shape /\ \A d \in DOMAIN shape : bounds[d][1] \in Int /\ bounds[d][2] \in Int
  <1>1. PICK coords : coords = [d \in DOMAIN shape |-> {Position(shape, hits[i] - 1)[d] : i \in DOMAIN hits}]
    OBVIOUS
  <1>2. bounds = [d \in DOMAIN shape |->
            IF d \notin axes THEN <<0, shape[d]>>
            ELSE IF hits = <<>> THEN <<0, 0>>
            ELSE <<IF front THEN Min(coords[d]) ELSE 0, IF back THEN Max(coords[d]) + 1 ELSE shape[d]>>]
    BY <1>1, Zenon DEF trim_zeros_bounds
  <1>3. ASSUME NEW d \in DOMAIN shape  PROVE bounds[d][1] \in Int /\ bounds[d][2] \in Int
    <2>1. PICK z, l \in Int : z = 0 /\ l = shape[d]  OBVIOUS
    <2>2. PICK x, y : /\ x = (IF front THEN Min(coords[d]) ELSE z)
                      /\ y = (IF back THEN Max(coords[d]) + 1 ELSE l)
      OBVIOUS
    <2>3. hits # <<>> => x \in Int /\ y \in Int
      <3>1. SUFFICES ASSUME hits # <<>>  PROVE x \in Int /\ y \in Int  OBVIOUS
      <3>2. PICK S : S = {Position(shape, hits[i] - 1)[d] : i \in DOMAIN hits}  OBVIOUS
      <3>3. coords[d] = S  BY <1>1, <3>2
      <3>4. PICK u, v \in Int : u = Min(S) /\ v = Max(S) + 1  BY <3>1, <3>2, PlacesBetween
      <3> QED  BY <2>2, <3>3, <3>4
    <2>4. bounds[d] \in {<<z, l>>, <<z, z>>} \/ (hits # <<>> /\ bounds[d] = <<x, y>>)  BY <1>2, <2>1, <2>2
    <2> QED  BY <2>3, <2>4
  <1>4. DOMAIN bounds = DOMAIN shape  BY <1>2
  <1> QED  BY <1>3, <1>4

\* A cut along every axis.
LEMMA CutLaid ==
  ASSUME NEW a, Laid(a), NEW n \in Nat, NEW bounds, DOMAIN bounds = 1..n,
         \A d \in 1..n : bounds[d][1] \in Int /\ bounds[d][2] \in Int
  PROVE  Sound(Cut(a, bounds))
  <1>1. PICK one \in Int : one = 1  OBVIOUS
  <1>2. PICK f : f = FullSlice  OBVIOUS
  <1>3. PICK V : V = [kind : {"slice"}, start : Int, stop : Int, step : {one}] \cup {f}  OBVIOUS
  <1>4. Words(V)
    <2>1. ASSUME NEW v \in V  PROVE Legal(v)
      <3>1. CASE v = f  BY <1>2, <3>1, ItemsLegal
      <3>2. CASE v # f
        <4>1. v.kind = "slice" /\ v.start \in Int /\ v.stop \in Int /\ v.step = one  BY <1>3, <3>2
        <4> QED  BY <1>1, <4>1 DEF Legal
      <3> QED  BY <3>1, <3>2
    <2>2. f \in V  BY <1>3
    <2> QED  BY <1>2, <2>1, <2>2 DEF Words
  <1>5. PICK key : key = [d \in DOMAIN bounds |->
                    [kind |-> "slice", start |-> bounds[d][1], stop |-> bounds[d][2], step |-> one]]
    OBVIOUS
  <1>6. key \in Seq(V)
    <2>1. \A d \in 1..n : key[d] \in V  BY <1>3, <1>5
    <2>2. key = [d \in 1..n |-> key[d]]  BY <1>5
    <2>3. key \in [1..n -> V]  BY <2>1, <2>2
    <2> QED  BY <2>3, Enlisted
  <1>7. PICK view : view = get_view(a, key)  OBVIOUS
  <1>8. view = Raised \/ Laid(view)  BY <1>4, <1>6, <1>7, GetViewLaid DEF Sound
  <1>9. Cut(a, bounds) = IF view = Raised THEN Raised ELSE to_contiguous(view)
    BY <1>1, <1>5, <1>7, Zenon DEF Cut
  <1> QED  BY <1>8, <1>9, ContigLaid DEF Sound

\* trim_zeros, also when it raises.
LEMMA TrimZerosLaid ==
  ASSUME NEW a, Laid(a), NEW kind, NEW trim, NEW axes
  PROVE  Sound(trim_zeros(a, kind, trim, axes))
  <1>1. PICK n \in Nat : n = Len(a.shape) /\ DOMAIN a.shape = 1..n  BY LaidIs
  <1>2. PICK named : named = (IF axes = None THEN Identity(n) ELSE [i \in DOMAIN axes |-> normalize_axis(axes[i], n)])
    OBVIOUS
  <1>3. PICK front, back : front = (trim \in {"f", "fb", "bf"}) /\ back = (trim \in {"b", "fb", "bf"})
    OBVIOUS
  <1>4. PICK hits : hits = Hits(is_truthy_mask(a, kind))  OBVIOUS
  <1>5. PICK bounds : bounds = trim_zeros_bounds(a.shape, hits, front, back, ToSet(named))  OBVIOUS
  <1>6. PICK shape \in Seq(Nat) : shape = a.shape  BY LaidIs
  <1>7. hits \in Seq(1..Size(shape))  BY <1>4, <1>6, TruthyAre
  <1>8. DOMAIN bounds = 1..n /\ \A d \in 1..n : bounds[d][1] \in Int /\ bounds[d][2] \in Int
    BY <1>1, <1>5, <1>6, <1>7, BoundsAre
  <1>9. Sound(Cut(to_contiguous(a), bounds))  BY <1>8, ContigLaid, CutLaid
  <1>10. trim_zeros(a, kind, trim, axes) \in {Raised, a, Cut(to_contiguous(a), bounds)}
    <2>1. PICK bad : bad = (trim \notin {"f", "b", "fb", "bf"} \/ Raised \in ToSet(named) \/ ~IsInjective(named))
      OBVIOUS
    <2>2. trim_zeros(a, kind, trim, axes) =
             IF bad THEN Raised ELSE IF named = <<>> THEN a ELSE Cut(to_contiguous(a), bounds)
      BY <1>1, <1>2, <1>3, <1>4, <1>5, <2>1, Zenon DEF trim_zeros
    <2> QED  BY <2>2
  <1> QED  BY <1>9, <1>10 DEF Sound

----------------------------------------------------------------------------
(* Differences.                                                               *)

\* One round of differences.
LEMMA DifferencesIs ==
  ASSUME NEW a, Laid(a), NEW d \in DOMAIN a.shape
  PROVE  Laid(Differences(a, d)) /\ d \in DOMAIN Differences(a, d).shape
  <1>0. PICK s \in Seq(Nat) : s = a.shape  BY LaidIs
  <1>1. PICK n \in Nat : n = a.shape[d] /\ s = a.shape  BY <1>0
  <1>2. PICK c : c = to_contiguous(a)  OBVIOUS
  <1>3. Laid(c) /\ c.shape = s  BY <1>1, <1>2, ContigLaid
  <1>4. CASE n = 0  BY <1>1, <1>2, <1>3, <1>4 DEF Differences
  <1>5. CASE n # 0
    <2>1. PICK m \in Nat : m = n - 1  BY <1>5
    <2>2. PICK shape : shape = Put1(s, d, m)  OBVIOUS
    <2>3. shape \in Seq(Nat) /\ Len(shape) = Len(s)
      <3>1. PICK N : N = Nat  OBVIOUS
      <3>2. s \in Seq(N) /\ m \in N  BY <3>1
      <3> QED  BY <2>2, <3>1, <3>2, Put1Is
    <2>4. d \in DOMAIN shape  BY <1>1, <2>3
    <2>5. \E buf : Differences(a, d) = from_buffer(buf, shape, "C")  BY <1>1, <1>5, <2>1, <2>2 DEF Differences
    <2>6. PICK buf : Differences(a, d) = from_buffer(buf, shape, "C")  BY <2>5
    <2> QED  BY <2>3, <2>4, <2>6, FromBufferLaid
  <1> QED  BY <1>4, <1>5

\* Joined arrays keep the rank.
LEMMA JoinedRank ==
  ASSUME NEW m \in Nat \ {0}, NEW arrays, Arrays(arrays, m), NEW d, Joined(arrays, d) # Raised, NEW i \in 1..m
  PROVE  Laid(Joined(arrays, d)) /\ Len(Joined(arrays, d).shape) = Len(arrays[i].shape)
  <1>1. Laid(Joined(arrays, d))  BY JoinedLaid DEF Sound
  <1>2. PICK x : x = arrays[1]  OBVIOUS
  <1>3. PICK n : n = Len(x.shape)  OBVIOUS
  <1>4. PICK t : t = Total([k \in DOMAIN arrays |-> arrays[k].shape[d]])  OBVIOUS
  <1>5. PICK shape : shape = Put1(x.shape, d, t)  OBVIOUS
  <1>6. PICK bad, odd : /\ bad = (n = 0 \/ d = Raised \/ \E k \in DOMAIN arrays : Len(arrays[k].shape) # n)
                        /\ odd = (\E k \in DOMAIN arrays, e \in 1..n :
                                     e # d /\ arrays[k].shape[e] # arrays[1].shape[e])
    OBVIOUS
  <1>7. \/ Joined(arrays, d) = Raised
        \/ ~bad /\ \E buf : Joined(arrays, d) = from_buffer(buf, shape, "C")
    BY <1>2, <1>3, <1>4, <1>5, <1>6 DEF Joined
  <1>8. PICK buf : ~bad /\ Joined(arrays, d) = from_buffer(buf, shape, "C")  BY <1>7
  <1>9. DOMAIN arrays = 1..m  BY DEF Arrays
  <1>10. Len(arrays[i].shape) = n  BY <1>6, <1>8, <1>9
  <1>11. Joined(arrays, d).shape = shape  BY <1>8 DEF from_buffer, Fresh
  <1>12. 1 \in 1..m  OBVIOUS
  <1>13. x.shape \in Seq(Nat)  BY <1>2, <1>12, LaidIs DEF Arrays
  <1>14. shape \in Seq(Nat)  BY <1>1, <1>11, LaidIs
  <1>15. DOMAIN shape = DOMAIN x.shape  BY <1>5 DEF Put1
  <1>16. Len(shape) = Len(x.shape)  BY <1>13, <1>14, <1>15
  <1> QED  BY <1>1, <1>3, <1>10, <1>11, <1>16

\* The ends that diff is given.
LEMMA OperandLaid ==
  ASSUME NEW x, Laid(x), NEW a, Laid(a), NEW d
  PROVE  Sound(diff_broadcast_operand(x, a, d))
  <1>1. PICK one \in Nat : one = 1  OBVIOUS
  <1>2. PICK s \in Seq(Nat) : s = a.shape  BY LaidIs
  <1>3. PICK shape : shape = Put1(s, d, one)  OBVIOUS
  <1>4. shape \in Seq(Nat)
    <2>1. PICK N : N = Nat  OBVIOUS
    <2>2. s \in Seq(N) /\ one \in N  BY <2>1
    <2> QED  BY <1>3, <2>1, <2>2, Put1Is
  <1>5. Sound(broadcast_to(x, shape))  BY <1>4, BroadcastLaid DEF Sound
  <1>6. diff_broadcast_operand(x, a, d) = IF x.shape = <<>> THEN broadcast_to(x, shape) ELSE x
    BY <1>1, <1>2, <1>3, Zenon DEF diff_broadcast_operand
  <1> QED  BY <1>5, <1>6 DEF Sound

\* The differences one after the other.
Iterates(h, n, start, d) ==
    h = [k \in 0..n |-> IF k = 0 THEN start ELSE LET before == h[k - 1] IN Differences(before, d)]

\* Differences can be taken any number of times.
LEMMA IteratesExist ==
  ASSUME NEW n \in Nat, NEW start, NEW d
  PROVE  \E h : Iterates(h, n, start, d)
  <1> DEFINE T == {m \in 0..n : \E h : Iterates(h, m, start, d)}
  <1>1. 0 \in T
    <2>1. PICK h : h = [k \in 0..0 |-> start]  OBVIOUS
    <2>2. \A k \in 0..0 : k = 0  OBVIOUS
    <2>3. Iterates(h, 0, start, d)  BY <2>1, <2>2 DEF Iterates
    <2> QED  BY <2>3
  <1>2. ASSUME NEW m \in 0..n - 1, m \in T  PROVE m + 1 \in T
    <2>1. PICK h : Iterates(h, m, start, d)  BY <1>2
    <2>2. \A k \in 0..m : h[k] = IF k = 0 THEN start ELSE Differences(h[k - 1], d)  BY <2>1 DEF Iterates
    <2>3. PICK l \in Nat : l = m + 1  OBVIOUS
    <2>4. PICK g : g = [k \in 0..l |-> IF k = l THEN Differences(h[m], d) ELSE h[k]]  OBVIOUS
    <2>5. ASSUME NEW k \in 0..l
          PROVE  g[k] = IF k = 0 THEN start ELSE Differences(g[k - 1], d)
      <3>1. CASE k = l
        <4>1. k - 1 = m /\ m \in 0..l /\ m # l /\ k # 0  BY <2>3, <3>1
        <4>2. g[m] = h[m] /\ g[k] = Differences(h[m], d)  BY <2>4, <3>1, <4>1
        <4> QED  BY <4>1, <4>2
      <3>2. CASE k # l
        <4>1. k \in 0..m /\ (k = 0 \/ (k - 1 \in 0..l /\ k - 1 # l))  BY <2>3, <3>2
        <4>2. g[k] = h[k] /\ (k = 0 \/ g[k - 1] = h[k - 1])  BY <2>4, <3>2, <4>1
        <4> QED  BY <2>2, <4>1, <4>2
      <3> QED  BY <3>1, <3>2
    <2>6. Iterates(g, l, start, d)  BY <2>4, <2>5 DEF Iterates
    <2> QED  BY <2>3, <2>6
  <1>3. T = 0..n
    <2>1. T \in SUBSET (0..n)  OBVIOUS
    <2> HIDE DEF T
    <2> QED  BY <1>1, <1>2, <2>1, UpTo
  <1>4. n \in T
    <2> HIDE DEF T
    <2> QED  BY <1>3
  <1> QED  BY <1>4

\* ... and each time the layout makes sense.
LEMMA IteratesLaid ==
  ASSUME NEW n \in Nat, NEW start, Laid(start), NEW d \in DOMAIN start.shape, NEW h, Iterates(h, n, start, d)
  PROVE  Laid(h[n])
  <1>1. \A k \in 0..n : h[k] = IF k = 0 THEN start ELSE Differences(h[k - 1], d)  BY DEF Iterates
  <1> DEFINE T == {k \in 0..n : Laid(h[k]) /\ d \in DOMAIN h[k].shape}
  <1>2. 0 \in T  BY <1>1
  <1>3. ASSUME NEW k \in 0..n - 1, k \in T  PROVE k + 1 \in T
    <2>1. k + 1 \in 0..n /\ k + 1 # 0 /\ (k + 1) - 1 = k  OBVIOUS
    <2>2. h[k + 1] = Differences(h[k], d)  BY <1>1, <2>1
    <2>3. Laid(h[k]) /\ d \in DOMAIN h[k].shape  BY <1>3
    <2>4. PICK x : x = h[k]  OBVIOUS
    <2>5. Laid(Differences(x, d)) /\ d \in DOMAIN Differences(x, d).shape  BY <2>3, <2>4, DifferencesIs
    <2> QED  BY <2>1, <2>2, <2>4, <2>5
  <1>4. T = 0..n
    <2>1. T \in SUBSET (0..n)  OBVIOUS
    <2> HIDE DEF T
    <2> QED  BY <1>2, <1>3, <2>1, UpTo
  <1>5. n \in T
    <2> HIDE DEF T
    <2> QED  BY <1>4
  <1> QED  BY <1>5

\* diff, of any order and with any ends.
LEMMA DiffLaid ==
  ASSUME NEW a, Laid(a), NEW n \in Int, NEW axis \in Int,
         NEW x, x \in {Omitted, None} \/ Laid(x), NEW y, y \in {Omitted, None} \/ Laid(y)
  PROVE  Sound(diff(a, n, axis, x, y))
  <1> DEFINE at == normalize_axis(axis, Len(a.shape))
             both == <<x, y>>
             part(i) == IF both[i] = Omitted THEN <<>> ELSE <<diff_broadcast_operand(both[i], a, at)>>
             all == part(1) \o <<a>> \o part(2)
             first == IF Len(all) = 1 THEN to_contiguous(a) ELSE Joined(all, at)
             After1(h) == h = [k \in 0..n |-> IF k = 0 THEN first ELSE LET before == h[k - 1] IN Differences(before, at)]
  <1>1. PICK r \in Nat : r = Len(a.shape) /\ DOMAIN a.shape = 1..r  BY LaidIs
  <1>2. PICK f : f = CHOOSE h : After1(h)  OBVIOUS
  <1>3. diff(a, n, axis, x, y) =
            IF n < 0 THEN Raised
            ELSE IF n = 0 THEN a
            ELSE IF a.shape = <<>> \/ at = Raised \/ None \in ToSet(both) THEN Raised
            ELSE IF Raised \in ToSet(all) \/ first = Raised THEN Raised ELSE f[n]
    <2>1. diff(a, n, axis, x, y) =
            IF n < 0 THEN Raised
            ELSE IF n = 0 THEN a
            ELSE IF a.shape = <<>> \/ at = Raised \/ None \in ToSet(both) THEN Raised
            ELSE IF Raised \in ToSet(all) \/ first = Raised THEN Raised ELSE (CHOOSE h : After1(h))[n]
      BY DEF diff
    <2> HIDE DEF at, both, part, all, first, After1
    <2> QED  BY <1>2, <2>1, Zenon
  <1> HIDE DEF After1
  <1>4. PICK d, start, parts : d = at /\ start = first /\ parts = all  OBVIOUS
  <1>5. ToSet(both) = {x, y} /\ both[1] = x /\ both[2] = y
    <2>1. PICK t : t = both  OBVIOUS
    <2>2. DOMAIN t = {1, 2} /\ t[1] = x /\ t[2] = y  BY <2>1
    <2>3. ToSet(t) = {x, y}  BY <2>2 DEF ToSet
    <2> QED  BY <2>1, <2>2, <2>3
  <1>6. PICK p, q : p = diff_broadcast_operand(x, a, d) /\ q = diff_broadcast_operand(y, a, d)  OBVIOUS
  <1>7. PICK u, v : /\ u = (IF x = Omitted THEN <<>> ELSE <<p>>)
                    /\ v = (IF y = Omitted THEN <<>> ELSE <<q>>)
    OBVIOUS
  <1>8. parts = (u \o <<a>>) \o v
    <2>1. u = part(1) /\ v = part(2)
      <3> HIDE DEF at, both
      <3> QED  BY <1>4, <1>5, <1>6, <1>7
    <2> HIDE DEF part
    <2> QED  BY <1>4, <2>1
  <1>9. start = IF Len(parts) = 1 THEN to_contiguous(a) ELSE Joined(parts, d)
    <2> HIDE DEF all, at
    <2> QED  BY <1>4
  <1>10. PICK bad, worse : /\ bad = (a.shape = <<>> \/ d = Raised \/ None \in {x, y})
                          /\ worse = (Raised \in ToSet(parts) \/ start = Raised)
    OBVIOUS
  <1>11. diff(a, n, axis, x, y) =
            IF n < 0 THEN Raised ELSE IF n = 0 THEN a ELSE IF bad THEN Raised ELSE IF worse THEN Raised ELSE f[n]
    <2> HIDE DEF at, both, all, first
    <2> QED  BY <1>3, <1>4, <1>5, <1>10, Zenon
  <1>12. CASE n > 0 /\ ~bad /\ ~worse
    <2>0. n \in Nat  BY <1>12
    <2>1. d \in 1..r
      <3>1. d # Raised  BY <1>10, <1>12
      <3>2. d = normalize_axis(axis, r)  BY <1>1, <1>4
      <3> QED  BY <3>1, <3>2, NormAxisIs
    <2>a. Raised \notin ToSet(parts) /\ start # Raised /\ x # None /\ y # None  BY <1>10, <1>12
    <2> HIDE DEF at, both, part, all, first
    <2>2. PICK X, Y : X = (IF x = Omitted THEN {} ELSE {p}) /\ Y = (IF y = Omitted THEN {} ELSE {q})  OBVIOUS
    <2>3. PICK W : W = X \cup {a} \cup Y  OBVIOUS
    <2>4. u \in Seq(W) /\ <<a>> \in Seq(W) /\ v \in Seq(W)
      <3>1. x # Omitted => p \in W  BY <2>2, <2>3
      <3>2. y # Omitted => q \in W  BY <2>2, <2>3
      <3>3. a \in W  BY <2>3
      <3>4. <<>> \in Seq(W) /\ <<a>> \in Seq(W)  BY <3>3
      <3>5. u \in Seq(W)  BY <1>7, <3>1, <3>4
      <3>6. v \in Seq(W)  BY <1>7, <3>2, <3>4
      <3> QED  BY <3>4, <3>5, <3>6
    <2>5. PICK t : t = u \o <<a>>  OBVIOUS
    <2>6. PICK i \in Nat : i = Len(u) + 1  BY <2>4
    <2>7. t \in Seq(W) /\ Len(t) = i /\ t[i] = a  BY <2>4, <2>5, <2>6
    <2>8. parts \in Seq(W) /\ i \in 1..Len(parts) /\ parts[i] = a  BY <1>8, <2>4, <2>5, <2>6, <2>7
    <2>9. PICK m \in Nat \ {0} : m = Len(parts) /\ DOMAIN parts = 1..m  BY <2>8
    <2>10. ASSUME NEW j \in 1..m  PROVE Laid(parts[j])
      <3>1. parts[j] \in W /\ parts[j] \in ToSet(parts)  BY <2>8, <2>9 DEF ToSet
      <3>2. parts[j] # Raised  BY <2>a, <3>1
      <3>3. x # None /\ y # None  BY <2>a
      <3>4. CASE parts[j] = a  BY <3>4
      <3>5. CASE parts[j] \in X
        <4>1. x # Omitted /\ parts[j] = p  BY <2>2, <3>5
        <4>2. Sound(p)  BY <1>6, <3>3, <4>1, OperandLaid
        <4> QED  BY <3>2, <4>1, <4>2 DEF Sound
      <3>6. CASE parts[j] \in Y
        <4>1. y # Omitted /\ parts[j] = q  BY <2>2, <3>6
        <4>2. Sound(q)  BY <1>6, <3>3, <4>1, OperandLaid
        <4> QED  BY <3>2, <4>1, <4>2 DEF Sound
      <3> QED  BY <2>3, <3>1, <3>4, <3>5, <3>6
    <2>11. Arrays(parts, m)  BY <2>9, <2>10 DEF Arrays
    <2>12. Laid(start) /\ Len(start.shape) = r
      <3>1. CASE Len(parts) = 1  BY <1>1, <1>9, <3>1, ContigLaid
      <3>2. CASE Len(parts) # 1
        <4>1. start = Joined(parts, d) /\ start # Raised  BY <1>9, <2>a, <3>2
        <4>2. Laid(start) /\ Len(start.shape) = Len(parts[i].shape)  BY <2>8, <2>9, <2>11, <4>1, JoinedRank
        <4> QED  BY <1>1, <2>8, <4>2
      <3> QED  BY <3>1, <3>2
    <2>13. d \in DOMAIN start.shape  BY <2>1, <2>12, LaidIs
    <2>14. After1(f)
      <3>1. PICK h : Iterates(h, n, first, at)  BY <2>0, IteratesExist
      <3>2. After1(h)  BY <3>1 DEF Iterates, After1
      <3> QED  BY <1>2, <3>2
    <2>15. Iterates(f, n, start, d)
      <3>1. Iterates(f, n, first, at)  BY <2>14 DEF Iterates, After1
      <3> QED  BY <1>4, <3>1
    <2>16. Laid(f[n])  BY <2>0, <2>12, <2>13, <2>15, IteratesLaid
    <2> QED  BY <1>11, <1>12, <2>16 DEF Sound
  <1> HIDE DEF at, both, part, all, first
  <1> QED  BY <1>11, <1>12 DEF Sound

----------------------------------------------------------------------------
(* The calls.                                                                 *)

\* An array whose elements stand for keys.
LEMMA KeyedLaid ==
  ASSUME Laid(arr), NEW key
  PROVE  Laid(Keyed(arr, key)) /\ Keyed(arr, key).shape = arr.shape
  <1>1. PICK b : b = [c \in DOMAIN arr.buf |-> key[arr.buf[c]]]  OBVIOUS
  <1>2. PICK a : a = arr  OBVIOUS
  <1>3. Laid(a)  BY <1>2
  <1>4. Laid([a EXCEPT !.buf = b]) /\ [a EXCEPT !.buf = b].shape = a.shape  BY <1>3, BufferLaid
  <1>5. Keyed(arr, key) = [a EXCEPT !.buf = b]
    <2>1. a = [buf |-> a.buf, shape |-> a.shape, strides |-> a.strides, offset |-> a.offset, fresh |-> a.fresh]
      BY <1>3 DEF Laid
    <2>2. Keyed(a, key) = [a EXCEPT !.buf = b]  BY <1>1, <1>2, <2>1 DEF Keyed
    <2> QED  BY <1>2, <2>2
  <1> QED  BY <1>2, <1>4, <1>5

\* A call on keys with a sound result keeps the invariant.
LEMMA KeyedStep ==
  ASSUME Laid(arr), NEW g, NEW c, NEW r, DoKeyed(g, c, r), Sound(r)
  PROVE  Laid(arr')
  <1>1. After(r)  BY DoIs DEF DoKeyed
  <1> QED  BY <1>1, AfterLaid

\* The second operand.
LEMMA AnotherLaid ==
  ASSUME NEW kind, NEW shape \in Seq(Nat)
  PROVE  Laid(Another(kind, shape)) /\ Another(kind, shape).shape = shape
  <1>1. PICK b : Another(kind, shape) = from_buffer(b, shape, "F")  BY DEF Another
  <1> QED  BY <1>1, FromBufferLaid

\* Sort, SortInPlace, ArgSort and SortComplex keep the invariant.
LEMMA SortsStep ==
  ASSUME Laid(arr), Sort \/ SortInPlace \/ ArgSort \/ SortComplex
  PROVE  Laid(arr')
  <1>1. CASE Sort
    <2>1. PICK g, c, axis, stable, desc : DoKeyed(g, c, sort(Keyed(arr, g.key), axis, g.kind, stable, desc))
      BY <1>1 DEF Sort
    <2>2. Sound(sort(Keyed(arr, g.key), axis, g.kind, stable, desc))  BY KeyedLaid, SortLaid
    <2> QED  BY <2>1, <2>2, KeyedStep
  <1>2. CASE SortInPlace
    <2>1. PICK g, c, axis, stable, desc : DoKeyed(g, c, ndarray_sort(Keyed(arr, g.key), axis, g.kind, stable, desc))
      BY <1>2 DEF SortInPlace
    <2>2. Sound(ndarray_sort(Keyed(arr, g.key), axis, g.kind, stable, desc))  BY KeyedLaid, SortLaid
    <2> QED  BY <2>1, <2>2, KeyedStep
  <1>3. CASE ArgSort
    <2>1. PICK g, c, axis, stable, desc : DoKeyed(g, c, argsort(Keyed(arr, g.key), axis, g.kind, stable, desc))
      BY <1>3 DEF ArgSort
    <2>2. Sound(argsort(Keyed(arr, g.key), axis, g.kind, stable, desc))  BY KeyedLaid, ArgSortLaid
    <2> QED  BY <2>1, <2>2, KeyedStep
  <1>4. CASE SortComplex
    <2>1. PICK g, c : DoKeyed(g, c, sort_complex(Keyed(arr, g.key), g.kind))  BY <1>4 DEF SortComplex
    <2>2. Sound(sort_complex(Keyed(arr, g.key), g.kind))  BY KeyedLaid, SortComplexLaid
    <2> QED  BY <2>1, <2>2, KeyedStep
  <1> QED  BY <1>1, <1>2, <1>3, <1>4

\* LexSort keeps the invariant.
LEMMA LexSortStep ==
  ASSUME Laid(arr), LexSort
  PROVE  Laid(arr')
  <1>1. PICK g, c, keys, kinds, axis : DoKeyed(g, c, lexsort(keys, kinds, axis)) /\ keys[1] = Keyed(arr, g.key)
    <2>1. PICK g, axis :
             \/ DoKeyed(g, [op |-> "lexsort", axis |-> axis, kinds |-> <<g.kind>>, keys |-> <<Val(arr)>>],
                        lexsort(<<Keyed(arr, g.key)>>, <<g.kind>>, axis))
             \/ \E c, b, kinds : DoKeyed(g, c, lexsort(<<Keyed(arr, g.key), b>>, kinds, axis))
      BY DEF LexSort
    <2>2. CASE DoKeyed(g, [op |-> "lexsort", axis |-> axis, kinds |-> <<g.kind>>, keys |-> <<Val(arr)>>],
                       lexsort(<<Keyed(arr, g.key)>>, <<g.kind>>, axis))
      <3>1. PICK keys : keys = <<Keyed(arr, g.key)>>  OBVIOUS
      <3>2. keys[1] = Keyed(arr, g.key)  BY <3>1
      <3> QED  BY <2>2, <3>1, <3>2, Zenon
    <2>3. CASE \E c, b, kinds : DoKeyed(g, c, lexsort(<<Keyed(arr, g.key), b>>, kinds, axis))
      <3>1. PICK c, b, kinds : DoKeyed(g, c, lexsort(<<Keyed(arr, g.key), b>>, kinds, axis))  BY <2>3
      <3>2. PICK keys : keys = <<Keyed(arr, g.key), b>>  OBVIOUS
      <3>3. keys[1] = Keyed(arr, g.key)  BY <3>2
      <3> QED  BY <3>1, <3>2, <3>3, Zenon
    <2> QED  BY <2>1, <2>2, <2>3
  <1>2. Laid(keys[1])  BY <1>1, KeyedLaid
  <1> QED  BY <1>1, <1>2, LexSortLaid, KeyedStep

\* NonZero, FlatNonZero and ArgWhere keep the invariant.
LEMMA NonZeroStep ==
  ASSUME Laid(arr), NonZero \/ FlatNonZero \/ ArgWhere
  PROVE  Laid(arr')
  <1>1. CASE NonZero
    <2>1. PICK n : n = Len(arr.shape)  OBVIOUS
    <2>2. PICK g, c, part : /\ part \in 1..Max({1, n})
                            /\ DoKeyed(g, c, IF nonzero(Keyed(arr, g.key), g.kind) = Raised THEN Raised
                                             ELSE nonzero(Keyed(arr, g.key), g.kind)[part])
      BY <1>1, <2>1 DEF NonZero, Rank
    <2>3. PICK a, r : a = Keyed(arr, g.key) /\ r = nonzero(a, g.kind)  OBVIOUS
    <2>4. Laid(a) /\ n = Len(a.shape)  BY <2>1, <2>3, KeyedLaid
    <2>5. PICK z : z = IF r = Raised THEN Raised ELSE r[part]  OBVIOUS
    <2>6. Sound(z)
      <3>1. r # Raised => Laid(r[part])  BY <2>2, <2>3, <2>4, NonZeroLaid
      <3> QED  BY <2>5, <3>1 DEF Sound
    <2>7. DoKeyed(g, c, z)  BY <2>2, <2>3, <2>5
    <2> QED  BY <2>6, <2>7, KeyedStep
  <1>2. CASE FlatNonZero
    <2>1. PICK g, c : DoKeyed(g, c, flatnonzero(Keyed(arr, g.key), g.kind))  BY <1>2 DEF FlatNonZero
    <2>2. Sound(flatnonzero(Keyed(arr, g.key), g.kind))  BY KeyedLaid, FlatNonZeroLaid DEF Sound
    <2> QED  BY <2>1, <2>2, KeyedStep
  <1>3. CASE ArgWhere
    <2>1. PICK g, c : DoKeyed(g, c, argwhere(Keyed(arr, g.key), g.kind))  BY <1>3 DEF ArgWhere
    <2>2. Sound(argwhere(Keyed(arr, g.key), g.kind))  BY KeyedLaid, ArgWhereLaid
    <2> QED  BY <2>1, <2>2, KeyedStep
  <1> QED  BY <1>1, <1>2, <1>3

\* Extract keeps the invariant.
LEMMA ExtractStep ==
  ASSUME Laid(arr), Extract
  PROVE  Laid(arr')
  <1>1. PICK s \in Seq(Nat) : s = arr.shape  BY LaidIs
  <1>2. PICK two \in Nat : two = 2  OBVIOUS
  <1>3. PICK shape, kind : /\ shape \in {s, Reverse(s), Row(s), <<two>> \o s}
                           /\ After(extract(Another(kind, shape), kind, arr))
    BY <1>1, <1>2, DoIs DEF Extract
  <1>4. shape \in Seq(Nat)
    <2>1. <<two>> \o s \in Seq(Nat)
      <3>1. <<two>> \in Seq(Nat)  OBVIOUS
      <3> QED  BY <3>1, JoinedShape
    <2> QED  BY <1>3, <2>1, RowIs
  <1>5. Sound(extract(Another(kind, shape), kind, arr))  BY <1>4, AnotherLaid, ExtractLaid
  <1> QED  BY <1>3, <1>5, AfterLaid

\* Where keeps the invariant.
LEMMA WhereStep ==
  ASSUME Laid(arr), Where
  PROVE  Laid(arr')
  <1>1. PICK s \in Seq(Nat) : s = arr.shape  BY LaidIs
  <1>2. PICK u : u = <<2, 1>>  OBVIOUS
  <1>3. PICK g \in SparseKeys, shape \in {arr.shape, Row(arr.shape), <<2, 1>>}, turned \in BOOLEAN :
           DoKeyed(g, [op |-> "where", x |-> Val(Other(shape, "F")),
                       y |-> Val(Other(IF turned THEN Reverse(shape) ELSE <<>>, "C"))],
                   where_select(Keyed(arr, g.key), g.kind, Other(shape, "F"),
                                Other(IF turned THEN Reverse(shape) ELSE <<>>, "C")))
    BY DEF Where
  <1>4. shape \in Seq(Nat)
    <2>1. u \in Seq(Nat)  BY <1>2, SmallCounts
    <2>2. shape \in {s, Row(s), u}  BY <1>1, <1>2, <1>3, Zenon
    <2> QED  BY <2>1, <2>2, RowIs
  <1>5. PICK t : t = IF turned THEN Reverse(shape) ELSE <<>>  OBVIOUS
  <1>6. t \in Seq(Nat)
    <2>1. <<>> \in Seq(Nat)  OBVIOUS
    <2> QED  BY <1>4, <1>5, <2>1, RowIs
  <1>7. Sound(where_select(Keyed(arr, g.key), g.kind, Other(shape, "F"), Other(t, "C")))
    BY <1>4, <1>6, KeyedLaid, OtherLaid, WhereLaid
  <1> QED  BY <1>3, <1>5, <1>7, KeyedStep

\* SearchSorted keeps the invariant.
LEMMA SearchSortedStep ==
  ASSUME Laid(arr), SearchSorted
  PROVE  Laid(arr')
  <1>1. PICK u, e : u = <<3, 2>> /\ e = <<>>  OBVIOUS
  <1>2. PICK g, c, right, sorter, shape :
           /\ shape \in {u, e}
           /\ DoKeyed(g, c, searchsorted(Keyed(arr, g.key), Another(g.kind, shape), g.kind, right, sorter))
    BY <1>1 DEF SearchSorted
  <1>3. shape \in Seq(Nat)
    <2>1. u \in Seq(Nat)
      <3>1. PICK x, y \in Nat : x = 3 /\ y = 2  OBVIOUS
      <3>2. <<x, y>> \in Seq(Nat)  BY ShortShapes
      <3> QED  BY <1>1, <3>1, <3>2
    <2>2. e \in Seq(Nat)  BY <1>1, SmallCounts
    <2> QED  BY <1>2, <2>1, <2>2
  <1>4. Sound(searchsorted(Keyed(arr, g.key), Another(g.kind, shape), g.kind, right, sorter))
    BY <1>3, AnotherLaid, SearchSortedLaid
  <1> QED  BY <1>2, <1>4, KeyedStep

\* NanArg keeps the invariant.
LEMMA NanArgStep ==
  ASSUME Laid(arr), NanArg
  PROVE  Laid(arr')
  <1>1. PICK g, c, axis, keepdims, max :
           /\ axis \in Ax
           /\ DoKeyed(g, c, nanargext(Keyed(arr, g.key), axis, keepdims, g.kind, max))
    BY DEF NanArg
  <1>2. axis \in Int \cup {None}  BY <1>1 DEF Ax
  <1>3. Sound(nanargext(Keyed(arr, g.key), axis, keepdims, g.kind, max))  BY <1>2, KeyedLaid, NanArgLaid
  <1> QED  BY <1>1, <1>3, KeyedStep

\* Unique keeps the invariant.
LEMMA UniqueStep ==
  ASSUME Laid(arr), Unique
  PROVE  Laid(arr')
  <1> DEFINE result(r, part) == IF r = Raised THEN Raised ELSE r[part]
             parts == {"values", "index", "inverse", "counts"}
  <1>a. PICK g \in AllKeys, axis \in Ax, equal_nan \in BOOLEAN, part \in parts :
           LET b == Keyed(arr, g.key)
               flatly == axis = None /\ ~g.every
               c == [op |-> "unique", axis |-> axis, equal_nan |-> equal_nan, part |-> part]
           IN  /\ g.every => axis = None
               /\ \/ DoKeyed(g, c, result(unique(b, g.kind, part \in {"index", "inverse"}, axis, equal_nan), part))
                  \/ flatly /\ equal_nan /\ part = "values" /\ DoKeyed(g, c, unique_values(b, g.kind))
                  \/ flatly /\ ~equal_nan /\ part = "counts" /\ DoKeyed(g, c, result(unique_counts(b, g.kind), part))
                  \/ flatly /\ ~equal_nan /\ part = "inverse" /\ DoKeyed(g, c, result(unique_inverse(b, g.kind), part))
                  \/ flatly /\ ~equal_nan /\ DoKeyed(g, c, result(unique_all(b, g.kind), part))
    BY DEF Unique
  <1>1. PICK c : \/ DoKeyed(g, c, result(unique(Keyed(arr, g.key), g.kind, part \in {"index", "inverse"}, axis, equal_nan), part))
                 \/ DoKeyed(g, c, unique_values(Keyed(arr, g.key), g.kind))
                 \/ DoKeyed(g, c, result(unique_counts(Keyed(arr, g.key), g.kind), part))
                 \/ DoKeyed(g, c, result(unique_inverse(Keyed(arr, g.key), g.kind), part))
                 \/ DoKeyed(g, c, result(unique_all(Keyed(arr, g.key), g.kind), part))
    <2> HIDE DEF result
    <2> QED  BY <1>a, Zenon
  <1>2. PICK a : a = Keyed(arr, g.key)  OBVIOUS
  <1>3. Laid(a)  BY <1>2, KeyedLaid
  <1>4. ASSUME NEW r, r = Raised \/ Unique4(r)  PROVE Sound(result(r, part))
    <2>1. Unique4(r) => Laid(r[part])  BY DEF Unique4
    <2> QED  BY <1>4, <2>1 DEF Sound
  <1> HIDE DEF result
  <1>5. axis \in Int \cup {None}  BY DEF Ax
  <1>6. PICK indices : indices = (part \in {"index", "inverse"})  OBVIOUS
  <1>7. PICK yes, no : yes = TRUE /\ no = FALSE  BY Zenon
  <1>8. Sound(result(unique(a, g.kind, indices, axis, equal_nan), part))  BY <1>3, <1>4, <1>5, UniqueIs
  <1>9. \A indices_, nan : Unique4(unique_general(a, g.kind, indices_, nan))  BY <1>3, UniqueGeneralIs
  <1>10. Sound(unique_values(a, g.kind))
    <2>1. PICK u : u = unique_general(a, g.kind, no, yes)  OBVIOUS
    <2>2. Laid(u.values)  BY <1>9, <2>1 DEF Unique4
    <2>3. unique_values(a, g.kind) = u.values  BY <1>7, <2>1, Zenon DEF unique_values
    <2> QED  BY <2>2, <2>3 DEF Sound
  <1>11. /\ Sound(result(unique_counts(a, g.kind), part)) /\ Sound(result(unique_inverse(a, g.kind), part))
         /\ Sound(result(unique_all(a, g.kind), part))
    <2>1. /\ unique_counts(a, g.kind) = unique_general(a, g.kind, no, no)
          /\ unique_inverse(a, g.kind) = unique_general(a, g.kind, yes, no)
          /\ unique_all(a, g.kind) = unique_general(a, g.kind, yes, no)
      BY <1>7, Zenon DEF unique_counts, unique_inverse, unique_all
    <2> QED  BY <1>4, <1>9, <2>1
  <1> QED  BY <1>1, <1>2, <1>6, <1>8, <1>10, <1>11, KeyedStep

\* SetOperation keeps the invariant.
LEMMA SetOperationStep ==
  ASSUME NdArraysAssumption, Laid(arr), SetOperation
  PROVE  Laid(arr')
  <1>1. PICK x, y, z : x = <<4>> /\ y = <<2, 3>> /\ z = <<0>>  OBVIOUS
  <1>2. x \in Seq(Nat) /\ y \in Seq(Nat) /\ z \in Seq(Nat)
    <2>1. PICK k0, k2, k3, k4 \in Nat : k0 = 0 /\ k2 = 2 /\ k3 = 3 /\ k4 = 4  OBVIOUS
    <2>2. <<k4>> \in Seq(Nat) /\ <<k2, k3>> \in Seq(Nat) /\ <<k0>> \in Seq(Nat)  BY ShortShapes
    <2> QED  BY <1>1, <2>1, <2>2
  <1>3. PICK g \in AllKeys, assume_unique \in BOOLEAN, shape \in {<<4>>, <<2, 3>>, <<0>>} :
           LET a == Keyed(arr, g.key)
               b == Another(g.kind, shape)
               c == [assume_unique |-> assume_unique, other |-> Val(b)]
           IN  /\ Rank = 1
               /\ assume_unique => AreDistinct(a, g.kind) /\ AreDistinct(b, g.kind)
               /\ g.every => shape = <<4>> /\ ~assume_unique
               /\ \/ DoKeyed(g, [op |-> "intersect1d"] @@ c, intersect1d(a, b, g.kind, assume_unique))
                  \/ DoKeyed(g, [op |-> "setxor1d"] @@ c, setxor1d(a, b, g.kind, assume_unique))
                  \/ DoKeyed(g, [op |-> "setdiff1d"] @@ c, setdiff1d(a, b, g.kind, assume_unique))
                  \/ ~assume_unique /\ DoKeyed(g, [op |-> "union1d"] @@ c, union1d(a, b, g.kind))
                  \/ \E part \in {"values", "index1", "index2"} :
                        DoKeyed(g, [op |-> "intersect1d_indices", part |-> part] @@ c,
                                intersect1d_return_indices(a, b, g.kind, assume_unique)[part])
    BY Zenon DEF SetOperation
  <1> DEFINE a == Keyed(arr, g.key)
             b == Another(g.kind, shape)
             r == intersect1d_return_indices(a, b, g.kind, assume_unique)
  <1>5. Laid(a) /\ Laid(b)
    <2>1. shape \in {x, y, z}  BY <1>1, <1>3
    <2>2. shape \in Seq(Nat)  BY <1>2, <2>1
    <2> QED  BY <2>2, KeyedLaid, AnotherLaid
  <1>6. Raised \notin Nat  BY DEF NdArraysAssumption
  <1>7. /\ Sound(intersect1d(a, b, g.kind, assume_unique)) /\ Sound(setxor1d(a, b, g.kind, assume_unique))
        /\ Sound(setdiff1d(a, b, g.kind, assume_unique)) /\ Sound(union1d(a, b, g.kind))
    <2> HIDE DEF a, b
    <2> QED  BY <1>5, <1>6, SetsLaid, UnionLaid DEF Sound
  <1>9. \A part \in {"values", "index1", "index2"} : Sound(r[part])
    <2> HIDE DEF a, b
    <2> QED  BY <1>5, IndicesLaid DEF Sound
  <1> DEFINE c == [assume_unique |-> assume_unique, other |-> Val(b)]
             t == intersect1d(a, b, g.kind, assume_unique)
             u == setxor1d(a, b, g.kind, assume_unique)
             v == setdiff1d(a, b, g.kind, assume_unique)
             w == union1d(a, b, g.kind)
  <1>10. \/ DoKeyed(g, [op |-> "intersect1d"] @@ c, t)
         \/ DoKeyed(g, [op |-> "setxor1d"] @@ c, u)
         \/ DoKeyed(g, [op |-> "setdiff1d"] @@ c, v)
         \/ ~assume_unique /\ DoKeyed(g, [op |-> "union1d"] @@ c, w)
         \/ \E part \in {"values", "index1", "index2"} :
               DoKeyed(g, [op |-> "intersect1d_indices", part |-> part] @@ c, r[part])
    BY <1>3
  <1>11. Sound(t) /\ Sound(u) /\ Sound(v) /\ Sound(w)  BY <1>7
  <1> HIDE DEF a, b, c, r, t, u, v, w
  <1>12. ASSUME NEW d, NEW s, DoKeyed(g, d, s), Sound(s)
         PROVE  Laid(arr')
    BY <1>12, KeyedStep
  <1> QED  BY <1>9, <1>10, <1>11, <1>12, Zenon

\* IsIn keeps the invariant.
LEMMA IsInStep ==
  ASSUME Laid(arr), IsIn
  PROVE  Laid(arr')
  <1>1. PICK g, c, b, invert : DoKeyed(g, c, isin(Keyed(arr, g.key), b, g.kind, invert))  BY DEF IsIn
  <1>2. Sound(isin(Keyed(arr, g.key), b, g.kind, invert))  BY KeyedLaid, IsInLaid DEF Sound
  <1> QED  BY <1>1, <1>2, KeyedStep

\* Diff keeps the invariant.
LEMMA DiffStep ==
  ASSUME Laid(arr), Diff
  PROVE  Laid(arr')
  <1>1. PICK s \in Seq(Nat) : s = arr.shape  BY LaidIs
  <1>2. PICK e \in Seq(Nat) : e = <<>>
    <2>1. <<>> \in Seq(Nat)  OBVIOUS
    <2> QED  BY <2>1, Zenon
  <1> DEFINE end(t) == IF t \in {Omitted, None} THEN t ELSE Other(t, "F")
  <1>3. PICK n \in -1..3, axis \in {0, -1, 3},
             ends \in {Omitted, None, <<>>, arr.shape, Column(arr.shape)} \X {Omitted, <<>>, arr.shape} :
           After(diff(arr, n, axis, end(ends[1]), end(ends[2])))
    BY DoIs DEF Diff
  <1>4. ends[1] \in {Omitted, None, e, s, Column(s)} /\ ends[2] \in {Omitted, e, s}  BY <1>1, <1>2, <1>3
  <1>5. \A t \in {Omitted, None, e, s, Column(s)} : end(t) \in {Omitted, None} \/ Laid(end(t))
    <2>1. \A t \in {e, s, Column(s)} : Laid(Other(t, "F"))  BY RowIs, OtherLaid
    <2> QED  BY <2>1
  <1> HIDE DEF end
  <1>6. PICK x, y : x = end(ends[1]) /\ y = end(ends[2])  OBVIOUS
  <1>7. (x \in {Omitted, None} \/ Laid(x)) /\ (y \in {Omitted, None} \/ Laid(y))  BY <1>4, <1>5, <1>6
  <1>8. n \in Int /\ axis \in Int  BY <1>3
  <1>9. Sound(diff(arr, n, axis, x, y))  BY <1>7, <1>8, DiffLaid
  <1> QED  BY <1>3, <1>6, <1>9, AfterLaid

\* EDiff1D keeps the invariant.
LEMMA EDiffStep ==
  ASSUME Laid(arr), EDiff1D
  PROVE  Laid(arr')
  <1> DEFINE end(t) == IF t = None THEN None ELSE Other(t, "C")
  <1>1. PICK to_end \in {None, <<>>, <<2, 1>>}, to_begin \in {None, <<>>, <<2, 1>>} :
           After(ediff1d(arr, end(to_end), end(to_begin)))
    BY DoIs DEF EDiff1D
  <1>2. PICK e, u : e = <<>> /\ u = <<2, 1>>  OBVIOUS
  <1>3. e \in Seq(Nat) /\ u \in Seq(Nat)  BY <1>2, SmallCounts
  <1>4. \A t \in {None, e, u} : end(t) = None \/ Laid(end(t))
    <2>1. Laid(Other(e, "C")) /\ Laid(Other(u, "C"))  BY <1>3, OtherLaid
    <2> QED  BY <2>1
  <1> HIDE DEF end
  <1>5. PICK x, y : x = end(to_end) /\ y = end(to_begin)  OBVIOUS
  <1>6. to_end \in {None, e, u} /\ to_begin \in {None, e, u}  BY <1>1, <1>2, Zenon
  <1>7. (x = None \/ Laid(x)) /\ (y = None \/ Laid(y))  BY <1>4, <1>5, <1>6
  <1>8. Sound(ediff1d(arr, x, y))  BY <1>7, EDiffLaid DEF Sound
  <1> QED  BY <1>1, <1>5, <1>8, AfterLaid

\* TrimZeros keeps the invariant.
LEMMA TrimZerosStep ==
  ASSUME Laid(arr), TrimZeros
  PROVE  Laid(arr')
  <1>1. PICK g, c, axes, trim : DoKeyed(g, c, trim_zeros(Keyed(arr, g.key), g.kind, trim, axes))
    BY Zenon DEF TrimZeros
  <1>2. Sound(trim_zeros(Keyed(arr, g.key), g.kind, trim, axes))  BY KeyedLaid, TrimZerosLaid
  <1> QED  BY <1>1, <1>2, KeyedStep

----------------------------------------------------------------------------
(* Every state.                                                               *)

\* Every step.
LEMMA SearchStepLaid ==
  ASSUME NdArraysAssumption, Laid(arr), [SearchNext]_vars
  PROVE  Laid(arr')
  <1>1. CASE [Next]_vars  BY <1>1, StepLaid
  <1>2. CASE Sort \/ SortInPlace \/ ArgSort \/ SortComplex \/ LexSort \/ NonZero \/ FlatNonZero \/ ArgWhere
    BY <1>2, SortsStep, LexSortStep, NonZeroStep, Zenon
  <1>3. CASE Extract \/ Where \/ SearchSorted \/ NanArg \/ Unique \/ SetOperation
    BY <1>3, ExtractStep, WhereStep, SearchSortedStep, NanArgStep, UniqueStep, SetOperationStep, Zenon
  <1>4. CASE IsIn \/ Diff \/ EDiff1D \/ TrimZeros
    BY <1>4, IsInStep, DiffStep, EDiffStep, TrimZerosStep, Zenon
  <1> QED  BY <1>1, <1>2, <1>3, <1>4, Zenon DEF SearchNext

\* Whatever calls are made, sorts, searches and set operations included, the array
\* keeps one integer stride for each axis and an integer offset.
THEOREM SearchLaid ==
  SearchSpec => []Laid(arr)
  <1>1. Init => Laid(arr)  BY StartLaid, NdArraysAssumption
  <1>2. Laid(arr) /\ [SearchNext]_vars => Laid(arr)'  BY SearchStepLaid, NdArraysAssumption DEF Laid
  <1> QED  BY <1>1, <1>2, PTL DEF SearchSpec

\* The flags say how the cells lie, after any calls, in every layout: C (or F)
\* contiguous exactly when the elements (of the transpose) are in consecutive cells.
THEOREM FlagsAreRight ==
  Spec => []FlagsSayTheOrder
  <1>1. Laid(arr) => FlagsSayTheOrder
    BY LaidFlags
  <1> QED  BY <1>1, AlwaysLaid, PTL

\* memory_extent is the span of the cells, after any calls, with strides of
\* either sign.
THEOREM ExtentIsRight ==
  Spec => []ExtentIsTight
  <1>1. Laid(arr) => ExtentIsTight
    BY LaidExtent
  <1> QED  BY <1>1, AlwaysLaid, PTL

\* The flags say how the cells lie, after any calls, sorts, searches and set
\* operations included: every fast path over a whole buffer rests on this.
THEOREM SearchFlagsAreRight ==
  SearchSpec => []FlagsSayTheOrder
  <1>1. Laid(arr) => FlagsSayTheOrder
    BY LaidFlags
  <1> QED  BY <1>1, SearchLaid, PTL

\* memory_extent is the span of the cells, after any calls, sorts, searches and set
\* operations included: may_share_memory and the copies made for overlapping
\* operands rest on this.
THEOREM SearchExtentIsRight ==
  SearchSpec => []ExtentIsTight
  <1>1. Laid(arr) => ExtentIsTight
    BY LaidExtent
  <1> QED  BY <1>1, SearchLaid, PTL

=============================================================================
