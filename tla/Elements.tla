------------------------------- MODULE Elements --------------------------------
(***************************************************************************)
(* The operations of ionp-core that pick elements by number and those that    *)
(* write them where they are: diagonals, take and put, along-axis selection,  *)
(* assignment through a key.  A write returns the array with its buffer       *)
(* changed; `strides` and `offset` say where element k of it is.              *)
(***************************************************************************)
EXTENDS Arrange, Strided

\* The cell of element k, in C order, of an array that has elements.
Cell(a, k) ==
    LET p == Position(a.shape, k)
    IN  a.offset + Total([d \in DOMAIN p |-> p[d] * a.strides[d]])
\* Mutation of Written: the offset of the window is forgotten.
WrittenFromStart(a, cells, vals) ==
    [a EXCEPT !.buf = Assign(a.buf, [i \in DOMAIN cells |-> cells[i] + 1 - a.offset], vals)]

\* vals in the cells, which are counted from 0.
Written(a, cells, vals) ==
    [a EXCEPT !.buf = Assign(a.buf, [i \in DOMAIN cells |-> cells[i] + 1], vals)]
Elems(a) == to_contiguous(a).buf
Cycled(vals, n) == [i \in 1..n |-> vals[((i - 1) % Len(vals)) + 1]]

(* Diagonals and triangles.                                                   *)
diagonal(a, offset, axis1, axis2) ==
    LET n == Len(a.shape)
        d == normalize_axis(axis1, n)
        e == normalize_axis(axis2, n)
        len == Max({0, IF offset >= 0 THEN Min({a.shape[e] - offset, a.shape[d]})
                       ELSE Min({a.shape[d] + offset, a.shape[e]})})
        batch == Ascending((1..n) \ {d, e})
        from(p) == [x \in 1..n |-> IF x = d THEN p[n - 1] + Max({0, -offset})
                                   ELSE IF x = e THEN p[n - 1] + Max({0, offset})
                                   ELSE p[CHOOSE i \in DOMAIN batch : batch[i] = x]]
    IN  IF n < 2 \/ d = Raised \/ e = Raised \/ d = e THEN Raised
        ELSE Arranged(a, Append(Permuted(a.shape, batch), len), from)

diag(v, k) ==
    LET n == v.shape[1]
        side == n + Abs(k)
        at(row, col) == IF k >= 0 THEN row ELSE col
    IN  CASE Len(v.shape) = 1 ->
                from_buffer([f \in 1..side * side |->
                    LET p == Position(<<side, side>>, f - 1)
                    IN  IF p[2] - p[1] = k /\ at(p[1], p[2]) < n
                        THEN Elems(v)[at(p[1], p[2]) + 1] ELSE 0], <<side, side>>, "C")
          [] Len(v.shape) = 2 -> diagonal(v, k, 0, 1)
          [] OTHER -> Raised

\* tril and triu; one axis stands for a square of equal rows.
Triangle(working, k, upper) ==
    LET m == Len(working.shape)
        keep(p) == IF upper THEN p[m] - p[m - 1] >= k ELSE p[m] - p[m - 1] <= k
    IN  from_buffer([f \in 1..Size(working.shape) |->
            IF keep(Position(working.shape, f - 1)) THEN Elems(working)[f] ELSE 0], working.shape, "C")
tri_mask(a, k, upper) ==
    LET n == a.shape[1]
    IN  IF a.shape = <<>> THEN Raised
        ELSE Triangle(IF Len(a.shape) = 1
                      THEN broadcast_to(reshape(to_contiguous(a), <<1, n>>, "C"), <<n, n>>) ELSE a, k, upper)

resize(a, shape) ==
    LET vals == Elems(a)
    IN  from_buffer(IF vals = <<>> THEN [i \in 1..Size(shape) |-> 0] ELSE Cycled(vals, Size(shape)),
                    shape, "C")

(* take and put.                                                              *)
resolve_index(i, n, mode) ==
    CASE mode = "wrap" -> IF n = 0 THEN 0 ELSE i % n
      [] mode = "clip" -> IF n = 0 THEN 0 ELSE Min({Max({i, 0}), n - 1})
      [] mode = "raise" -> LET v == IF i < 0 THEN i + n ELSE i
                           IN  IF v \in 0..n - 1 THEN v ELSE Raised

\* The positions of out the elements of a come from: the axes before d, those of
\* the indices, the axes after it.
take_src_positions(p, d, idx, mapping) ==
    LET m == Len(idx.shape)
    IN  SubSeq(p, 1, d - 1) \o <<mapping[Number(idx.shape, SubSeq(p, d, d + m - 1)) + 1]>>
            \o SubSeq(p, d + m, Len(p))

TakeAlong(a, idx, d, mode) ==
    LET n == a.shape[d]
        outer == Size(SubSeq(a.shape, 1, d - 1))
        inner == Size(SubSeq(a.shape, d + 1, Len(a.shape)))
        mapping == [i \in DOMAIN idx.vals |-> resolve_index(idx.vals[i], n, mode)]
    IN  IF d = Raised THEN Raised
        ELSE IF outer # 0 /\ inner # 0 /\ n = 0 /\ idx.vals # <<>> THEN Raised
        ELSE IF outer # 0 /\ Raised \in ToSet(mapping) THEN Raised
        ELSE Arranged(a, SubSeq(a.shape, 1, d - 1) \o idx.shape \o SubSeq(a.shape, d + 1, Len(a.shape)),
                      LAMBDA p : take_src_positions(p, d, idx, mapping))
\* An array without axes is taken from as an array of one element.
take(a, idx, axis, mode) ==
    IF a.shape = <<>> THEN TakeAlong(Flat(a), idx, IF axis = None THEN 1 ELSE normalize_axis(axis, 1), mode)
    ELSE TakeAlong(OnAxis(a, axis), idx, AxisOf(a, axis), mode)

compress(a, mask, axis) ==
    LET hits == Ascending({i \in 0..Len(mask) - 1 : mask[i + 1]})
    IN  take(a, [shape |-> <<Len(hits)>>, vals |-> hits], axis, "raise")

put(a, idx, values, mode) ==
    LET n == Size(a.shape)
        places == [i \in DOMAIN idx.vals |-> resolve_index(idx.vals[i], n, mode)]
    IN  IF idx.vals = <<>> THEN a
        ELSE IF n = 0 \/ Raised \in ToSet(places) THEN Raised
        ELSE Written(a, [i \in DOMAIN places |-> Cell(a, places[i])],
                     Cycled(Elems(values), Len(places)))

(* Selection along an axis: the indices have the array's axes.                *)
\* Off the axis the lengths must agree wherever neither is one; the result has
\* the lengths of the array there, and the number of indices along the axis.
take_along_axis_shape(base, idx, d) ==
    IF Len(base) # Len(idx) THEN Raised
    ELSE IF \E p \in DOMAIN base \ {d} :
                base[p] # 1 /\ idx[p] # 1 /\ base[p] # idx[p] THEN Raised
    ELSE Put1(base, d, idx[d])

\* The index for position p of the result; an axis of length one is stretched.
IndexFor(p, idx) ==
    idx.vals[Number(idx.shape, [d \in DOMAIN p |-> IF idx.shape[d] = 1 THEN 0 ELSE p[d]]) + 1]

SelectAlong(a, idx, d, shape) ==
    LET at(p) == resolve_index(IndexFor(p, idx), a.shape[d], "raise")
    IN  IF shape = Raised THEN Raised
        ELSE IF \E k \in 0..Size(shape) - 1 : at(Position(shape, k)) = Raised THEN Raised
        ELSE Arranged(a, shape, LAMBDA p : Put1(p, d, at(p)))
\* The shape of the array the indices are about.
ShapeOn(a, axis) == IF axis = None THEN <<Size(a.shape)>> ELSE a.shape
take_along_axis(a, idx, axis) ==
    LET d == AxisOf(a, axis)
    IN  IF d = Raised THEN Raised
        ELSE SelectAlong(OnAxis(a, axis), idx, d, take_along_axis_shape(ShapeOn(a, axis), idx.shape, d))

\* The array after the writes, and whether they ended with an index out of bounds:
\* the elements before it stay written, except in the copy made for axis None.
PutAlong(a, idx, new, d) ==
    LET places == [k \in 1..Size(new.shape) |->
                     LET p == Position(new.shape, k - 1)
                         i == resolve_index(IndexFor(p, idx), a.shape[d], "raise")
                     IN  IF i = Raised THEN Raised
                         ELSE Cell(a, Number(a.shape, Put1(p, d, i)))]
        wrong == {k \in DOMAIN places : places[k] = Raised}
        legal == IF wrong = {} THEN places ELSE SubSeq(places, 1, Min(wrong) - 1)
    IN  [arr |-> Written(a, legal, Elems(new)), raised |-> wrong # {}]
\* A flat copy replaces the array when all was written.
PutBack(a, axis, done) ==
    IF axis # None THEN done
    ELSE [arr |-> IF done.raised THEN a ELSE reshape(done.arr, a.shape, "C"), raised |-> done.raised]
put_along_axis(a, idx, values, axis) ==
    LET d == AxisOf(a, axis)
        shape == take_along_axis_shape(ShapeOn(a, axis), idx.shape, d)
    IN  IF d = Raised THEN [arr |-> a, raised |-> TRUE]
        ELSE IF shape = Raised THEN [arr |-> a, raised |-> TRUE]
        ELSE IF broadcast_shapes(<<values.shape, shape>>) # shape THEN [arr |-> a, raised |-> TRUE]
        ELSE PutBack(a, axis, PutAlong(OnAxis(a, axis), idx, broadcast_to(values, shape), d))

\* A value of the array's own dtype.
fill_diagonal(a, val, wrap) ==
    LET n == Len(a.shape)
        step == IF n = 2 THEN a.shape[2] + 1
                ELSE 1 + Total([d \in 1..n - 1 |-> Size(SubSeq(a.shape, 1, d))])
        end == IF n = 2 /\ ~wrap THEN Min({a.shape[2] * a.shape[2], Size(a.shape)}) ELSE Size(a.shape)
        places == [i \in 1..(end + step - 1) \div step |-> Cell(a, (i - 1) * step)]
    IN  IF n < 2 \/ (n > 2 /\ \E d \in 1..n : a.shape[d] # a.shape[1]) THEN Raised
        ELSE Written(a, places, Cycled(Elems(val), Len(places)))

(* a[key] = values, another array.                                            *)
scatter(a, shape, cells, values) ==
    LET new == broadcast_to(values, shape)
    IN  IF new = Raised THEN Raised ELSE Written(a, cells, Elems(new))

\* values without the axes it has too many, which must have length one.
Trimmed(values, n) ==
    LET extra == Len(values.shape) - n
        kept == SubSeq(values.shape, extra + 1, Len(values.shape))
    IN  IF extra <= 0 THEN values
        ELSE IF \E d \in 1..extra : values.shape[d] # 1 THEN Raised
        ELSE reshape(to_contiguous(values), kept, "C")
ScatterTrimmed(a, shape, cells, values) ==
    IF values = Raised THEN Raised ELSE scatter(a, shape, cells, values)

\* A mask with the shape of the array takes no values of more than one axis.
check_assign_shape(a, key, values) ==
    Len(key) = 1 /\ key[1].kind = "mask" /\ Len(values.shape) > 1
        => Len(key[1].shape) # Len(a.shape)

ScatterAt(a, p, values) ==
    IF p = Raised THEN Raised ELSE ScatterTrimmed(a, p.shape, p.cells, Trimmed(values, Len(p.shape)))
WindowCells(v) ==
    IF v = Raised THEN Raised ELSE [shape |-> v.shape, cells |-> [k \in 1..Size(v.shape) |-> Cell(v, k - 1)]]
setitem(a, key, values) ==
    IF ~check_assign_shape(a, key, values) THEN Raised
    ELSE ScatterAt(a, IF has_advanced(key) THEN plan(a, key) ELSE WindowCells(get_view(a, key)), values)
=============================================================================
