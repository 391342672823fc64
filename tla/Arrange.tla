------------------------------- MODULE Arrange --------------------------------
(***************************************************************************)
(* The operations of ionp-core's creation.rs and manip.rs that move axes or   *)
(* put elements in another place, and the memory order of ufunc and reduction *)
(* results.  A gather by row-major numbers (`gather_flat!`) is given by the   *)
(* position each element comes from.                                          *)
(***************************************************************************)
EXTENDS Indexing

\* normalize_axis: a Python axis as an axis counted from 1.
normalize_axis(axis, n) == IF axis \in -n..n - 1 THEN (axis % n) + 1 ELSE Raised
Put1(s, d, x) == [e \in DOMAIN s |-> IF e = d THEN x ELSE s[e]]
Without(s, D) == Permuted(s, Ascending(DOMAIN s \ D))
Flat(a) == reshape(to_contiguous(a), <<Size(a.shape)>>, "C")

\* The result whose element at p is the one of a at From(p).
Arranged(a, shape, From(_)) ==
    LET contig == to_contiguous(a)
    IN  from_buffer([k \in 1..Size(shape) |->
                       contig.buf[Number(a.shape, From(Position(shape, k - 1))) + 1]], shape, "C")

(* Views that move axes.                                                      *)
transpose(a) == transpose_axes(a, Reversal(Len(a.shape)))
swapaxes(a, d, e) == transpose_axes(a, [Identity(Len(a.shape)) EXCEPT ![d] = e, ![e] = d])

\* Each axis of source goes to its destination, the others keep their order; the
\* insertions are made from the first destination to the last.
moveaxis(a, source, destination) ==
    LET rest == Ascending(DOMAIN a.shape \ ToSet(source))
        targets == Ascending(ToSet(destination))
        moved(at) == source[CHOOSE i \in DOMAIN source : destination[i] = at]
        order[i \in 0..Len(source)] ==
            IF i = 0 THEN rest
            ELSE InsertAt(order[i - 1], targets[i], moved(targets[i]))
    IN  transpose_axes(a, order[Len(source)])

squeeze(a, axes) ==
    LET gone == IF axes = None THEN {d \in DOMAIN a.shape : a.shape[d] = 1} ELSE axes
    IN  IF \E d \in gone : d \notin DOMAIN a.shape THEN Raised
        ELSE IF \E d \in gone : a.shape[d] # 1 THEN Raised
        ELSE View(a, Without(a.shape, gone), Without(a.strides, gone), a.offset)

\* old with fill inserted so that it ends up at the axes `at`.
Inserted(old, at, fill) ==
    [d \in 1..Len(old) + Cardinality(at) |->
       IF d \in at THEN fill ELSE old[d - Cardinality({e \in at : e < d})]]

insert_newaxis(a, at) ==
    IF \E d \in at : d > Len(a.shape) + Cardinality(at) THEN Raised
    ELSE View(a, Inserted(a.shape, at, 1), Inserted(a.strides, at, 0), a.offset)
expand_dims(a, at) ==
    IF \E d \in at : d > Len(a.shape) + Cardinality(at) THEN Raised
    ELSE reshape(a, Inserted(a.shape, at, 1), "C")

\* Mutation of flip: the offset stays at the first element.
FlipInPlace(a, axes) ==
    View(a, a.shape, [d \in DOMAIN a.shape |-> IF d \in axes THEN -a.strides[d] ELSE a.strides[d]],
         a.offset)

flip(a, axes) ==
    LET turned == {d \in axes : a.shape[d] > 0}
    IN  View(a, a.shape,
             [d \in DOMAIN a.shape |-> IF d \in turned THEN -a.strides[d] ELSE a.strides[d]],
             a.offset + Total([d \in DOMAIN a.shape |->
                                 IF d \in turned THEN (a.shape[d] - 1) * a.strides[d] ELSE 0]))

rot90(a, k, d, e) ==
    CASE k % 4 = 0 -> to_contiguous(a)
      [] k % 4 = 1 -> to_contiguous(swapaxes(flip(a, {e}), d, e))
      [] k % 4 = 2 -> to_contiguous(flip(flip(a, {d}), {e}))
      [] k % 4 = 3 -> to_contiguous(flip(swapaxes(a, d, e), {e}))

rollaxis(a, axis, start) ==
    LET n == Len(a.shape)
        d == normalize_axis(axis, n)
        from == IF start < 0 THEN start + n ELSE start
        to == IF d - 1 < from THEN from ELSE from + 1
        rest == Ascending((1..n) \ {d})
    IN  IF d = Raised \/ from \notin 0..n THEN Raised
        ELSE IF to = d THEN to_contiguous(a)
        ELSE to_contiguous(transpose_axes(a, InsertAt(rest, to, d)))

slice_segment(a, d, from, to) ==
    get_view(a, [e \in DOMAIN a.shape |->
        IF e = d THEN [kind |-> "slice", start |-> from, stop |-> to, step |-> 1] ELSE FullSlice])

\* The bounds of `sections` pieces as even as possible, the longer ones first.
section_bounds(len, sections) ==
    [i \in 1..sections + 1 |-> (i - 1) * (len \div sections) + Min({i - 1, len % sections})]
\* arg is a number of sections or a sequence of indices: the pieces, in order.
array_split(a, sections, indices, axis) ==
    LET d == normalize_axis(axis, Len(a.shape))
        bounds == IF indices = None THEN section_bounds(a.shape[d], sections)
                  ELSE <<0>> \o indices \o <<a.shape[d]>>
    IN  IF d = Raised THEN Raised
        ELSE IF indices = None /\ sections <= 0 THEN Raised
        ELSE [i \in 1..Len(bounds) - 1 |-> slice_segment(a, d, bounds[i], bounds[i + 1])]

(* Joining.                                                                   *)
Joined(arrays, d) ==
    LET n == Len(arrays[1].shape)
        shape == Put1(arrays[1].shape, d, Total([i \in DOMAIN arrays |-> arrays[i].shape[d]]))
        inner == Size(SubSeq(shape, d + 1, n))
        contigs == [i \in DOMAIN arrays |-> to_contiguous(arrays[i])]
        chunk(i, o) == LET len == arrays[i].shape[d] * inner
                       IN  SubSeq(contigs[i].buf, (o - 1) * len + 1, o * len)
    IN  IF n = 0 THEN Raised
        ELSE IF d = Raised \/ \E i \in DOMAIN arrays : Len(arrays[i].shape) # n THEN Raised
        ELSE IF \E i \in DOMAIN arrays, e \in 1..n :
                    e # d /\ arrays[i].shape[e] # arrays[1].shape[e] THEN Raised
        ELSE from_buffer(Concat([o \in 1..Size(SubSeq(shape, 1, d - 1)) |->
                                   Concat([i \in DOMAIN arrays |-> chunk(i, o)])]), shape, "C")
concatenate(arrays, axis) ==
    IF axis = None THEN Joined([i \in DOMAIN arrays |-> Flat(arrays[i])], 1)
    ELSE Joined(arrays, normalize_axis(axis, Len(arrays[1].shape)))

stack(arrays, axis) ==
    LET d == normalize_axis(axis, Len(arrays[1].shape) + 1)
    IN  IF \E i \in DOMAIN arrays : arrays[i].shape # arrays[1].shape THEN Raised
        ELSE IF d = Raised THEN Raised
        ELSE concatenate([i \in DOMAIN arrays |-> insert_newaxis(arrays[i], {d})], d - 1)

(* Copies with the elements in other places.                                  *)
\* roll by one shift, of the flattened array or of some axes.
roll(a, shift, axes) ==
    LET n == Size(a.shape)
        rolled(len) == shift % len
    IN  IF n = 0 THEN IF axes = None /\ Len(a.shape) # 1 THEN to_contiguous(a)
                      ELSE zero_strides(to_contiguous(a))
        ELSE IF axes = None
        THEN Arranged(a, a.shape, LAMBDA p :
                        Position(a.shape, (Number(a.shape, p) + n - rolled(n)) % n))
        ELSE Arranged(a, a.shape, LAMBDA p : [d \in DOMAIN p |->
                IF d \in axes THEN (p[d] + a.shape[d] - rolled(a.shape[d])) % a.shape[d]
                ELSE p[d]])

\* The padded shape of one sequence, for another that may be longer.
PaddedTo(s, n) == [i \in 1..Max({0, n - Len(s)}) |-> 1] \o s

Tiled(padded, full) ==
    LET shape == [d \in DOMAIN full |-> padded.shape[d] * full[d]]
    IN  IF Size(shape) = 0
        THEN IF \A d \in DOMAIN full : full[d] = 1 THEN zero_strides(padded)
             ELSE IF shape = padded.shape THEN padded
             ELSE Fresh(<<>>, shape, c_strides(shape))
        ELSE Arranged(padded, shape, LAMBDA p : [d \in DOMAIN p |-> p[d] % padded.shape[d]])
tile(a, reps) ==
    LET n == Max({Len(a.shape), Len(reps)})
    IN  Tiled(reshape(a, PaddedTo(a.shape, n), "C"), PaddedTo(reps, n))

\* One axis of a replaced by the elements of it that mapping lists (from zero).
AlongAxis(a, d, mapping) ==
    Arranged(a, Put1(a.shape, d, Len(mapping)), LAMBDA p : Put1(p, d, mapping[p[d] + 1]))

\* The array and the axis (counted from 1) of the operations whose axis may be None,
\* for the flattened array.
OnAxis(a, axis) == IF axis = None THEN Flat(a) ELSE a
AxisOf(a, axis) == IF axis = None THEN 1 ELSE normalize_axis(axis, Len(a.shape))

RepeatAlong(a, repeats, d) ==
    LET each == Concat([i \in DOMAIN repeats |-> [r \in 1..repeats[i] |-> i - 1]])
    IN  IF d = Raised THEN Raised
        ELSE IF Len(repeats) # a.shape[d] THEN Raised
        ELSE AlongAxis(a, d, each)
repeat(a, repeats, axis) == RepeatAlong(OnAxis(a, axis), repeats, AxisOf(a, axis))

\* slice_to_indices: the positions a slice visits.
slice_to_indices(s, len) ==
    LET n == normalize_slice(s.start, s.stop, s.step, len)
    IN  IF n = Raised THEN Raised ELSE [i \in 1..n.len |-> n.start + (i - 1) * n.step]

\* What delete is given: a slice, integers, or a mask.
Gone(obj, n) ==
    CASE obj.kind = "slice" -> slice_to_indices(obj, n)
      [] obj.kind = "array" -> [i \in DOMAIN obj.vals |->
            IF obj.vals[i] < 0 THEN obj.vals[i] + n ELSE obj.vals[i]]
      [] obj.kind = "mask" ->
            IF obj.shape = <<n>> THEN Ascending({i \in 0..n - 1 : obj.vals[i + 1]})
            ELSE Raised
DeleteAlong(a, gone, d) ==
    LET n == a.shape[d]
    IN  IF gone = Raised THEN Raised
        ELSE IF \E i \in DOMAIN gone : gone[i] \notin 0..n - 1 THEN Raised
        ELSE AlongAxis(a, d, Ascending((0..n - 1) \ ToSet(gone)))
delete(a, obj, axis) ==
    LET d == AxisOf(a, axis)
        n == IF axis = None THEN Size(a.shape) ELSE a.shape[d]
    IN  IF d = Raised THEN Raised ELSE DeleteAlong(OnAxis(a, axis), Gone(obj, n), d)

\* One new block before position i of axis d; the values of a scalar index have
\* the axis first.
insert_block(a, at, v, d) ==
    LET n == a.shape[d]
        room == IF Len(v.shape) >= d THEN v.shape[d] ELSE 1
        parts == <<slice_segment(a, d, 0, at), broadcast_to(v, Put1(a.shape, d, room)),
                   slice_segment(a, d, at, n)>>
    IN  IF \E i \in DOMAIN parts : parts[i] = Raised THEN Raised ELSE Joined(parts, d)
AxisFirst(v, scalar, d) ==
    LET m == Len(v.shape)
    IN  IF scalar /\ m > 0 THEN transpose_axes(v, InsertAt(Tail(Identity(m)), Min({d, m}), 1)) ELSE v
insert_single(a, i, scalar, values, d) ==
    LET n == a.shape[d]
        long == IF Len(values.shape) < Len(a.shape)
                THEN reshape(values, PaddedTo(values.shape, Len(a.shape)), "C") ELSE values
    IN  IF i \notin -n..n THEN Raised
        ELSE insert_block(a, IF i < 0 THEN i + n ELSE i, AxisFirst(long, scalar, d), d)

\* Where the new elements end up: each one before its own index, those of smaller
\* indices (and of equal ones named earlier) already in place.
insert_places(wrapped) ==
    [k \in DOMAIN wrapped |->
       wrapped[k] + Cardinality({j \in DOMAIN wrapped : \/ wrapped[j] < wrapped[k]
                                                        \/ wrapped[j] = wrapped[k] /\ j < k})]

\* Several new elements along axis d, each before its own index.
insert_multi(a, indices, values, d) ==
    LET n == a.shape[d]
        m == Len(indices)
        places == insert_places([k \in DOMAIN indices |->
                                   IF indices[k] < 0 THEN indices[k] + n ELSE indices[k]])
        new == broadcast_to(values, Put1(a.shape, d, m))
        shape == Put1(a.shape, d, n + m)
        both == to_contiguous(a).buf \o to_contiguous(new).buf
        old(x) == Cardinality({y \in 0..x - 1 : y \notin ToSet(places)})
        from(p) == IF p[d] \in ToSet(places)
                   THEN Size(a.shape) + Number(new.shape, Put1(p, d,
                            Max({k \in DOMAIN places : places[k] = p[d]}) - 1))
                   ELSE Number(a.shape, Put1(p, d, old(p[d])))
    IN  IF \E k \in DOMAIN places : places[k] \notin 0..n + m - 1 THEN Raised
        ELSE IF new = Raised THEN Raised
        ELSE from_buffer([k \in 1..Size(shape) |-> both[from(Position(shape, k - 1)) + 1]], shape, "C")

InsertAlong(a, indices, scalar, values, d) ==
    IF indices = Raised THEN Raised
    ELSE IF Len(indices) = 1 THEN insert_single(a, indices[1], scalar, values, d)
    ELSE insert_multi(a, indices, values, d)
insert(a, obj, values, axis) ==
    LET d == AxisOf(a, axis)
        n == IF axis = None THEN Size(a.shape) ELSE a.shape[d]
        indices == CASE obj.kind = "index" -> <<obj.i>>
                     [] obj.kind = "slice" -> slice_to_indices(obj, n)
                     [] obj.kind = "array" -> obj.vals
    IN  IF d = Raised THEN Raised
        ELSE InsertAlong(OnAxis(a, axis), indices, obj.kind = "index", values, d)
=============================================================================
