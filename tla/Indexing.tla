------------------------------- MODULE Indexing -------------------------------
(***************************************************************************)
(* Keys: what `a[key]` selects.  A key is a sequence of items: an integer, a  *)
(* slice, a new axis, an ellipsis, an array of integers or a mask.  A basic   *)
(* key makes a view; a key with an array in it makes a plan of the cells to    *)
(* gather, whose index block leads unless its arrays stand together.          *)
(***************************************************************************)
EXTENDS Layout

\* Row-major numbering of the positions of a shape, from zero.
Position(shape, k) ==
    [d \in DOMAIN shape |-> (k \div Size(SubSeq(shape, d + 1, Len(shape)))) % shape[d]]
Number(shape, p) == Total([d \in DOMAIN shape |-> p[d] * Size(SubSeq(shape, d + 1, Len(shape)))])

Concat(seqs) == FlattenSeq(seqs)

(* Broadcasting.                                                              *)
Aligned(shape, n, d) == IF d <= n - Len(shape) THEN 1 ELSE shape[d - (n - Len(shape))]

broadcast_shapes(shapes) ==
    LET n == Max({Len(shapes[i]) : i \in DOMAIN shapes} \cup {0})
        long(d) == {Aligned(shapes[i], n, d) : i \in DOMAIN shapes} \ {1}
    IN  IF \E d \in 1..n : \E x, y \in long(d) : x # y THEN Raised
        ELSE [d \in 1..n |-> IF long(d) = {} THEN 1 ELSE CHOOSE x \in long(d) : TRUE]

broadcast_strides_to(shape, strides, target) ==
    LET pad == Len(target) - Len(shape)
    IN  [d \in DOMAIN target |->
           IF d <= pad \/ (shape[d - pad] = 1 /\ target[d] # 1) THEN 0 ELSE strides[d - pad]]

broadcast_to(a, target) ==
    LET shape == broadcast_shapes(<<a.shape, target>>)
    IN  IF shape = Raised \/ shape # target THEN Raised
        ELSE View(a, target, broadcast_strides_to(a.shape, a.strides, target), a.offset)

(* Basic keys.                                                                *)
normalize_slice(start, stop, step, len) ==
    LET by == IF step = None THEN 1 ELSE step
        lower == IF by > 0 THEN 0 ELSE -1
        upper == IF by > 0 THEN len ELSE len - 1
        clamp(s) == IF s < 0 THEN Max({s + len, lower}) ELSE Min({s, upper})
        from == IF start # None THEN clamp(start) ELSE IF by < 0 THEN upper ELSE lower
        to == IF stop # None THEN clamp(stop) ELSE IF by < 0 THEN lower ELSE upper
    IN  IF by = 0 THEN Raised
        ELSE [start |-> from, step |-> by,
              len |-> Max({0, IF by > 0 THEN (to - from + by - 1) \div by
                              ELSE (from - to - by - 1) \div (-by)})]

FullSlice == [kind |-> "slice", start |-> None, stop |-> None, step |-> None]

is_advanced(item) == item.kind \in {"array", "mask"}
has_advanced(key) == \E k \in DOMAIN key : is_advanced(key[k])
axes_consumed(item) ==
    CASE item.kind \in {"index", "slice", "array"} -> 1
      [] item.kind \in {"newaxis", "ellipsis"} -> 0
      [] item.kind = "mask" -> Len(item.shape)
Consumed(key) == Total([k \in DOMAIN key |-> axes_consumed(key[k])])
\* The first axis of the array that the item at k is about.
AxisAt(key, k) == 1 + Consumed(SubSeq(key, 1, k - 1))

expand_ellipsis(key, ndim) ==
    LET dots == {k \in DOMAIN key : key[k].kind = "ellipsis"}
        at == CHOOSE k \in dots : TRUE
        fill == Max({0, ndim - Consumed(key)})
    IN  IF dots = {} THEN key
        ELSE IF \E k \in dots : k # at THEN Raised
        ELSE SubSeq(key, 1, at - 1) \o [i \in 1..fill |-> FullSlice]
                \o SubSeq(key, at + 1, Len(key))

\* The key with its ellipsis and its end filled up with whole slices.
whole_key(key, ndim) ==
    LET items == expand_ellipsis(key, ndim)
    IN  IF items = Raised THEN Raised
        ELSE IF Consumed(items) > ndim THEN Raised
        ELSE items \o [i \in 1..ndim - Consumed(items) |-> FullSlice]

\* What an item makes of axis d: the axes it leaves and how far it moves the offset.
Sliced(a, d, s) ==
    IF s = Raised THEN Raised
    ELSE [lens |-> <<s.len>>, strides |-> <<a.strides[d] * s.step>>, offset |-> a.strides[d] * s.start]
Selects(a, item, d) ==
    CASE item.kind = "newaxis" -> [lens |-> <<1>>, strides |-> <<0>>, offset |-> 0]
      [] item.kind = "index" ->
            IF item.i \in -a.shape[d]..a.shape[d] - 1
            THEN [lens |-> <<>>, strides |-> <<>>,
                  offset |-> a.strides[d] * (IF item.i < 0 THEN item.i + a.shape[d] ELSE item.i)]
            ELSE Raised
      [] item.kind = "slice" ->
            Sliced(a, d, normalize_slice(item.start, item.stop, item.step, a.shape[d]))
      \* The block of the index arrays stands for itself.
      [] item.kind \in {"array", "mask"} -> [lens |-> <<>>, strides |-> <<>>, offset |-> 0]
Parts(a, items) == [k \in DOMAIN items |-> Selects(a, items[k], AxisAt(items, k))]

Window(a, part) ==
    IF \E k \in DOMAIN part : part[k] = Raised THEN Raised
    ELSE View(a, Concat([k \in DOMAIN part |-> part[k].lens]),
                 Concat([k \in DOMAIN part |-> part[k].strides]),
                 a.offset + Total([k \in DOMAIN part |-> part[k].offset]))
get_view(a, key) ==
    LET items == whole_key(key, Len(a.shape))
    IN  IF items = Raised THEN Raised ELSE Window(a, Parts(a, items))

(* Keys with arrays.                                                          *)
\* The positions where a mask holds, in C order, as one index array per axis of it.
expand_bool(item, axis) ==
    LET hits == Ascending({k \in 0..Size(item.shape) - 1 : item.vals[k + 1]})
    IN  [c \in DOMAIN item.shape |->
           [axis |-> axis + c - 1, shape |-> <<Len(hits)>>,
            vals |-> [i \in DOMAIN hits |-> Position(item.shape, hits[i])[c]]]]

\* The index arrays an item contributes; a mask without axes selects the new
\* axis of length one or nothing (axis 0 stands for it).
Advances(a, item, axis) ==
    CASE item.kind = "array" -> <<[axis |-> axis, shape |-> item.shape, vals |-> item.vals]>>
      [] item.kind = "mask" ->
            IF item.shape = <<>>
            THEN <<[axis |-> 0, shape |-> <<IF item.vals[1] THEN 1 ELSE 0>>,
                    vals |-> IF item.vals[1] THEN <<0>> ELSE <<>>]>>
            ELSE expand_bool(item, axis)
      [] OTHER -> <<>>

MaskFits(a, item, axis) ==
    item.kind = "mask" =>
        \A c \in DOMAIN item.shape :
            item.shape[c] = (IF axis + c - 1 <= Len(a.shape) THEN a.shape[axis + c - 1] ELSE 0)

\* The block of the index arrays leads when something stands between them.
BlockLeads(items) ==
    \E j, k \in DOMAIN items :
        /\ j + 1 < k
        /\ is_advanced(items[j])
        /\ is_advanced(items[k])
        /\ \E m \in j + 1..k - 1 : ~is_advanced(items[m])

\* The plan of a key with arrays: the shape of the result, the cell of every
\* position in C order, where the block of the index arrays is and how many
\* axes it has.
PlanOf(a, part, advs, block, reads, at) ==
    LET free == Concat([k \in DOMAIN part |-> part[k].lens])
        steps == Concat([k \in DOMAIN part |-> part[k].strides])
        out == SubSeq(free, 1, at) \o block \o SubSeq(free, at + 1, Len(free))
        base == a.offset + Total([k \in DOMAIN part |-> part[k].offset])
        jump == [b \in 1..Size(block) |->
                   Total([i \in DOMAIN advs |->
                            IF advs[i].axis = 0 THEN 0
                            ELSE a.strides[advs[i].axis] * (reads[i][b] % a.shape[advs[i].axis])])]
        cell(p) == base + jump[Number(block, SubSeq(p, at + 1, at + Len(block))) + 1]
                    + Total([d \in DOMAIN free |->
                               steps[d] * p[IF d <= at THEN d ELSE d + Len(block)]])
    IN  [shape |-> out, at |-> at, ndim |-> Len(block),
         cells |-> [k \in 1..Size(out) |-> cell(Position(out, k - 1))]]

\* What each index array reads for the positions of the block; an index out of
\* bounds is met only when it is read.
Reads(advs, block) ==
    [i \in DOMAIN advs |->
       LET walk == NdIter(block, broadcast_strides_to(advs[i].shape, c_strides(advs[i].shape), block))
       IN  [b \in DOMAIN walk |-> advs[i].vals[walk[b] + 1]]]
InBounds(a, advs, reads) ==
    \A i \in DOMAIN advs :
        LET n == IF advs[i].axis = 0 THEN 1 ELSE a.shape[advs[i].axis]
        IN  \A b \in DOMAIN reads[i] : reads[i][b] \in -n..n - 1
PlanIn(a, items, part, advs, block) ==
    LET first == Min({k \in DOMAIN items : is_advanced(items[k])})
        at == IF BlockLeads(items) THEN 0
              ELSE Len(Concat([k \in 1..first - 1 |-> part[k].lens]))
    IN  IF block = Raised THEN Raised
        ELSE IF ~InBounds(a, advs, Reads(advs, block)) THEN Raised
        ELSE PlanOf(a, part, advs, block, Reads(advs, block), at)
PlanFor(a, items, part, advs) ==
    IF \E k \in DOMAIN items : \/ part[k] = Raised
                               \/ ~MaskFits(a, items[k], AxisAt(items, k)) THEN Raised
    ELSE PlanIn(a, items, part, advs, broadcast_shapes([i \in DOMAIN advs |-> advs[i].shape]))
plan(a, key) ==
    LET items == whole_key(key, Len(a.shape))
    IN  IF items = Raised THEN Raised
        ELSE PlanFor(a, items, Parts(a, items),
                     Concat([k \in DOMAIN items |-> Advances(a, items[k], AxisAt(items, k))]))

\* The axes as they are gathered, the block leading; axis i of the result is axis
\* gather_perm[i] of the temporary.
gather_perm(p) ==
    [i \in DOMAIN p.shape |->
       IF i <= p.at THEN p.ndim + i ELSE IF i <= p.at + p.ndim THEN i - p.at ELSE i]

gather_order(p) ==
    LET perm == gather_perm(p)
        shape == [g \in DOMAIN p.shape |-> p.shape[CHOOSE i \in DOMAIN perm : perm[i] = g]]
    IN  [shape |-> shape,
         cells |-> [k \in DOMAIN p.cells |->
                      LET counter == Position(shape, k - 1)
                      IN  p.cells[Number(p.shape, Permuted(counter, perm)) + 1]]]

gather(a, shape, cells) == from_buffer([k \in DOMAIN cells |-> a.buf[cells[k] + 1]], shape, "C")

transpose_axes(a, perm) == View(a, Permuted(a.shape, perm), Permuted(a.strides, perm), a.offset)

\* The view of a gathered temporary shares nothing with a.
Fetched(a, p) ==
    LET g == gather_order(p)
    IN  IF p = Raised THEN Raised
        ELSE IF p.at = 0 \/ p.ndim = 0 THEN gather(a, p.shape, p.cells)
        ELSE [transpose_axes(gather(a, g.shape, g.cells), gather_perm(p)) EXCEPT !.fresh = TRUE]

\* __getitem__
getitem(a, key) == IF has_advanced(key) THEN Fetched(a, plan(a, key)) ELSE get_view(a, key)
=============================================================================
