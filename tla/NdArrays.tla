------------------------------- MODULE NdArrays --------------------------------
(***************************************************************************)
(* Array operations on the layouts that come up: an array with memory of its  *)
(* own, in C or F order, seen through a key, with its axes in any order or     *)
(* stretched; then calls.  Elements are distinct powers of two.  The calls     *)
(* keep what ArrayValues promises of every operation, whatever the layout.     *)
(***************************************************************************)
EXTENDS Reduction

CONSTANTS Shapes,     \* the shapes of the arrays a session starts from
          MaxCalls    \* bound on the calls of a session

ASSUME NdArraysAssumption == /\ Shapes \subseteq Seq(Nat)
                             /\ Raised \notin Nat \cup Seq(Nat)

VARIABLES arr,     \* the array
          call,    \* the last call and its arguments
          raised,  \* whether it raised
          calls    \* how many there were

vars == <<arr, call, raised, calls>>

(* Arguments.                                                                 *)
Orders == {"C", "F", "A", "K"}
Powers(from, n) == [i \in 1..n |-> 2^(from + i - 1)]
Perms(n) == {p \in [1..n -> 1..n] : \A i, j \in 1..n : p[i] = p[j] => i = j}

\* The cells of an array, and whether every element has one of its own; others
\* are read-only.
Cells(a) == {Cell(a, k) : k \in 0..Size(a.shape) - 1}
Writable(a) == Cardinality(Cells(a)) = Size(a.shape)
Positions(shape) ==
    {p \in [DOMAIN shape -> 0..Max(ToSet(shape) \cup {1}) - 1] : \A d \in DOMAIN shape : p[d] < shape[d]}
Val(a) ==
    [shape |-> a.shape,
     at |-> [p \in Positions(a.shape) |-> a.buf[a.offset + Total([d \in DOMAIN p |-> p[d] * a.strides[d]]) + 1]]]

Slice(start, stop, step) == [kind |-> "slice", start |-> start, stop |-> stop, step |-> step]
Index(i) == [kind |-> "index", i |-> i]
NewAxis == [kind |-> "newaxis"]
Ellipsis == [kind |-> "ellipsis"]
Ints(shape, vals) == [kind |-> "array", shape |-> shape, vals |-> vals]
Mask(shape, vals) == [kind |-> "mask", shape |-> shape, vals |-> vals]
EveryOther(shape) == Mask(shape, [i \in 1..Size(shape) |-> i % 2 = 1])

\* Second operands: arrays of their own, in either order.
Other(shape, order) == from_buffer(Powers(8, Size(shape)), shape, order)
Row(shape) == IF shape = <<>> THEN <<>> ELSE <<shape[Len(shape)]>>
Column(shape) == IF Len(shape) = 2 THEN <<shape[1], 1>> ELSE shape

StartKeys(shape) ==
    {<<>>} \cup
    IF shape = <<>> THEN {}
    ELSE {<<Slice(None, None, -1)>>, <<Ellipsis, Slice(1, None, None)>>,
          <<Ellipsis, Slice(None, None, 2)>>, <<Index(0)>>}

\* The layouts of a start: a key, then the axes turned round or one more axis in
\* front, stretched.
Rotations(n) == {[i \in 1..n |-> ((i + k) % n) + 1] : k \in 1..n}
Layouts(shape, order) ==
    LET own == from_buffer(Powers(0, Size(shape)), shape, order)
        seen == {getitem(own, key) : key \in StartKeys(shape)} \ {Raised}
    IN  seen \cup {broadcast_to(own, <<2>> \o shape)}
        \cup IF order = "F" THEN {}
             ELSE UNION {{transpose_axes(a, perm) : perm \in Rotations(Len(a.shape))} : a \in seen}

Init == /\ \E shape \in Shapes, order \in {"C", "F"} : arr \in Layouts(shape, order)
        /\ call = [op |-> "start"]
        /\ raised = FALSE
        /\ calls = 0

\* The call c has the result r; one that raises leaves the array as it was.
Do(c, r) ==
    /\ call' = c
    /\ raised' = (r = Raised)
    /\ arr' = IF r = Raised THEN arr ELSE r

(* Layout and axes.                                                           *)
Rank == Len(arr.shape)
Axes == DOMAIN arr.shape
NewShapes == {<<Size(arr.shape)>>, arr.shape, Reverse(arr.shape)}
             \cup {<<x, y>> : x, y \in 1..4} \cup {<<2, x, y>> : x, y \in {1, 2, 3}}
             \cup {<<0, 2>>, <<>>, <<1, Size(arr.shape), 1>>}

Reshape == \E shape \in NewShapes, order \in Orders :
    Do([op |-> "reshape", shape |-> shape, order |-> order], reshape(arr, shape, order))
Ravel == \E order \in Orders : Do([op |-> "ravel", order |-> order], ravel_order(arr, order))
Copy == \E order \in Orders : Do([op |-> "copy", order |-> order], to_contiguous_order(arr, order))
Transpose == \E perm \in Perms(Rank) :
    Do([op |-> "transpose", perm |-> perm], IF perm = Reversal(Rank) THEN transpose(arr)
                                            ELSE transpose_axes(arr, perm))
SwapAxes == \E d, e \in Axes : Do([op |-> "swapaxes", d |-> d, e |-> e], swapaxes(arr, d, e))
MoveAxis == \E n \in 1..2 : \E source, destination \in [1..n -> Axes] :
    /\ \A s \in {source, destination} : IsInjective(s)
    /\ Do([op |-> "moveaxis", source |-> source, destination |-> destination],
          moveaxis(arr, source, destination))
RollAxis == \E axis \in -Rank..Rank, start \in -Rank..Rank + 1 :
    Do([op |-> "rollaxis", axis |-> axis, start |-> start], rollaxis(arr, axis, start))
Squeeze == \E axes \in {None} \cup SUBSET (1..Rank) :
    Do([op |-> "squeeze", axes |-> axes], squeeze(arr, axes))
ExpandDims == \E at \in (SUBSET (1..Rank + 2)) \ {{}} :
    /\ Cardinality(at) <= 2
    /\ \/ Do([op |-> "expand_dims", at |-> at], expand_dims(arr, at))
       \/ Do([op |-> "expand_dims", at |-> at], insert_newaxis(arr, at))
Flip == \E axes \in SUBSET Axes : Do([op |-> "flip", axes |-> axes], flip(arr, axes))
Rot90 == \E d, e \in Axes, k \in -1..4 :
    d # e /\ Do([op |-> "rot90", k |-> k, d |-> d, e |-> e], rot90(arr, k, d, e))
BroadcastTo == \E shape \in {<<2>> \o arr.shape, [d \in Axes |-> Max({2, arr.shape[d]})], <<3>>} :
    Do([op |-> "broadcast_to", shape |-> shape], broadcast_to(arr, shape))

(* Keys.                                                                      *)
SomeItems == {Index(0), Index(-1), Slice(None, None, -1), Slice(1, None, None), NewAxis, Ellipsis,
              Ints(<<2>>, <<0, -1>>), Ints(<<2, 1>>, <<1, 0>>), EveryOther(<<2>>), EveryOther(<<3>>)}
Bounds == {None, -5, -1, 0, 2, 5}
\* Tried on one axis only: a slice is about one axis.
SliceKeys == {<<Slice(start, stop, step)>> : start, stop \in Bounds, step \in {None, -2, -1, 2, 0}}
Keys == (IF Rank = 1 THEN SliceKeys ELSE {})
        \cup {<<x>> : x \in SomeItems}
        \cup {<<x, y>> : x \in SomeItems, y \in {Index(-1), Slice(None, None, -1), NewAxis, Ints(<<2>>, <<0, -1>>), EveryOther(<<3>>)}}
        \cup {<<x, y, z>> : x, z \in {Ints(<<2>>, <<0, -1>>), Ints(<<>>, <<1>>), Index(1)},
                            y \in {FullSlice, Index(0), NewAxis, Ellipsis, EveryOther(<<2>>)}}
        \cup {<<x, Ints(<<2>>, <<0, -1>>), y, Ints(<<2>>, <<1, 0>>)>> :
                    x \in {NewAxis, FullSlice}, y \in {NewAxis, FullSlice, Ints(<<>>, <<1>>)}}
        \cup {<<EveryOther(arr.shape)>>, <<Mask(<<>>, <<TRUE>>)>>, <<>>}

GetItem == \E key \in Keys : Do([op |-> "getitem", key |-> key], getitem(arr, key))
SetItem == \E key \in Keys, shape \in {<<2>>, <<2, 1>>, <<1, 2>>} :
    LET values == Other(shape, "F")
    IN  /\ Writable(arr)
        /\ key \notin SliceKeys
        /\ Len(key) # 1 => shape # <<1, 2>>
        /\ Len(key) \in {0, 2, 4} => shape = <<2>>
        /\ Do([op |-> "setitem", key |-> key, values |-> Val(values)], setitem(arr, key, values))

(* Joining, cutting, placing.                                                 *)
SomeAxes == {None, 0, -1, 1, 3}

Concatenate == \E axis \in SomeAxes, order \in {"C", "F"}, shape \in {arr.shape, Reverse(arr.shape), Row(arr.shape)} :
    LET b == Other(shape, order)
    IN  Do([op |-> "concatenate", axis |-> axis, other |-> Val(b)], concatenate(<<arr, b>>, axis))
Stack == \E axis \in {0, -1, 1, 3}, shape \in {arr.shape, Row(arr.shape)} :
    LET b == Other(shape, "F")
    IN  Do([op |-> "stack", axis |-> axis, other |-> Val(b)], stack(<<arr, b>>, axis))
ArraySplit == \E axis \in {0, -1, 3}, sections \in 0..4, indices \in {None, <<1>>, <<2, 1>>, <<-1>>, <<9>>} :
    LET r == array_split(arr, sections, indices, axis)
        c(i) == [op |-> "array_split", axis |-> axis, sections |-> sections, indices |-> indices, piece |-> i]
    IN  /\ indices # None => sections = 0
        /\ IF r = Raised THEN Do(c(1), Raised) ELSE \E i \in DOMAIN r : Do(c(i), r[i])
Roll == \E shift \in {-4, -1, 0, 1, 2}, axes \in {None} \cup SUBSET Axes :
    Do([op |-> "roll", shift |-> shift, axes |-> axes], roll(arr, shift, axes))
Tile == \E reps \in {<<>>, <<2>>, <<0>>, <<1>>, <<2, 1>>, <<1, 2>>, <<2, 1, 1, 2>>} :
    Do([op |-> "tile", reps |-> reps], tile(arr, reps))
Repeat == \E axis \in SomeAxes, repeats \in {<<2>>, <<1, 0>>, <<2, 1>>, <<0, 1, 2>>, <<1, 2, 0, 1, 1, 0>>} :
    Do([op |-> "repeat", axis |-> axis, repeats |-> repeats], repeat(arr, repeats, axis))
Objects == {Slice(None, None, 2), Ints(<<2>>, <<0, -1>>), Ints(<<2>>, <<1, 1>>), Ints(<<1>>, <<1>>)}
Delete == \E axis \in SomeAxes, obj \in Objects \cup {Ints(<<0>>, <<>>), EveryOther(<<2>>), EveryOther(<<3>>), Ints(<<1>>, <<2>>)} :
    Do([op |-> "delete", axis |-> axis, obj |-> obj], delete(arr, obj, axis))
Insert == \E axis \in SomeAxes, obj \in Objects \cup {Index(-1), Index(7)},
             shape \in {<<>>, <<2>>, Column(arr.shape)} :
    LET b == Other(shape, "C")
    IN  /\ axis = None => Len(shape) <= 1
        /\ Len(shape) <= Max({1, Rank})
        /\ Do([op |-> "insert", axis |-> axis, obj |-> obj, values |-> Val(b)], insert(arr, obj, b, axis))

(* Elements.                                                                  *)
Diagonal == \E offset \in -3..3, axis1, axis2 \in {0, 1, -1} :
    Do([op |-> "diagonal", offset |-> offset, axis1 |-> axis1, axis2 |-> axis2],
       diagonal(arr, offset, axis1, axis2))
Diag == \E k \in -2..2 : Rank = 1 /\ Do([op |-> "diag", k |-> k], diag(arr, k))
Tri == \E k \in -2..2, upper \in BOOLEAN :
    Do([op |-> "tri", k |-> k, upper |-> upper], tri_mask(arr, k, upper))
Resize == \E shape \in {<<>>, <<0>>, <<3>>, <<2, 5>>} : Do([op |-> "resize", shape |-> shape], resize(arr, shape))
IndexSets == {Ints(<<>>, <<1>>), Ints(<<0>>, <<>>), Ints(<<2>>, <<0, -1>>), Ints(<<3>>, <<1, 0, 1>>),
              Ints(<<2, 1>>, <<1, 0>>), Ints(<<2>>, <<5, -3>>), Ints(<<1, 2>>, <<1, -1>>),
              Ints(<<2>>, <<1, 5>>)}
Take == \E axis \in SomeAxes, idx \in IndexSets, mode \in {"raise", "wrap", "clip"} :
    Do([op |-> "take", axis |-> axis, indices |-> idx, mode |-> mode], take(arr, idx, axis, mode))
Compress == \E axis \in SomeAxes, mask \in {<<>>, <<TRUE>>, <<FALSE, TRUE>>, <<TRUE, FALSE, TRUE>>} :
    Do([op |-> "compress", axis |-> axis, mask |-> mask], compress(arr, mask, axis))
Put == \E idx \in IndexSets, n \in {1, 2}, mode \in {"raise", "wrap", "clip"} :
    LET b == Other(<<n>>, "C")
    IN  /\ Writable(arr)
        /\ Do([op |-> "put", indices |-> idx, values |-> Val(b), mode |-> mode], put(arr, idx, b, mode))
\* Indices that the array's own axes can stretch, not the other way round.
AlongIndices(axis) ==
    {idx \in IndexSets \cup {Ints([d \in 1..n |-> 1], <<i>>) : n \in 1..3, i \in {0, -1, 4}}
             \cup {Ints(<<2, 2>>, <<1, 0, 0, 1>>), Ints(<<2, 2>>, <<0, 1, 7, 1>>)} :
        \A d \in DOMAIN idx.shape \cap Axes : arr.shape[d] = 1 => idx.shape[d] = 1 \/ axis \in {d - 1, d - 1 - Rank, None}}
TakeAlongAxis == \E axis \in SomeAxes : \E idx \in AlongIndices(axis) :
    Do([op |-> "take_along_axis", axis |-> axis, indices |-> idx], take_along_axis(arr, idx, axis))
PutAlongAxis == \E axis \in SomeAxes, shape \in {<<>>, <<2, 1>>} : \E idx \in AlongIndices(axis) :
    LET b == Other(shape, "C")
        r == put_along_axis(arr, idx, b, axis)
    IN  /\ Writable(arr)
        /\ call' = [op |-> "put_along_axis", axis |-> axis, indices |-> idx, values |-> Val(b)]
        /\ raised' = r.raised
        /\ arr' = r.arr
FillDiagonal == \E n \in {1, 2, 3}, wrap \in BOOLEAN :
    LET b == Other(<<n>>, "C")
    IN  /\ Writable(arr)
        /\ Do([op |-> "fill_diagonal", values |-> Val(b), wrap |-> wrap], fill_diagonal(arr, b, wrap))

(* ufuncs.                                                                    *)
Masks == {from_buffer([i \in 1..Size(shape) |-> i % 2 = 1], shape, "F") : shape \in {arr.shape, Row(arr.shape)}}
\* Kernel, initial and identity: sums, a product, a maximum.
Folds == {<<"pairwise", None, 0>>, <<"pairwise", 1024, 0>>, <<"ordered", None, 0>>, <<"plain", None, None>>}
Reduce == \E axes \in SUBSET Axes, keepdims, cast \in BOOLEAN, f \in Folds, m \in {None} \cup Masks :
    /\ keepdims => f[1] = "plain" /\ m = None
    /\ cast => f[1] = "pairwise" /\ m = None
    /\ Do([op |-> "reduce", axes |-> axes, keepdims |-> keepdims, initial |-> f[2], identity |-> f[3],
           mask |-> IF m = None THEN None ELSE Val(m)],
          reduce_axis(arr, axes, keepdims, f[1], f[2], f[3],
                      IF m = None THEN None ELSE broadcast_to(m, arr.shape), cast))
Accumulate == \E d \in Axes : Do([op |-> "accumulate", d |-> d], accumulate_axis(arr, d))
ReduceAt == \E d \in Axes, idx \in {<<>>, <<0>>, <<1, 0>>, <<0, 0, 1>>, <<2>>, <<0, 5>>} :
    Do([op |-> "reduceat", d |-> d, indices |-> idx], reduceat_axis(arr, idx, d))
ArgMax == \E axes \in {{d} : d \in Axes} \cup {Axes}, keepdims \in BOOLEAN :
    Do([op |-> "argmax", axes |-> axes, keepdims |-> keepdims], argext(arr, axes, keepdims))
UfuncAt == \E idx \in {<<>>, <<0>>, <<1, 1, -1>>, <<0, 4>>}, shape \in {<<>>, <<3, 1>>, Row(arr.shape)} :
    LET b == Other(shape, "C")
    IN  /\ Writable(arr)
        /\ Do([op |-> "at", indices |-> idx, values |-> Val(b)], at_binary(arr, idx, b))
Outer == \E shape \in {<<>>, <<2>>, <<0>>} :
    LET b == Other(shape, "C")
    IN  Do([op |-> "outer", other |-> Val(b)], outer_binary(arr, b))
Binary == \E shape \in {arr.shape, Reverse(arr.shape), <<>>, Column(arr.shape), <<2, 1>> \o Row(arr.shape)},
             order \in {"C", "F"}, out \in Orders :
    LET b == Other(shape, order)
    IN  Do([op |-> "binary", other |-> Val(b), order |-> out], binary_op(arr, b, out))

Next ==
    /\ calls < MaxCalls
    /\ calls' = calls + 1
    /\ \/ Reshape \/ Ravel \/ Copy \/ Transpose \/ SwapAxes \/ MoveAxis \/ RollAxis \/ Squeeze
       \/ ExpandDims \/ Flip \/ Rot90 \/ BroadcastTo \/ GetItem \/ SetItem \/ Concatenate \/ Stack
       \/ ArraySplit \/ Roll \/ Tile \/ Repeat \/ Delete \/ Insert \/ Diagonal \/ Diag \/ Tri \/ Resize
       \/ Take \/ Compress \/ Put \/ TakeAlongAxis \/ PutAlongAxis \/ FillDiagonal \/ Reduce
       \/ Accumulate \/ ReduceAt \/ ArgMax \/ UfuncAt \/ Outer \/ Binary

Spec == Init /\ [][Next]_vars

(* Properties.                                                                *)
\* Every window stays inside its buffer: no stride, offset or length computed by
\* an operation leads outside it.
TypeOK ==
    /\ arr.offset \in Int
    /\ DOMAIN arr.strides = DOMAIN arr.shape
    /\ \A d \in Axes : arr.shape[d] \in Nat /\ arr.strides[d] \in Int
    /\ \A c \in Cells(arr) : c \in 0..Len(arr.buf) - 1
    /\ raised \in BOOLEAN /\ calls \in 0..MaxCalls

\* The flags say how the cells lie: an array is C contiguous when its elements in C
\* order are in consecutive cells, F contiguous when its transpose is C contiguous.
\* Every fast path over a whole buffer rests on this, also for axes of length one,
\* whose strides say nothing.
Consecutive(a) == \A k \in 1..Size(a.shape) - 1 : Cell(a, k) = Cell(a, k - 1) + 1
FlagsSayTheOrder ==
    /\ is_c_contiguous(arr) <=> Consecutive(arr)
    /\ is_f_contiguous(arr) <=> Consecutive(transpose(arr))

\* memory_extent, which may_share_memory and the copies made for overlapping operands
\* rest on, is exactly the span of the cells, with strides of either sign.
ExtentIsTight ==
    LET cells == Cells(arr)
        extent == memory_extent(arr)
    IN  IF cells = {} THEN extent = <<>>
        ELSE {extent[1], extent[2]} \subseteq cells /\ cells \subseteq extent[1]..extent[2]

\* The cell of each element in C order under another shape, when the elements are
\* numbered in `order`; and whether some strides lead to all of them.
CellsAs(a, new, order) ==
    [p \in Positions(new) |->
        IF order = "F" THEN Cell(transpose(a), Number(Reverse(new), Reverse(p)))
        ELSE Cell(a, Number(new, p))]
SomeStridesShow(a, new, order) ==
    LET cells == CellsAs(a, new, order)
        origin == cells[Zeros(new)]
        stride(d) == IF new[d] = 1 THEN 0 ELSE cells[[Zeros(new) EXCEPT ![d] = 1]] - origin
    IN  \A p \in DOMAIN cells : cells[p] = origin + Total([d \in DOMAIN new |-> p[d] * stride(d)])

\* reshape copies an array only when no strides show its elements under the new
\* shape: what the caller writes through the result reaches the array whenever it
\* can, and the grouping of the axes misses no case.
ReshapeCopiesOnlyIfMust ==
    [][/\ call'.op = "reshape"
       /\ ~raised'
       /\ Size(arr.shape) > 0
       => (arr'.fresh <=> ~SomeStridesShow(arr, call'.shape,
                               IF call'.order = "A" /\ is_f_contiguous(arr) /\ ~is_c_contiguous(arr)
                               THEN "F" ELSE call'.order))]_vars

\* a steps through its axes in the order in which b steps through its own.
SameMemoryOrder(a, b) ==
    \A d, e \in DOMAIN a.shape :
        a.shape[d] > 1 /\ a.shape[e] > 1 /\ Abs(b.strides[d]) > Abs(b.strides[e])
            => a.strides[d] > a.strides[e]
\* What is computed from an array lies in memory as asked: a copy in C or F order is
\* contiguous in that order; a copy in K order, accumulate and reduce (with the axes
\* that are left) give a dense result that keeps the memory order of the operand.
Dense(a) == Size(a.shape) = 0 \/ Cells(a) = 0..Size(a.shape) - 1
ResultsKeepOrder ==
    [][/\ call'.op \in {"copy", "reduce", "accumulate"}
       /\ ~raised'
       /\ Size(arr'.shape) > 0
       => /\ Dense(arr')
          /\ CASE call'.op = "reduce" ->
                    SameMemoryOrder(arr', IF call'.keepdims THEN arr
                                          ELSE transpose_axes(arr, Kept(arr, call'.axes)))
               [] call'.op = "copy" /\ call'.order = "C" -> is_c_contiguous(arr')
               [] call'.op = "copy" /\ call'.order = "F" -> is_f_contiguous(arr')
               [] call'.op = "copy" /\ call'.order = "A" ->
                    IF is_f_contiguous(arr) THEN is_f_contiguous(arr') ELSE is_c_contiguous(arr')
               [] OTHER -> SameMemoryOrder(arr', arr)]_vars
=============================================================================
