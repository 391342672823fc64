-------------------------------- MODULE Layout --------------------------------
(***************************************************************************)
(* The n-dimensional array of ionp-core: a buffer seen through a shape,      *)
(* strides and an offset, and the operations that make a new layout of it    *)
(* (a view) or lay its elements out again (a copy).  Axes are counted from 1. *)
(* An array is a record [buf, shape, strides, offset, fresh]; `fresh` says    *)
(* that the operation that returned it allocated `buf`.                       *)
(***************************************************************************)
EXTENDS Integers, Sequences, FiniteSetsExt, SequencesExt

CONSTANTS None,     \* a bound that a slice leaves out
          Raised    \* what an operation returns when it raises

Abs(x) == IF x < 0 THEN -x ELSE x

\* size_of_shape: the product of the lengths.
Size(shape) ==
    LET prod[i \in 0..Len(shape)] == IF i = 0 THEN 1 ELSE prod[i - 1] * shape[i]
    IN  prod[Len(shape)]

Total(s) ==
    LET sum[i \in 0..Len(s)] == IF i = 0 THEN 0 ELSE sum[i - 1] + s[i]
    IN  sum[Len(s)]

AtLeastOne(shape) == [d \in DOMAIN shape |-> Max({shape[d], 1})]
Zeros(shape) == [d \in DOMAIN shape |-> 0]

c_strides(shape) == [d \in DOMAIN shape |-> Size(AtLeastOne(SubSeq(shape, d + 1, Len(shape))))]
f_strides(shape) == [d \in DOMAIN shape |-> Size(AtLeastOne(SubSeq(shape, 1, d - 1)))]

(* NdIter: an odometer whose offset is kept up to date by adding strides.     *)
Turn(shape, strides, it) ==
    LET turning == {d \in DOMAIN shape : it.idx[d] + 1 < shape[d]}
        axis == IF turning = {} THEN 0 ELSE Max(turning)
    IN  [idx |-> [d \in DOMAIN shape |->
                    IF d < axis THEN it.idx[d] ELSE IF d = axis THEN it.idx[d] + 1 ELSE 0],
         offset |-> it.offset + Total([d \in DOMAIN shape |->
                    IF d < axis THEN 0
                    ELSE IF d = axis THEN strides[d] ELSE strides[d] * (1 - shape[d])]),
         seen |-> Append(it.seen, it.offset)]

\* The offsets NdIter yields, in its order.
NdIter(shape, strides) ==
    LET it[k \in 0..Size(shape)] ==
            IF k = 0 THEN [idx |-> Zeros(shape), offset |-> 0, seen |-> <<>>]
            ELSE LET before == it[k - 1] IN Turn(shape, strides, before)
    IN  it[Size(shape)].seen

\* The elements of a view in the order of NdIter.
Gathered(a, shape, strides) ==
    LET offsets == NdIter(shape, strides)
    IN  [i \in DOMAIN offsets |-> a.buf[a.offset + offsets[i] + 1]]

Fresh(buf, shape, strides) ==
    [buf |-> buf, shape |-> shape, strides |-> strides, offset |-> 0, fresh |-> TRUE]
View(a, shape, strides, offset) ==
    [buf |-> a.buf, shape |-> shape, strides |-> strides, offset |-> offset, fresh |-> FALSE]

from_buffer(buf, shape, order) ==
    Fresh(buf, shape, IF Size(shape) = 0 THEN Zeros(shape)
                      ELSE IF order = "C" THEN c_strides(shape) ELSE f_strides(shape))
to_contiguous(a) == Fresh(Gathered(a, a.shape, a.strides), a.shape, c_strides(a.shape))
zero_strides(a) == [a EXCEPT !.strides = Zeros(a.shape)]

\* Mutation of is_c_contiguous: the axes of length one are not skipped.
CountsUnitAxes(a) ==
    \/ Size(a.shape) = 0
    \/ \A d \in DOMAIN a.shape : a.strides[d] = Size(SubSeq(a.shape, d + 1, Len(a.shape)))

is_c_contiguous(a) ==
    \/ Size(a.shape) = 0
    \/ \A d \in DOMAIN a.shape :
         a.shape[d] > 1 => a.strides[d] = Size(SubSeq(a.shape, d + 1, Len(a.shape)))
is_f_contiguous(a) ==
    \/ Size(a.shape) = 0
    \/ \A d \in DOMAIN a.shape : a.shape[d] > 1 => a.strides[d] = Size(SubSeq(a.shape, 1, d - 1))

\* Mutation of memory_extent: a negative stride is taken for a positive one.
ExtentForwards(a) ==
    LET reach == [d \in DOMAIN a.shape |-> Abs(a.strides[d]) * Max({a.shape[d] - 1, 0})]
    IN  IF Size(a.shape) = 0 THEN <<>> ELSE <<a.offset, a.offset + Total(reach)>>

\* The first and the last cell of a window; none when it has no elements.
memory_extent(a) ==
    LET reach == [d \in DOMAIN a.shape |-> a.strides[d] * (a.shape[d] - 1)]
    IN  IF Size(a.shape) = 0 THEN <<>>
        ELSE <<a.offset + Total([d \in DOMAIN reach |-> Min({reach[d], 0})]),
               a.offset + Total([d \in DOMAIN reach |-> Max({reach[d], 0})])>>

\* Two windows on one buffer.
may_share_memory(a, b) ==
    LET e == memory_extent(a)
        f == memory_extent(b)
    IN  e # <<>> /\ f # <<>> /\ e[1] <= f[2] /\ f[1] <= e[2]

(* Orders.  A permutation lists the axes from the slowest to the fastest.     *)
Identity(n) == [i \in 1..n |-> i]
Reversal(n) == [i \in 1..n |-> n + 1 - i]
Permuted(s, perm) == [i \in DOMAIN perm |-> s[perm[i]]]
\* The elements of a set of numbers from the smallest to the largest.
Ascending(S) == [k \in 1..Cardinality(S) |-> CHOOSE x \in S : Cardinality({y \in S : y < x}) = k - 1]

\* A stable sort of some axes by the size of their strides, largest first.
SlowestFirst(strides, axes) ==
    LET before(e, d) == \/ Abs(strides[e]) > Abs(strides[d])
                        \/ Abs(strides[e]) = Abs(strides[d]) /\ e < d
    IN  [k \in 1..Cardinality(axes) |->
           CHOOSE d \in axes : Cardinality({e \in axes : before(e, d)}) = k - 1]
AxesByStride(strides) == SlowestFirst(strides, DOMAIN strides)

axis_perm_for_order(a, order) ==
    CASE order = "C" -> Identity(Len(a.shape))
      [] order = "F" -> Reversal(Len(a.shape))
      [] order = "A" -> IF is_f_contiguous(a) /\ ~is_c_contiguous(a)
                        THEN Reversal(Len(a.shape)) ELSE Identity(Len(a.shape))
      [] order = "K" -> AxesByStride(a.strides)

gather_by_perm(a, perm) == Gathered(a, Permuted(a.shape, perm), Permuted(a.strides, perm))

\* The strides of a dense array whose axes go from slow to fast as in perm.
DenseStrides(shape, perm) ==
    LET dense == c_strides(Permuted(shape, perm))
    IN  [d \in DOMAIN shape |-> dense[CHOOSE i \in DOMAIN perm : perm[i] = d]]

relayout_by_perm(a, perm) ==
    Fresh(gather_by_perm(a, perm), a.shape,
          IF Size(a.shape) = 0 THEN Zeros(a.shape) ELSE DenseStrides(a.shape, perm))

to_contiguous_order(a, order) == relayout_by_perm(a, axis_perm_for_order(a, order))
ravel_order(a, order) ==
    Fresh(gather_by_perm(a, axis_perm_for_order(a, order)), <<Size(a.shape)>>,
          IF Size(a.shape) = 0 THEN <<0>> ELSE <<1>>)

(* Reshape.                                                                   *)
\* Mutation of Mergeable: the axes of a group are taken to be contiguous.
AlwaysMergeable(dims, strd, first, last, order) == TRUE

\* The old axes first..last can be walked with one stride, in this order.
Mergeable(dims, strd, first, last, order) ==
    \A k \in first..last - 1 :
        IF order = "F" THEN strd[k + 1] = dims[k] * strd[k]
        ELSE strd[k] = dims[k + 1] * strd[k + 1]

\* The strides of the new axes when `upto` cuts both shapes into groups: the first i
\* old axes have as many elements as the first upto[i] new ones.
Restrided(dims, strd, new, order, upto) ==
    LET cuts == DOMAIN upto \ {0}
        prev(i) == Max({c \in DOMAIN upto : c < i})
        done == upto[Max(DOMAIN upto)]
        stride(n) ==
            LET i == CHOOSE c \in cuts : n \in upto[prev(c)] + 1..upto[c]
            IN  IF order = "F"
                THEN strd[prev(i) + 1] * Size(SubSeq(new, upto[prev(i)] + 1, n - 1))
                ELSE strd[i] * Size(SubSeq(new, n + 1, upto[i]))
        last == IF done = 0 THEN 1
                ELSE stride(done) * (IF order = "F" THEN new[done] ELSE 1)
    IN  IF \E i \in cuts : ~Mergeable(dims, strd, prev(i) + 1, i, order) THEN Raised
        ELSE [n \in DOMAIN new |-> IF n <= done THEN stride(n) ELSE last]

\* Strides that show the cells of a non-empty array under another shape, or
\* Raised when there are none: the axes are cut into the shortest groups of the
\* old and of the new shape with as many elements.
attempt_nocopy_reshape(shape, strides, new, order) ==
    LET long == Ascending({d \in DOMAIN shape : shape[d] # 1})
        dims == Permuted(shape, long)
        met(i) == {j \in 0..Len(new) : Size(SubSeq(new, 1, j)) = Size(SubSeq(dims, 1, i))}
        cuts == {i \in 1..Len(dims) : met(i) # {}}
    IN  Restrided(dims, Permuted(strides, long), new, order,
                  [i \in {0} \cup cuts |-> IF i = 0 THEN 0 ELSE Min(met(i))])

\* Mutation of ReshapeAs: the cells are copied whenever the array is strided.
ReshapeCopying(a, new, order) ==
    IF Size(new) # Size(a.shape) THEN Raised
    ELSE IF new = a.shape THEN View(a, new, a.strides, a.offset)
    ELSE IF order = "C" /\ is_c_contiguous(a) THEN View(a, new, c_strides(new), a.offset)
    ELSE IF order = "F" /\ is_f_contiguous(a) THEN View(a, new, f_strides(new), a.offset)
    ELSE Fresh(to_contiguous_order(a, order).buf, new,
               IF order = "F" THEN f_strides(new) ELSE c_strides(new))

\* reshape_impl for "C" and the same for "F".
ReshapeAs(a, new, order) ==
    IF Size(new) # Size(a.shape) THEN Raised
    ELSE IF new = a.shape THEN View(a, new, a.strides, a.offset)
    ELSE IF order = "C" /\ is_c_contiguous(a) THEN View(a, new, c_strides(new), a.offset)
    ELSE IF order = "F" /\ is_f_contiguous(a) THEN View(a, new, f_strides(new), a.offset)
    ELSE LET strides == attempt_nocopy_reshape(a.shape, a.strides, new, order)
         IN  IF strides # Raised THEN View(a, new, strides, a.offset)
             ELSE Fresh(to_contiguous_order(a, order).buf, new,
                        IF order = "F" THEN f_strides(new) ELSE c_strides(new))

reshape(a, new, order) ==
    IF order \notin {"C", "F", "A"} THEN Raised
    ELSE ReshapeAs(a, new, IF order # "A" THEN order
                           ELSE IF is_f_contiguous(a) /\ ~is_c_contiguous(a) THEN "F" ELSE "C")
=============================================================================
