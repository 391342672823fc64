-------------------------------- MODULE Searches -------------------------------
(***************************************************************************)
(* The sessions of NdArrays with sorts, searches, set operations and           *)
(* differences as well.  Their operand is the array with its powers of two      *)
(* replaced by the elements that a key gives them, so that there are equal ones, *)
(* NaNs and zeros of either sign among them.                                   *)
(***************************************************************************)
EXTENDS NdArrays, SetOps

CONSTANT Exhausted   \* the lengths of vectors that are sorted with all keys

(* Operands.                                                                  *)
Key(s) == [x \in ToSet(Powers(0, Len(s))) |-> s[CHOOSE i \in DOMAIN s : x = 2^(i - 1)]]
Keyed(a, key) == [a EXCEPT !.buf = [c \in DOMAIN @ |-> key[@[c]]]]
Elements(kind) ==
    CASE kind = "int" -> {<<0, 0>>, <<1, 0>>, <<2, 0>>}
      [] kind = "float" -> {<<0, 0>>, <<0, 1>>, <<1, 0>>, <<NaN, 1>>}
      [] kind = "complex" -> {<<0, 2>>, <<1, 1>>, <<0, NaN>>, <<NaN, 1>>}
\* Eight elements of each kind.
Mixed(kind) ==
    CASE kind = "int" -> <<<<2, 0>>, <<0, 0>>, <<1, 0>>, <<0, 0>>, <<2, 0>>, <<1, 0>>, <<0, 0>>, <<3, 0>>>>
      [] kind = "float" -> <<<<NaN, 1>>, <<1, 0>>, <<0, 1>>, <<NaN, 0>>, <<0, 0>>, <<2, 0>>, <<0, 1>>, <<1, 0>>>>
      [] kind = "complex" -> <<<<1, NaN>>, <<NaN, 1>>, <<0, 2>>, <<0, 1>>, <<NaN, 0>>, <<0, 2>>, <<1, 0>>, <<2, NaN>>>>
Zeros8 == <<<<0, 0>>, <<0, 1>>, <<0, 0>>, <<1, 0>>, <<NaN, 0>>, <<0, 0>>, <<0, 1>>, <<0, 0>>>>
NaNs8 == <<<<NaN, 0>>, <<NaN, 1>>, <<NaN, 0>>, <<1, 0>>, <<NaN, 0>>, <<2, 0>>, <<2, 0>>, <<1, 0>>>>
Kinds == {"int", "float", "complex"}
Given(kind, s, every) == [kind |-> kind, key |-> Key(s), every |-> every]
MixedKeys == {Given(kind, Mixed(kind), FALSE) : kind \in Kinds}
SparseKeys == {Given("float", Zeros8, FALSE), Given("complex", Mixed("complex"), FALSE)}
NaNKeys == {g \in MixedKeys : g.kind # "int"} \cup {Given("float", NaNs8, FALSE)}
\* Every key for vectors of a length.
EveryKey ==
    [n \in Exhausted |-> UNION {{Given(kind, s, TRUE) : s \in [1..n -> Elements(kind)]} : kind \in Kinds}]
AllKeys ==
    IF arr.offset # 0 \/ arr.strides # <<1>> \/ Len(arr.buf) \notin Exhausted THEN MixedKeys
    ELSE MixedKeys \cup EveryKey[Len(arr.buf)]
\* A second operand with elements of a kind.
Another(kind, shape) ==
    LET s == Reverse(Mixed(kind)) IN from_buffer([i \in 1..Size(shape) |-> s[(i % 8) + 1]], shape, "F")

\* The call, with what its operand is, and its result; no call on numbers follows.
DoKeyed(g, c, r) == Do([kind |-> g.kind, key |-> g.key] @@ c, r)
Ax == {None, 0, -1, 3}

Sort == \E g \in AllKeys, axis \in Ax, stable, desc \in BOOLEAN :
    /\ g.every => axis = None
    /\ axis = 3 => stable /\ desc
    /\ DoKeyed(g, [op |-> "sort", axis |-> axis, stable |-> stable, desc |-> desc],
               sort(Keyed(arr, g.key), axis, g.kind, stable, desc))
\* Integers that do not start at the first cell of their buffer are not sorted down in
\* place here.
SortInPlace == \E g \in MixedKeys, axis \in Ax \ {None}, stable, desc \in BOOLEAN :
    /\ Writable(arr)
    /\ g.kind = "int" /\ desc => arr.offset = 0
    /\ DoKeyed(g, [op |-> "ndarray.sort", axis |-> axis, stable |-> stable, desc |-> desc],
               ndarray_sort(Keyed(arr, g.key), axis, g.kind, stable, desc))
ArgSort == \E g \in AllKeys, axis \in Ax, stable, desc \in BOOLEAN :
    /\ g.every => axis = None
    /\ axis = 3 => stable /\ desc
    /\ DoKeyed(g, [op |-> "argsort", axis |-> axis, stable |-> stable, desc |-> desc],
               argsort(Keyed(arr, g.key), axis, g.kind, stable, desc))
SortComplex == \E g \in MixedKeys :
    DoKeyed(g, [op |-> "sort_complex"], sort_complex(Keyed(arr, g.key), g.kind))
LexSort == \E g \in MixedKeys, axis \in {0, -1, 3} :
    \/ DoKeyed(g, [op |-> "lexsort", axis |-> axis, kinds |-> <<g.kind>>, keys |-> <<Val(arr)>>],
               lexsort(<<Keyed(arr, g.key)>>, <<g.kind>>, axis))
    \/ \E kind \in {"int", "float"}, shape \in {arr.shape, Reverse(arr.shape)} :
        LET b == Another(kind, shape)
        IN  (kind = "float" \/ shape = arr.shape) /\
            DoKeyed(g, [op |-> "lexsort", axis |-> axis, kinds |-> <<g.kind, kind>>, keys |-> <<Val(arr), Val(b)>>],
                   lexsort(<<Keyed(arr, g.key), b>>, <<g.kind, kind>>, axis))

NonZero == \E g \in SparseKeys, part \in 1..Max({1, Rank}) :
    LET r == nonzero(Keyed(arr, g.key), g.kind)
    IN  DoKeyed(g, [op |-> "nonzero", part |-> part], IF r = Raised THEN Raised ELSE r[part])
FlatNonZero == \E g \in SparseKeys : DoKeyed(g, [op |-> "flatnonzero"], flatnonzero(Keyed(arr, g.key), g.kind))
ArgWhere == \E g \in SparseKeys : DoKeyed(g, [op |-> "argwhere"], argwhere(Keyed(arr, g.key), g.kind))
Extract == \E shape \in {arr.shape, Reverse(arr.shape), Row(arr.shape), <<2>> \o arr.shape}, kind \in Kinds :
    LET b == Another(kind, shape)
    IN  Do([op |-> "extract", kind |-> kind, condition |-> Val(b)], extract(b, kind, arr))
Where == \E g \in SparseKeys, shape \in {arr.shape, Row(arr.shape), <<2, 1>>}, turned \in BOOLEAN :
    LET x == Other(shape, "F")
        y == Other(IF turned THEN Reverse(shape) ELSE <<>>, "C")
    IN  DoKeyed(g, [op |-> "where", x |-> Val(x), y |-> Val(y)], where_select(Keyed(arr, g.key), g.kind, x, y))
Sorters == {None, <<>>, <<0>>, <<1, 2, 0>>, <<2, 0, 3>>, <<1, 0, -1>>, <<1, 3, 2, 5, 0, 4>>}
SearchSorted == \E g \in AllKeys, right \in BOOLEAN, sorter \in Sorters, shape \in {<<3, 2>>, <<>>} :
    LET b == Another(g.kind, shape)
    IN  /\ Rank # 1 => shape = <<>> /\ sorter = None
        /\ g.every => shape # <<>> /\ IF sorter = None THEN TRUE ELSE Len(sorter) = Size(arr.shape)
        /\ DoKeyed(g, [op |-> "searchsorted", right |-> right, sorter |-> sorter, values |-> Val(b)],
                   searchsorted(Keyed(arr, g.key), b, g.kind, right, sorter))
NanArg == \E g \in NaNKeys, axis \in Ax, keepdims, max \in BOOLEAN :
    /\ keepdims => max
    /\ DoKeyed(g, [op |-> "nanarg", axis |-> axis, keepdims |-> keepdims, max |-> max],
               nanargext(Keyed(arr, g.key), axis, keepdims, g.kind, max))

(* Sets.                                                                      *)
\* unique and the functions that are unique with some of its results.
Unique == \E g \in AllKeys, axis \in Ax, equal_nan \in BOOLEAN, part \in {"values", "index", "inverse", "counts"} :
    LET a == Keyed(arr, g.key)
        flatly == axis = None /\ ~g.every
        c == [op |-> "unique", axis |-> axis, equal_nan |-> equal_nan, part |-> part]
        result(r) == IF r = Raised THEN Raised ELSE r[part]
    IN  /\ g.every => axis = None
        /\ \/ DoKeyed(g, c, result(unique(a, g.kind, part \in {"index", "inverse"}, axis, equal_nan)))
           \/ flatly /\ equal_nan /\ part = "values" /\ DoKeyed(g, c, unique_values(a, g.kind))
           \/ flatly /\ ~equal_nan /\ part = "counts" /\ DoKeyed(g, c, result(unique_counts(a, g.kind)))
           \/ flatly /\ ~equal_nan /\ part = "inverse" /\ DoKeyed(g, c, result(unique_inverse(a, g.kind)))
           \/ flatly /\ ~equal_nan /\ DoKeyed(g, c, result(unique_all(a, g.kind)))
\* Elements that are said to be distinct are.  The operands are flattened first: here
\* they are vectors.
AreDistinct(a, kind) == \A i, j \in 1..Size(a.shape) : i # j => ~Equal(kind, Elems(a)[i], Elems(a)[j])
SetOperation == \E g \in AllKeys, assume_unique \in BOOLEAN, shape \in {<<4>>, <<2, 3>>, <<0>>} :
    LET a == Keyed(arr, g.key)
        b == Another(g.kind, shape)
        c == [assume_unique |-> assume_unique, other |-> Val(b)]
    IN  /\ Rank = 1
        /\ assume_unique => AreDistinct(a, g.kind) /\ AreDistinct(b, g.kind)
        /\ g.every => shape = <<4>> /\ ~assume_unique
        /\ \/ DoKeyed(g, [op |-> "intersect1d"] @@ c, intersect1d(a, b, g.kind, assume_unique))
           \/ DoKeyed(g, [op |-> "setxor1d"] @@ c, setxor1d(a, b, g.kind, assume_unique))
           \/ DoKeyed(g, [op |-> "setdiff1d"] @@ c, setdiff1d(a, b, g.kind, assume_unique))
           \/ ~assume_unique /\ DoKeyed(g, [op |-> "union1d"] @@ c, union1d(a, b, g.kind))
           \/ \E part \in {"values", "index1", "index2"} :
                 DoKeyed(g, [op |-> "intersect1d_indices", part |-> part] @@ c,
                         intersect1d_return_indices(a, b, g.kind, assume_unique)[part])
IsIn == \E g \in MixedKeys, invert \in BOOLEAN, shape \in {<<4>>, <<0>>} :
    LET b == Another(g.kind, shape)
    IN  DoKeyed(g, [op |-> "isin", invert |-> invert, other |-> Val(b)], isin(Keyed(arr, g.key), b, g.kind, invert))

(* Differences and zeros.                                                     *)
Diff == \E n \in -1..3, axis \in {0, -1, 3}, ends \in {Omitted, None, <<>>, arr.shape, Column(arr.shape)} \X {Omitted, <<>>, arr.shape} :
    LET end(s) == IF s \in {Omitted, None} THEN s ELSE Other(s, "F")
        shown(s) == IF s \in {Omitted, None} THEN s ELSE Val(Other(s, "F"))
    IN  /\ n \in {1, 2} \/ ends = <<Omitted, Omitted>>
        /\ (n = 1 /\ axis # 3) \/ ends[2] = Omitted
        /\ Do([op |-> "diff", n |-> n, axis |-> axis, prepend |-> shown(ends[1]), append |-> shown(ends[2])],
              diff(arr, n, axis, end(ends[1]), end(ends[2])))
EDiff1D == \E to_end, to_begin \in {None, <<>>, <<2, 1>>} :
    LET end(s) == IF s = None THEN None ELSE Other(s, "C")
        shown(s) == IF s = None THEN None ELSE Val(Other(s, "C"))
    IN  Do([op |-> "ediff1d", to_end |-> shown(to_end), to_begin |-> shown(to_begin)],
           ediff1d(arr, end(to_end), end(to_begin)))
TrimZeros == \E g \in {Given("float", Zeros8, FALSE), Given("int", [i \in 1..8 |-> <<0, 0>>], FALSE)},
                axes \in {None, <<>>, <<0>>, <<-1>>, <<0, 1>>, <<0, 0>>, <<3>>}, trim \in {"f", "b", "fb", "x"} :
    /\ trim = "x" => axes = None
    /\ DoKeyed(g, [op |-> "trim_zeros", axes |-> axes, trim |-> trim], trim_zeros(Keyed(arr, g.key), g.kind, trim, axes))

\* The sessions of both modules; a call on keyed elements ends its session.
SearchNext ==
    \/ Next
    \/ /\ calls < MaxCalls
       /\ calls' = MaxCalls
       /\ \/ Sort \/ SortInPlace \/ ArgSort \/ SortComplex \/ LexSort \/ NonZero \/ FlatNonZero
          \/ ArgWhere \/ Extract \/ Where \/ SearchSorted \/ NanArg \/ Unique \/ SetOperation
          \/ IsIn \/ Diff \/ EDiff1D \/ TrimZeros

SearchSpec == Init /\ [][SearchNext]_vars

(* Properties.                                                                *)
\* A write into the array, through a key, indices or a sort in place, leaves its window
\* where it is and every cell of the buffer that is not in the window as it was: what
\* another view of the buffer shows there does not change.  put_along_axis without an
\* axis is not such a write: it leaves the array with a copy.
WritesInPlace(c) ==
    \/ c.op \in {"setitem", "put", "fill_diagonal", "at", "ndarray.sort"}
    \/ c.op = "put_along_axis" /\ c.axis # None
WindowOf(a) == [shape |-> a.shape, strides |-> a.strides, offset |-> a.offset]
WritesStayInside ==
    [][WritesInPlace(call')
       => /\ WindowOf(arr') = WindowOf(arr)
          /\ \A c \in DOMAIN arr.buf \ {cell + 1 : cell \in Cells(arr)} :
                arr'.buf[c] = IF call'.op = "ndarray.sort" /\ ~raised' THEN call'.key[arr.buf[c]]
                              ELSE arr.buf[c]]_vars

\* Sorts, searches and set operations return what the order of the elements alone
\* says they should, whatever the layout, the algorithm that orders them (stable,
\* insertion, heap or partition) and the NaNs among them.
Ordered == INSTANCE SetValues WITH val <- Val(arr)
ImplementsSetValues == Ordered!SetSpec
=============================================================================
