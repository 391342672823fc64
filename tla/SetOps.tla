--------------------------------- MODULE SetOps --------------------------------
(***************************************************************************)
(* setops.rs: distinct elements and rows, set operations on two arrays,       *)
(* differences and the trimming of zeros.  Elements are the pairs of Sorting; *)
(* `diff` and `ediff1d` are about integers.                                   *)
(***************************************************************************)
EXTENDS Sorting

CONSTANT Omitted   \* an argument that is not there, when None may be

Vector(s) == from_buffer(s, <<Len(s)>>, "C")
Flattened(a) == ravel_order(a, "C").buf
same(kind, x, y, equal_nan) ==
    Equal(kind, x, y) \/ (equal_nan /\ IsNaN(kind, x) /\ IsNaN(kind, y))

(* Groups.                                                                    *)
\* The groups that `group` puts the positions in, each with its place named in `at`.
Grouped(order, at, group) ==
    [first |-> Permuted(order, Ascending(at)),
     inverse |-> [i \in DOMAIN order |-> group[CHOOSE k \in DOMAIN order : order[k] = i] - 1],
     counts |-> [g \in 1..Cardinality(at) |-> Cardinality({k \in DOMAIN order : group[k] = g})]]

\* Mutation of stable_group_by: the last element of a group stands for it.
LastStandsFor(order, eq) ==
    LET tails == {k \in DOMAIN order : k = Len(order) \/ ~eq[order[k], order[k + 1]]}
    IN  Grouped(order, tails, [k \in DOMAIN order |-> Cardinality({h \in tails : h < k}) + 1])

\* The positions in order, cut into groups wherever two neighbours differ: the first
\* position of each group, the group of each position and the sizes.
stable_group_by(order, eq) ==
    LET heads == {k \in DOMAIN order : k = 1 \/ ~eq[order[k - 1], order[k]]}
    IN  Grouped(order, heads, [k \in DOMAIN order |-> Cardinality({h \in heads : h <= k})])

\* A group of complex NaNs is stood for by its first element in the array.
fixup_complex_nan_group_representative(s, g) ==
    [g EXCEPT !.first = [i \in DOMAIN @ |->
        IF IsNaN("complex", s[@[i]]) THEN Min({j \in DOMAIN s : g.inverse[j] = i - 1}) ELSE @[i]]]

\* The distinct elements of a sequence; without indices to them the NaNs become one
\* NaN and the sign of zeros counts, unless there is no more than one element.
Sames(s, kind, equal_nan) == [i \in DOMAIN s, j \in DOMAIN s |-> same(kind, s[i], s[j], equal_nan)]
Represented(s, kind, cn, g) ==
    [values |-> [i \in DOMAIN g.first |-> IF cn THEN canonicalize(kind, s[g.first[i]]) ELSE s[g.first[i]]],
     first |-> g.first, inverse |-> g.inverse, counts |-> g.counts]
FixedUp(s, g, fixes) == IF fixes THEN fixup_complex_nan_group_representative(s, g) ELSE g
unique_raw(s, kind, canon, equal_nan) ==
    LET cn == canon /\ Len(s) > 1
    IN  Represented(s, kind, cn,
            FixedUp(s, stable_group_by(stable_order(Len(s), Less(s, kind, cn, FALSE)), Sames(s, kind, equal_nan)),
                    kind = "complex" /\ equal_nan /\ cn))

\* `indices` says that the indices or the inverse are asked for as well.
Unpacked(u, shape) ==
    [values |-> Vector(u.values), index |-> Vector(FromZero(u.first)),
     inverse |-> from_buffer(u.inverse, shape, "C"), counts |-> Vector(u.counts)]
unique_general(a, kind, indices, equal_nan) ==
    Unpacked(unique_raw(Flattened(a), kind, ~indices, equal_nan), a.shape)
unique_values(a, kind) == unique_general(a, kind, FALSE, TRUE).values
unique_counts(a, kind) == unique_general(a, kind, FALSE, FALSE)
unique_inverse(a, kind) == unique_general(a, kind, TRUE, FALSE)
unique_all(a, kind) == unique_general(a, kind, TRUE, FALSE)

row_lt(kind, x, y) ==
    \E k \in DOMAIN x :
        /\ element_lt(kind, x[k], y[k], FALSE, FALSE)
        /\ \A j \in 1..k - 1 : ~element_lt(kind, y[j], x[j], FALSE, FALSE)
                               /\ ~element_lt(kind, x[j], y[j], FALSE, FALSE)
row_eq(kind, x, y) == \A k \in DOMAIN x : Equal(kind, x[k], y[k])

\* The distinct sub-arrays along an axis, which is moved to the front and back.
AxisInFront(a, d) ==
    to_contiguous(transpose_axes(a, <<d>> \o Ascending(DOMAIN a.shape \ {d})))
FrontAxisAt(a, d) ==
    to_contiguous(transpose_axes(a, [k \in DOMAIN a.shape |-> IF k < d THEN k + 1 ELSE IF k = d THEN 1 ELSE k]))
Rows(a) ==
    LET len == Size(Tail(a.shape)) IN [i \in 1..a.shape[1] |-> SubSeq(a.buf, (i - 1) * len + 1, i * len)]
RowsLess(rows, kind) == [i \in DOMAIN rows, j \in DOMAIN rows |-> row_lt(kind, rows[i], rows[j])]
RowsSame(rows, kind) == [i \in DOMAIN rows, j \in DOMAIN rows |-> row_eq(kind, rows[i], rows[j])]
unique_axis_raw(rows, kind) ==
    stable_group_by(stable_order(Len(rows), RowsLess(rows, kind)), RowsSame(rows, kind))
UnpackedAxis(g, moved, d) ==
    [values |-> FrontAxisAt(AlongAxis(moved, 1, FromZero(g.first)), d),
     index |-> Vector(FromZero(g.first)), inverse |-> Vector(g.inverse), counts |-> Vector(g.counts)]
UniqueRows(moved, d, kind) == UnpackedAxis(unique_axis_raw(Rows(moved), kind), moved, d)
unique_axis(a, d, kind) == UniqueRows(AxisInFront(a, d), d, kind)

unique(a, kind, indices, axis, equal_nan) ==
    LET d == IF axis = None THEN 1 ELSE normalize_axis(axis, Len(a.shape))
    IN  IF d = Raised THEN Raised
        ELSE IF axis = None \/ Len(a.shape) = 1 THEN unique_general(a, kind, indices, equal_nan)
        ELSE unique_axis(a, d, kind)

(* Two arrays.                                                                *)
maybe_unique(a, kind, assume_unique) ==
    IF assume_unique THEN ravel_order(a, "C") ELSE unique_values(a, kind)
sort_canon_buffer(s, kind) ==
    LET sorted == Permuted(s, stable_order(Len(s), Less(s, kind, TRUE, FALSE)))
    IN  [i \in DOMAIN sorted |-> canonicalize(kind, sorted[i])]

\* In order: the elements equal to the next one, and those equal to no neighbour.
adjacent_eq(s, kind) == Ascending({i \in 1..Len(s) - 1 : Equal(kind, s[i], s[i + 1])})
intersect_body(s, kind) == Permuted(s, adjacent_eq(s, kind))
setxor_body(s, kind) ==
    Permuted(s, Ascending({i \in DOMAIN s :
        \A j \in {i - 1, i + 1} \cap DOMAIN s : ~Equal(kind, s[i], s[j])}))

Combined(a, b, kind, assume_unique) ==
    sort_canon_buffer(Joined(<<maybe_unique(a, kind, assume_unique), maybe_unique(b, kind, assume_unique)>>, 1).buf, kind)
intersect1d(a, b, kind, assume_unique) == Vector(intersect_body(Combined(a, b, kind, assume_unique), kind))
setxor1d(a, b, kind, assume_unique) == Vector(setxor_body(Combined(a, b, kind, assume_unique), kind))
union1d(a, b, kind) == unique_values(Joined(<<ravel_order(a, "C"), ravel_order(b, "C")>>, 1), kind)

\* The common elements and where they are first in each operand.
WithIndices(x, kind, assume_unique) ==
    IF assume_unique THEN [values |-> ravel_order(x, "C"), index |-> Vector([i \in 1..Size(x.shape) |-> i - 1])]
    ELSE unique_general(x, kind, TRUE, TRUE)
Matches(one, two, order, hits, sorted) ==
    [values |-> Vector(Permuted(sorted, hits)),
     index1 |-> Vector([i \in DOMAIN hits |-> one.index.buf[order[hits[i]]]]),
     index2 |-> Vector([i \in DOMAIN hits |-> two.index.buf[order[hits[i] + 1] - Len(one.index.buf)]])]
Matched(one, two, order, sorted, kind) == Matches(one, two, order, adjacent_eq(sorted, kind), sorted)
SortedMatches(one, two, both, order, kind) == Matched(one, two, order, Permuted(both, order), kind)
Merged(one, two, both, kind) ==
    SortedMatches(one, two, both, stable_order(Len(both), Less(both, kind, FALSE, FALSE)), kind)
MergedValues(one, two, kind) == Merged(one, two, one.values.buf \o two.values.buf, kind)
intersect1d_return_indices(a, b, kind, assume_unique) ==
    MergedValues(WithIndices(a, kind, assume_unique), WithIndices(b, kind, assume_unique), kind)

isin_mask(s, t, kind) == [i \in DOMAIN s |-> \E j \in DOMAIN t : Equal(kind, s[i], t[j])]
setdiff1d(a, b, kind, assume_unique) ==
    LET s == maybe_unique(a, kind, assume_unique).buf
        present == isin_mask(s, maybe_unique(b, kind, assume_unique).buf, kind)
    IN  Vector(Permuted(s, Hits([i \in DOMAIN s |-> ~present[i]])))
isin(a, b, kind, invert) ==
    LET mask == isin_mask(Elems(a), Flattened(b), kind)
    IN  from_buffer([i \in DOMAIN mask |-> mask[i] # invert], a.shape, "C")

(* Differences.                                                               *)
\* A value without axes is stretched to one place along the axis.
diff_broadcast_operand(x, a, d) ==
    IF x.shape = <<>> THEN broadcast_to(x, Put1(a.shape, d, 1)) ELSE x
Differences(a, d) ==
    LET c == to_contiguous(a)
        n == a.shape[d]
    IN  IF n = 0 THEN c
        ELSE LET shape == Put1(a.shape, d, n - 1)
                 at(p, i) == c.buf[Number(a.shape, Put1(p, d, p[d] + i)) + 1]
             IN  from_buffer([k \in 1..Size(shape) |->
                     LET p == Position(shape, k - 1) IN at(p, 1) - at(p, 0)], shape, "C")
\* prepend and append are arrays, None, which cannot be subtracted, or Omitted.
diff(a, n, axis, prepend, append) ==
    LET d == normalize_axis(axis, Len(a.shape))
        ends == <<prepend, append>>
        part(i) == IF ends[i] = Omitted THEN <<>> ELSE <<diff_broadcast_operand(ends[i], a, d)>>
        parts == part(1) \o <<a>> \o part(2)
        start == IF Len(parts) = 1 THEN to_contiguous(a) ELSE Joined(parts, d)
        after[k \in 0..n] == IF k = 0 THEN start ELSE LET before == after[k - 1] IN Differences(before, d)
    IN  IF n < 0 THEN Raised
        ELSE IF n = 0 THEN a
        ELSE IF a.shape = <<>> \/ d = Raised \/ None \in ToSet(ends) THEN Raised
        ELSE IF Raised \in ToSet(parts) \/ start = Raised THEN Raised ELSE after[n]

ediff1d(a, to_end, to_begin) ==
    LET s == Flattened(a)
        end(x) == IF x = None THEN <<>> ELSE Flattened(x)
    IN  Vector(end(to_begin) \o [i \in 1..Max({0, Len(s) - 1}) |-> s[i + 1] - s[i]] \o end(to_end))

(* Zeros at the ends.                                                         *)
\* The bounds that are left of each axis: those of the elements that are not zero.
trim_zeros_bounds(shape, hits, front, back, axes) ==
    LET coords == [d \in DOMAIN shape |-> {Position(shape, hits[i] - 1)[d] : i \in DOMAIN hits}]
    IN  [d \in DOMAIN shape |->
            IF d \notin axes THEN <<0, shape[d]>>
            ELSE IF hits = <<>> THEN <<0, 0>>
            ELSE <<IF front THEN Min(coords[d]) ELSE 0, IF back THEN Max(coords[d]) + 1 ELSE shape[d]>>]
Cut(a, bounds) ==
    LET view == get_view(a, [d \in DOMAIN bounds |->
                    [kind |-> "slice", start |-> bounds[d][1], stop |-> bounds[d][2], step |-> 1]])
    IN  IF view = Raised THEN Raised ELSE to_contiguous(view)
\* An array, or all of it when no axis is named; axes are a sequence or None.
trim_zeros(a, kind, trim, axes) ==
    LET n == Len(a.shape)
        named == IF axes = None THEN Identity(n) ELSE [i \in DOMAIN axes |-> normalize_axis(axes[i], n)]
    IN  IF trim \notin {"f", "b", "fb", "bf"} \/ Raised \in ToSet(named) \/ ~IsInjective(named) THEN Raised
        ELSE IF named = <<>> THEN a
        ELSE Cut(to_contiguous(a),
                     trim_zeros_bounds(a.shape, Hits(is_truthy_mask(a, kind)), trim \in {"f", "fb", "bf"},
                                       trim \in {"b", "fb", "bf"}, ToSet(named)))
=============================================================================
