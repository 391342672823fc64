-------------------------------- MODULE Sorting --------------------------------
(***************************************************************************)
(* sort.rs: the orders of the element kinds, sorts and argsorts along an axis *)
(* of an array of any layout, and the searches.  An element is a pair: an      *)
(* "int" <<x, 0>>; a "float" <<x, bit>>, where the bit is the sign of a zero   *)
(* or the payload of a NaN; a "complex" <<re, im>>.  `desc` says that the      *)
(* order is descending, `tie` that the sign of zeros counts.  Rust's own       *)
(* stable sort is external: it needs a total preorder.                        *)
(***************************************************************************)
EXTENDS Reduction

CONSTANTS NaN,
          Cutoff,   \* ranges of at most Cutoff + 1 are sorted by insertion
          Depth     \* partitions, times log2 of the length, before a heap sort

ASSUME SortingAssumption == Cutoff \in Nat \ {0} /\ Depth \in Nat

Inf == 9

(* Orders.                                                                    *)
Below(x, y, desc) == x # NaN /\ y # NaN /\ IF desc THEN x > y ELSE x < y
Behind(x, y, desc) == Below(x, y, desc) \/ (y = NaN /\ x # NaN)

complex_lt(a, b, desc) ==
    IF Below(a[1], b[1], desc) THEN a[2] # NaN \/ b[2] = NaN
    ELSE IF Below(b[1], a[1], desc) THEN b[2] = NaN /\ a[2] # NaN
    ELSE IF a[1] = b[1] THEN Behind(a[2], b[2], desc)
    ELSE b[1] = NaN

total_lt(a, b, tie, desc) ==
    \/ Behind(a[1], b[1], desc)
    \/ tie /\ a[1] = b[1] /\ a[1] # NaN /\ IF desc THEN a[2] < b[2] ELSE a[2] > b[2]

element_lt(kind, a, b, tie, desc) ==
    CASE kind = "int" -> Below(a[1], b[1], desc)
      [] kind = "float" -> total_lt(a, b, tie, desc)
      [] kind = "complex" -> complex_lt(a, b, desc)

IsNaN(kind, a) == a[1] = NaN \/ (kind = "complex" /\ a[2] = NaN)
Equal(kind, a, b) ==
    ~IsNaN(kind, a) /\ a[1] = b[1] /\ (kind = "complex" => a[2] = b[2])
canonicalize(kind, a) == IF kind = "float" /\ a[1] = NaN THEN <<NaN, 0>> ELSE a

(* Orders of the positions of a sequence, by a relation lt on them.           *)
Less(s, kind, tie, desc) == [i \in DOMAIN s, j \in DOMAIN s |-> element_lt(kind, s[i], s[j], tie, desc)]

\* sort_by: positions that neither precedes the other stay as they are.
Ranks(n, lt) == [i \in 1..n |-> Cardinality({j \in 1..n : lt[j, i] \/ (j <= i /\ ~lt[i, j])})]
ByRank(rank) == [r \in DOMAIN rank |-> CHOOSE i \in DOMAIN rank : rank[i] = r]
stable_order(n, lt) == ByRank(Ranks(n, lt))

Swap(s, i, j) == [k \in DOMAIN s |-> IF k = i THEN s[j] ELSE IF k = j THEN s[i] ELSE s[k]]

\* x after the elements it is not below.
InsertedIn(before, x, lt) ==
    InsertAt(before, Max({k \in DOMAIN before : ~lt[x, before[k]]} \cup {0}) + 1, x)
insertion_sort(s, lt) == FoldLeft(LAMBDA before, x : InsertedIn(before, x, lt), <<>>, s)

aheapsort(s, lt) ==
    LET n == Len(s)
        sift[u \in Seq(Nat), i \in Nat, x \in Nat, m \in Nat] ==
            LET child == IF 2 * i < m /\ lt[u[2 * i], u[2 * i + 1]] THEN 2 * i + 1 ELSE 2 * i
            IN  IF 2 * i <= m /\ lt[x, u[child]] THEN sift[Put1(u, i, u[child]), child, x, m]
                ELSE Put1(u, i, x)
        heap[l \in 1..n + 1] ==
            IF l > n \div 2 THEN s ELSE LET u == heap[l + 1] IN sift[u, l, u[l], n]
        drained[m \in 1..n] ==
            IF m = n THEN heap[1]
            ELSE LET u == drained[m + 1] IN sift[Put1(u, m + 1, u[1]), 1, u[m + 1], m]
    IN  IF n < 2 THEN s ELSE drained[1]

\* The range parted at the median of its first, middle and last elements, and where
\* that one stands.
Ordered2(u, i, j, lt) == IF lt[u[j], u[i]] THEN Swap(u, i, j) ELSE u
MedianOf3(s, m, n, lt) == Ordered2(Ordered2(Ordered2(s, 1, m, lt), m, n, lt), 1, m, lt)
Crossed(start, pivot, lt) ==
    LET n == Len(start)
        crossing[u \in Seq(Nat), i \in Nat, j \in Nat] ==
            LET up == Min({k \in i + 1..n : ~lt[u[k], pivot]})
                down == Max({k \in 1..j - 1 : ~lt[pivot, u[k]]})
            IN  IF up >= down THEN <<Swap(u, up, n - 1), up>>
                ELSE crossing[Swap(u, up, down), up, down]
    IN  crossing[start, 1, n - 1]
PartedAt(median, m, lt) == Crossed(Swap(median, m, Len(median) - 1), median[m], lt)
partition(s, m, lt) == PartedAt(MedianOf3(s, m, Len(s), lt), m, lt)

\* intro_argsort: of the two sides of a partition the larger waits on a stack and is
\* sorted by a heap when its turn comes and the depth is used up.
intro_order(n, lt) ==
    LET log == Max({k \in 0..n : 2^k <= n} \cup {0})
        sorted[s \in Seq(Nat), depth \in Int, waited \in BOOLEAN] ==
            IF waited /\ depth < 0 THEN aheapsort(s, lt)
            ELSE IF Len(s) - 1 <= Cutoff THEN insertion_sort(s, lt)
            ELSE LET cut == partition(s, (Len(s) + 1) \div 2, lt)
                     left == SubSeq(cut[1], 1, cut[2] - 1)
                     right == SubSeq(cut[1], cut[2] + 1, Len(s))
                 IN  sorted[left, depth - 1, Len(left) >= Len(right)] \o <<cut[1][cut[2]]>>
                         \o sorted[right, depth - 1, Len(left) < Len(right)]
    IN  sorted[Identity(n), Depth * log, TRUE]

(* Along an axis.                                                             *)
\* The cells of each line of an array along axis d.
Lines(a, d) ==
    LET kept == Iterated(a, Kept(a, {d}))
    IN  [k \in DOMAIN kept |-> [i \in 1..a.shape[d] |-> a.offset + kept[k] + (i - 1) * a.strides[d] + 1]]
\* Each line of a, changed by To, in the place of that line in out.
LinesPut(out, cells, lines) == [out EXCEPT !.buf = Assign(out.buf, Concat(cells), Concat(lines))]
Changed(buf, cells, To(_)) == [k \in DOMAIN cells |-> To(Permuted(buf, cells[k]))]
Along(a, out, d, To(_)) == LinesPut(out, Lines(out, d), Changed(a.buf, Lines(a, d), To))
Blank(shape) == from_buffer([i \in 1..Size(shape) |-> 0], shape, "C")

sort_along(a, out, d, kind, tie, desc) ==
    Along(a, out, d, LAMBDA s :
        Permuted(s, stable_order(Len(s), Less(s, kind, tie, desc))))

\* The lines of a in reverse.  The cells are counted from the first of the buffer.
reverse_axis_lines(a, d) ==
    LET lines == Lines([a EXCEPT !.offset = 0], d)
    IN  LinesPut(a, lines, Changed(a.buf, lines, Reverse))

\* The lines of a, sorted, in out.  Integers sort up and are reversed.
Finished(sorted, d, kind, stable, desc) ==
    CASE kind = "int" /\ desc -> reverse_axis_lines(sorted, d)
      [] kind = "float" /\ ~stable /\ sorted.shape[d] > 1 ->
            Along(sorted, sorted, d, LAMBDA s : [i \in DOMAIN s |-> canonicalize(kind, s[i])])
      [] OTHER -> sorted
Sorted(a, out, d, kind, stable, desc) ==
    Finished(sort_along(a, out, d, kind, kind = "float" /\ ~stable, kind # "int" /\ desc), d, kind, stable, desc)

sort_axis(a, d, kind, stable, desc) == Sorted(a, Blank(a.shape), d, kind, stable, desc)
sort_in_place(a, d, kind, stable, desc) == Sorted(a, a, d, kind, stable, desc)

FromZero(order) == [i \in DOMAIN order |-> order[i] - 1]
argsort_axis(a, d, kind, stable, desc) ==
    Along(a, Blank(a.shape), d, LAMBDA s : FromZero(
        IF stable THEN stable_order(Len(s), Less(s, kind, FALSE, desc))
        ELSE intro_order(Len(s), Less(s, kind, FALSE, desc))))

\* The functions of the package: no axis stands for all elements in a row.
OnAxis1(a, axis) == IF axis = None THEN ravel_order(a, "C") ELSE a
Axis1(a, axis) == IF axis = None THEN 1 ELSE normalize_axis(axis, Len(a.shape))
sort(a, axis, kind, stable, desc) ==
    LET d == Axis1(a, axis)
    IN  IF d = Raised THEN Raised ELSE sort_axis(OnAxis1(a, axis), d, kind, stable, desc)
argsort(a, axis, kind, stable, desc) ==
    LET b == IF a.shape = <<>> THEN ravel_order(a, "C") ELSE a
        d == Axis1(b, axis)
    IN  IF d = Raised THEN Raised ELSE argsort_axis(OnAxis1(b, axis), d, kind, stable, desc)
ndarray_sort(a, axis, kind, stable, desc) ==
    LET d == normalize_axis(axis, Len(a.shape))
    IN  IF d = Raised THEN Raised ELSE sort_in_place(a, d, kind, stable, desc)

\* The last axis, sorted and then cast.
sort_complex(a, kind) ==
    IF a.shape = <<>> THEN Raised
    ELSE LET sorted == sort_axis(a, Len(a.shape), kind, FALSE, FALSE)
         IN  [sorted EXCEPT !.buf = [i \in DOMAIN @ |-> IF kind = "complex" THEN @[i] ELSE <<@[i][1], 0>>]]

\* One stable sort for each key, the last key last.
lexsort(keys, kinds, axis) ==
    LET shape == keys[1].shape
        d == normalize_axis(axis, Len(shape))
        line(k, l) == LET lines == Lines(keys[k], d) IN Permuted(keys[k].buf, lines[l])
        order(l) ==
            LET upto[k \in 0..Len(keys)] ==
                    IF k = 0 THEN Identity(shape[d])
                    ELSE LET before == upto[k - 1]
                         IN  Permuted(before, stable_order(shape[d],
                                Less(Permuted(line(k, l), before), kinds[k], FALSE, FALSE)))
            IN  upto[Len(keys)]
        lines == Lines(Blank(shape), d)
    IN  IF \E k \in DOMAIN keys : keys[k].shape # shape THEN Raised
        ELSE IF shape = <<>> \/ d = Raised THEN Raised
        ELSE LinesPut(Blank(shape), lines, [l \in DOMAIN lines |-> FromZero(order(l))])

(* Searches.                                                                  *)
\* Zero tests false, in either sign; NaN tests true.
is_truthy_mask(a, kind) ==
    LET s == Elems(a)
    IN  [i \in DOMAIN s |-> s[i][1] # 0 \/ (kind = "complex" /\ s[i][2] # 0)]
Hits(mask) == Ascending({i \in DOMAIN mask : mask[i]})

\* One array of numbers for each axis.
Coordinates(shape, hits) ==
    [d \in DOMAIN shape |-> from_buffer([i \in DOMAIN hits |-> Position(shape, hits[i] - 1)[d]], <<Len(hits)>>, "C")]
nonzero(a, kind) == IF a.shape = <<>> THEN Raised ELSE Coordinates(a.shape, Hits(is_truthy_mask(a, kind)))
flatnonzero(a, kind) == nonzero(ravel_order(a, "C"), kind)[1]
Interleaved(cols) ==
    from_buffer(Concat([i \in DOMAIN cols[1].buf |-> [d \in DOMAIN cols |-> cols[d].buf[i]]]),
                <<Len(cols[1].buf), Len(cols)>>, "C")
argwhere(a, kind) ==
    IF a.shape = <<>> THEN from_buffer(<<>>, <<IF is_truthy_mask(a, kind)[1] THEN 1 ELSE 0, 0>>, "C")
    ELSE Interleaved(nonzero(a, kind))

\* An array stretched to a shape that it is known to fit.
broadcast_view(a, shape) == View(a, shape, broadcast_strides_to(a.shape, a.strides, shape), a.offset)
extract(condition, kind, a) ==
    LET shape == broadcast_shapes(<<condition.shape, a.shape>>)
        hits == Hits(is_truthy_mask(broadcast_view(condition, shape), kind))
    IN  IF shape = Raised THEN Raised
        ELSE from_buffer(Permuted(Elems(broadcast_view(a, shape)), hits), <<Len(hits)>>, "C")
where_select(condition, kind, x, y) ==
    LET shape == broadcast_shapes(<<condition.shape, x.shape, y.shape>>)
        mask == is_truthy_mask(broadcast_view(condition, shape), kind)
        yes == Elems(broadcast_view(x, shape))
        no == Elems(broadcast_view(y, shape))
    IN  IF shape = Raised THEN Raised
        ELSE from_buffer([i \in DOMAIN mask |-> IF mask[i] THEN yes[i] ELSE no[i]], shape, "C")

\* The place of v among the elements of `sorted`, taken in the order of the sorter;
\* an index of the sorter is looked at only when the search comes by.
bisect(sorted, v, kind, right, sorter) ==
    LET n == Len(sorted)
        lt(a, b) == element_lt(kind, a, b, FALSE, FALSE)
        search[lo \in 0..n, hi \in 0..n] ==
            LET mid0 == (lo + hi) \div 2
                mid == IF sorter = None THEN mid0 ELSE sorter[mid0 + 1]
                left == IF right THEN lt(v, sorted[mid + 1]) ELSE ~lt(sorted[mid + 1], v)
            IN  IF lo = hi THEN lo
                ELSE IF mid \notin 0..n - 1 THEN Raised
                ELSE IF left THEN search[lo, mid0] ELSE search[mid0 + 1, hi]
    IN  search[0, n]
\* The sorter is a sequence of numbers or None.
searchsorted(a, values, kind, right, sorter) ==
    LET sorted == Elems(a)
        places == [i \in 1..Size(values.shape) |-> bisect(sorted, Elems(values)[i], kind, right, sorter)]
    IN  IF Len(a.shape) # 1 THEN Raised
        ELSE IF sorter # None /\ Len(sorter) # Len(sorted) THEN Raised
        ELSE IF Raised \in ToSet(places) THEN Raised
        ELSE from_buffer(places, values.shape, "C")

\* The first of the extreme elements along an axis; a NaN counts as an infinity that
\* is no extreme, and a line of nothing else is refused.
ArgExtreme(s, kind, max) ==
    LET sentinel == IF max THEN -Inf ELSE Inf
        worst == <<sentinel, IF kind = "complex" THEN sentinel ELSE 0>>
        seen == [i \in DOMAIN s |-> IF IsNaN(kind, s[i]) THEN worst ELSE s[i]]
        better(x, y) == IF max THEN element_lt(kind, y, x, FALSE, FALSE)
                        ELSE element_lt(kind, x, y, FALSE, FALSE)
        upto[i \in DOMAIN s] ==
            IF i = 1 THEN 1 ELSE LET best == upto[i - 1] IN IF better(seen[i], seen[best]) THEN i ELSE best
    IN  IF \A i \in DOMAIN s : IsNaN(kind, s[i]) THEN Raised ELSE upto[Len(s)] - 1
NanArgs(b, d, kind, max, shape) ==
    LET found == Changed(b.buf, Lines(b, d), LAMBDA s : ArgExtreme(s, kind, max))
    IN  IF b.shape[d] = 0 \/ Raised \in ToSet(found) THEN Raised ELSE from_buffer(found, shape, "C")
nanargext(a, axis, keepdims, kind, max) ==
    LET d == IF axis = None THEN 1 ELSE normalize_axis(axis, Max({1, Len(a.shape)}))
    IN  IF d = Raised THEN Raised
        ELSE IF axis = None \/ a.shape = <<>>
        THEN NanArgs(ravel_order(a, "C"), 1, kind, max, IF keepdims THEN [e \in DOMAIN a.shape |-> 1] ELSE <<>>)
        ELSE NanArgs(a, d, kind, max, IF keepdims THEN Put1(a.shape, d, 1) ELSE Permuted(a.shape, Kept(a, {d})))
=============================================================================
