------------------------------ MODULE OrderedValues -----------------------------
(***************************************************************************)
(* What sorts, searches, set operations and differences promise, besides the  *)
(* operations of ArrayValues: what is where in a result follows from the       *)
(* order of the elements alone.  The operand is the array with each element    *)
(* replaced as call'.key says; an element is a pair, whose first part counts    *)
(* and, for a complex number, the second as well.                              *)
(***************************************************************************)
EXTENDS ArrayValues

CONSTANTS NaN,
          Omitted   \* an argument that is not there, when None may be

(* Order.  NaNs are last, the complex ones with a number as real part first.   *)
Parts(kind, x) == IF kind = "complex" THEN x ELSE <<x[1]>>
NaNs(kind, x) == {i \in DOMAIN Parts(kind, x) : x[i] = NaN}
NaNClass(kind, x) == SumOver(NaNs(kind, x), LAMBDA i : IF i = 1 THEN 2 ELSE 1)
Tied(kind, x, y) == Parts(kind, x) = Parts(kind, y)
Same(kind, x, y) == Tied(kind, x, y) /\ NaNs(kind, x) = {}
AlsoNaNs(kind, x, y) == Same(kind, x, y) \/ (NaNs(kind, x) # {} /\ NaNs(kind, y) # {})
Precedes(kind, desc, x, y) ==
    IF NaNClass(kind, x) # NaNClass(kind, y) THEN NaNClass(kind, x) < NaNClass(kind, y)
    ELSE \E i \in DOMAIN Parts(kind, x) :
            /\ x[i] # y[i]
            /\ \A j \in 1..i - 1 : x[j] = y[j]
            /\ IF desc THEN x[i] > y[i] ELSE x[i] < y[i]
Ascends(kind, desc, s) == \A i, j \in DOMAIN s : i < j => ~Precedes(kind, desc, s[j], s[i])

Keyed(v, key) == Value(v.shape, LAMBDA p : key[v.at[p]])
Operand == Keyed(val, call'.key)
Line(v, p, d) == [i \in 1..v.shape[d] |-> v.at[Replaced(p, d, i - 1)]]
Listing(s) == Value(<<Len(s)>>, LAMBDA p : s[p[1] + 1])
\* A call that is not legal raises, any other has a result of which something is true.
Has(legal, Right(_)) == IF legal THEN ~raised' /\ Right(val') ELSE Raises

(* Sorts.                                                                     *)
\* A stable sort keeps elements that are tied as they are.  Any other may put zeros
\* and NaNs, of whatever sign and payload, in any order.
SortOf(kind, stable, desc, s, t) ==
    /\ Len(t) = Len(s)
    /\ Ascends(kind, desc, t)
    /\ \A i \in DOMAIN s :
         IF stable THEN SelectSeq(t, LAMBDA y : Tied(kind, s[i], y)) = SelectSeq(s, LAMBDA y : Tied(kind, s[i], y))
         ELSE LET like(y) == y = s[i] \/ (kind = "float" /\ AlsoNaNs(kind, y, s[i]) /\ s[i][1] = NaN)
              IN  Len(SelectSeq(t, like)) = Len(SelectSeq(s, like))
SortsTo(v, d, kind, stable, desc, w) ==
    /\ w.shape = v.shape
    /\ \A p \in Positions(v.shape) : p[d] = 0 => SortOf(kind, stable, desc, Line(v, p, d), Line(w, p, d))
Sort ==
    /\ call'.op \in {"sort", "ndarray.sort"}
    /\ \E v \in {On(Operand, call'.axis)} :
       LET d == AxisOf(v, call'.axis)
       IN  Has(d # 0, LAMBDA w : SortsTo(v, d, call'.kind, call'.stable, call'.desc, w))
\* The positions of the elements of a line in their order, ties of a stable sort
\* from the first.
ArgSort ==
    /\ Is("argsort")
    /\ \E v \in {On(IF val.shape = <<>> THEN Flattened(Operand) ELSE Operand, call'.axis)} :
       LET d == AxisOf(v, call'.axis)
           right(s, order) ==
               /\ {order[i] : i \in DOMAIN order} = 0..Len(s) - 1
               /\ Ascends(call'.kind, call'.desc, [i \in DOMAIN s |-> s[order[i] + 1]])
               /\ call'.stable => \A i \in 1..Len(s) - 1 :
                     Tied(call'.kind, s[order[i] + 1], s[order[i + 1] + 1]) => order[i] < order[i + 1]
       IN  Has(d # 0, LAMBDA w : w.shape = v.shape /\
               \A p \in Positions(v.shape) : p[d] = 0 => right(Line(v, p, d), Line(w, p, d)))
\* The last axis in order, then its elements as complex numbers.
SortComplex ==
    /\ Is("sort_complex")
    /\ \E v \in {Operand} :
       LET n == Len(v.shape)
           number(x) == IF call'.kind = "complex" THEN x ELSE <<x[1], 0>>
       IN  Has(n > 0, LAMBDA w : SortsTo(Value(v.shape, LAMBDA p : number(v.at[p])), n, "complex", FALSE, FALSE, w))
\* The order of the last key, ties in the order of the one before, then by position.
LexSort ==
    /\ Is("lexsort")
    /\ LET keys == [k \in DOMAIN call'.keys |-> IF k = 1 THEN Operand ELSE call'.keys[k]]
           n == Len(val.shape)
           d == Axis(call'.axis, n)
           kind(k) == call'.kinds[k]
           x(k, p, i) == keys[k].at[Replaced(p, d, i)]
           before(p, i, j) ==
               \/ \E k \in DOMAIN keys :
                     /\ Precedes(kind(k), FALSE, x(k, p, i), x(k, p, j))
                     /\ \A m \in k + 1..Len(keys) : Tied(kind(m), x(m, p, i), x(m, p, j))
               \/ i < j /\ \A k \in DOMAIN keys : Tied(kind(k), x(k, p, i), x(k, p, j))
       IN  Gives(d # 0 /\ \A k \in DOMAIN keys : keys[k].shape = val.shape,
                 Value(val.shape, LAMBDA p : CHOOSE i \in 0..val.shape[d] - 1 :
                     Cardinality({j \in 0..val.shape[d] - 1 : before(p, j, i)}) = p[d]))

(* Searches.                                                                  *)
Zero(kind, x) == \A i \in DOMAIN Parts(kind, x) : x[i] = 0
\* The positions of the elements that are not zero, in C order.
Hits(v, kind) ==
    LET number == [p \in {q \in DOMAIN v.at : ~Zero(kind, v.at[q])} |-> CNumber(p, v.shape)]
        before(p) == {q \in DOMAIN number : number[q] < number[p]}
    IN  [i \in 1..Cardinality(DOMAIN number) |->
           CHOOSE p \in DOMAIN number : Cardinality(before(p)) = i - 1]
NonZero ==
    /\ Is("nonzero")
    /\ \E v \in {Operand} :
       \E hits \in {Hits(v, call'.kind)} :
          Gives(val.shape # <<>>, Listing([i \in DOMAIN hits |-> hits[i][call'.part]]))
FlatNonZero ==
    /\ Is("flatnonzero")
    /\ \E v \in {Operand} :
       \E hits \in {Hits(v, call'.kind)} :
          Gives(TRUE, Listing([i \in DOMAIN hits |-> CNumber(hits[i], val.shape)]))
ArgWhere ==
    /\ Is("argwhere")
    /\ \E v \in {Operand} :
       \E hits \in {Hits(v, call'.kind)} :
          Gives(TRUE, Value(<<Len(hits), Len(val.shape)>>, LAMBDA p : hits[p[1] + 1][p[2] + 1]))
\* The elements of the array where the condition, another array, is not zero.
Extract ==
    /\ Is("extract")
    /\ LET c == call'.condition
           shapes == {val.shape, c.shape}
       IN  IF ~Compatible(shapes) THEN Raises
           ELSE \E mask \in {Stretched(c, Common(shapes))}, v \in {Stretched(val, Common(shapes))} :
                \E hits \in {Hits(mask, call'.kind)} :
                    ~raised' /\ val' = Listing([i \in DOMAIN hits |-> v.at[hits[i]]])
Where ==
    /\ Is("where")
    /\ \E v \in {Operand} :
       LET shapes == {v.shape, call'.x.shape, call'.y.shape}
           of(w, p) == w.at[Behind(p, w.shape)]
       IN  Gives(Compatible(shapes), Value(Common(shapes), LAMBDA p :
               IF Zero(call'.kind, of(v, p)) THEN of(call'.y, p) ELSE of(call'.x, p)))
\* How many elements come before each value; when the elements are not in order,
\* some number of them.
SearchSorted ==
    /\ Is("searchsorted")
    /\ \E v \in {Operand} :
       LET sorter == call'.sorter
           n == Count(v)
           s == IF sorter = None THEN Listed(v) ELSE [i \in DOMAIN sorter |-> v.at[<<sorter[i]>>]]
           before(x, y) == Precedes(call'.kind, FALSE, x, y) \/ (call'.right /\ ~Precedes(call'.kind, FALSE, y, x))
           ordered == /\ sorter # None => \A i \in DOMAIN sorter : sorter[i] \in 0..n - 1
                      /\ Ascends(call'.kind, FALSE, s)
       IN  IF Len(v.shape) # 1 \/ (sorter # None /\ Len(sorter) # n) THEN Raises
           ELSE IF ordered
           THEN ~raised' /\ val' = Value(call'.values.shape, LAMBDA p :
                                Cardinality({i \in DOMAIN s : before(s[i], call'.values.at[p])}))
           ELSE \/ /\ ~raised'
                   /\ val'.shape = call'.values.shape
                   /\ \A p \in Positions(val'.shape) : val'.at[p] \in 0..n
                \/ sorter # None /\ Raises
\* The first of the largest, or smallest, of the elements that are no NaN.
NanArg ==
    /\ Is("nanarg")
    /\ \E v \in {On(Operand, IF val.shape = <<>> THEN None ELSE call'.axis)} :
       LET n == Len(val.shape)
           d == IF call'.axis = None THEN 1 ELSE Axis(call'.axis, Max({1, n}))
           flat == Len(v.shape) # n \/ call'.axis = None
           at(p) == Line(v, IF flat THEN <<0>> ELSE IF call'.keepdims THEN p ELSE Placed(p, d, 0), d)
           shape == IF call'.keepdims THEN [e \in Axes(val) |-> IF flat \/ e = d THEN 1 ELSE val.shape[e]]
                    ELSE Removed(v.shape, d)
           numbers(s) == {i \in DOMAIN s : NaNs(call'.kind, s[i]) = {}}
           best(s, M) == {i \in M : \A j \in M : ~Precedes(call'.kind, call'.max, s[j], s[i])}
           first(s) == Min(best(s, numbers(s)))
       IN  Gives(d # 0 /\ v.shape[d] > 0 /\ \A p \in Positions(shape) : numbers(at(p)) # {},
                 Value(shape, LAMBDA p : first(at(p)) - 1))
=============================================================================
