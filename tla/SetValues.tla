-------------------------------- MODULE SetValues ------------------------------
(***************************************************************************)
(* What distinct elements, set operations, differences and the trimming of    *)
(* zeros promise.  Equality is that of floats: zeros of either sign are equal  *)
(* and a NaN equals nothing, itself included, unless NaNs count as one.        *)
(***************************************************************************)
EXTENDS OrderedValues

(* Groups of the positions of a sequence, each named by its first position.   *)
Firsts(s, Eq(_, _)) == {i \in DOMAIN s : \A j \in 1..i - 1 : ~Eq(s[j], s[i])}
GroupOf(s, Eq(_, _), i) == Min({i} \cup {j \in 1..i - 1 : Eq(s[j], s[i])})
\* The groups in the order of their elements, then of their positions.
Ranked(s, Eq(_, _), Before(_, _)) ==
    LET firsts == Firsts(s, Eq)
        earlier(i, j) == Before(s[j], s[i]) \/ (j < i /\ ~Before(s[i], s[j]))
    IN  [g \in 1..Cardinality(firsts) |->
           CHOOSE i \in firsts : Cardinality({j \in firsts : earlier(i, j)}) = g - 1]
RankOf(groups, i) == (CHOOSE g \in DOMAIN groups : groups[g] = i) - 1
Members(s, Eq(_, _), i) == {j \in DOMAIN s : GroupOf(s, Eq, j) = i}

\* Without an axis: one of the elements of each group; the first of those of the group
\* that come first in the order; the group of each element; the sizes.
Distinct(v, kind, equal_nan, part, w) ==
    \E s \in {Listed(v)} :
    LET eq(x, y) == IF equal_nan THEN AlsoNaNs(kind, x, y) ELSE Same(kind, x, y)
        lt(x, y) == Precedes(kind, FALSE, x, y)
    IN  \E groups \in {Ranked(s, eq, LAMBDA x, y : lt(x, y) /\ ~eq(x, y))} :
        LET in(p) == Members(s, eq, groups[p[1] + 1])
            least(M) == Min({i \in M : \A j \in M : ~lt(s[j], s[i])})
        IN  CASE part = "values" ->
                    /\ w.shape = <<Len(groups)>>
                    /\ \A p \in Positions(w.shape) : \E i \in in(p) : Tied(kind, w.at[p], s[i])
              [] part = "index" -> w = Value(<<Len(groups)>>, LAMBDA p : least(in(p)) - 1)
              [] part = "inverse" -> w = Value(v.shape, LAMBDA p :
                    RankOf(groups, GroupOf(s, eq, CNumber(p, v.shape) + 1)))
              [] part = "counts" -> w = Value(<<Len(groups)>>, LAMBDA p : Cardinality(in(p)))
\* Along an axis: the same of its sub-arrays, compared element by element.
DistinctAlong(v, d, kind, part, w) ==
    \E s \in {[i \in 1..v.shape[d] |-> Listed(Chosen(v, d, <<i - 1>>))]} :
    LET eq(x, y) == \A k \in DOMAIN x : Same(kind, x[k], y[k])
        lt(x, y) == \E k \in DOMAIN x : /\ Precedes(kind, FALSE, x[k], y[k])
                                        /\ \A j \in 1..k - 1 : Tied(kind, x[j], y[j])
    IN  \E groups \in {Ranked(s, eq, lt)} :
        w = CASE part = "values" -> Chosen(v, d, [g \in DOMAIN groups |-> groups[g] - 1])
              [] part = "index" -> Listing([g \in DOMAIN groups |-> groups[g] - 1])
              [] part = "inverse" -> Listing([i \in DOMAIN s |-> RankOf(groups, GroupOf(s, eq, i))])
              [] part = "counts" -> Listing([g \in DOMAIN groups |-> Cardinality(Members(s, eq, groups[g]))])
Unique ==
    /\ Is("unique")
    /\ \E v \in {Operand} :
       LET d == AxisOf(v, call'.axis)
       IN  Has(d # 0, LAMBDA w :
               IF call'.axis = None \/ Len(v.shape) = 1 THEN Distinct(v, call'.kind, call'.equal_nan, call'.part, w)
               ELSE DistinctAlong(v, d, call'.kind, call'.part, w))

(* Two operands.                                                              *)
SameElements(kind, s, t) ==
    \A x \in {(s \o t)[i] : i \in DOMAIN (s \o t)} :
        Len(SelectSeq(s, LAMBDA y : y = x \/ AlsoNaNs(kind, x, y)))
            = Len(SelectSeq(t, LAMBDA y : y = x \/ AlsoNaNs(kind, x, y)))
OneEach(kind, s) ==
    LET firsts == Firsts(s, LAMBDA x, y : AlsoNaNs(kind, x, y))
        at == SelectSeq([i \in DOMAIN s |-> i], LAMBDA i : i \in firsts)
    IN  [k \in DOMAIN at |-> s[at[k]]]
In(kind, x, s) == \E i \in DOMAIN s : Same(kind, x, s[i])
Taken1(kind, s, assume_unique) == IF assume_unique THEN s ELSE OneEach(kind, s)
InOrder(kind, s, w) ==
    /\ Len(w.shape) = 1
    /\ Ascends(kind, FALSE, Listed(w))
    /\ SameElements(kind, s, Listed(w))
\* The elements of a set operation on s and t.
Chosen1(op, kind, s, t) ==
    CASE op = "intersect1d" -> SelectSeq(s, LAMBDA x : In(kind, x, t))
      [] op = "setxor1d" -> SelectSeq(s, LAMBDA x : ~In(kind, x, t)) \o SelectSeq(t, LAMBDA x : ~In(kind, x, s))
      [] op = "setdiff1d" -> SelectSeq(s, LAMBDA x : ~In(kind, x, t))
      [] op = "union1d" -> OneEach(kind, s \o t)
\* A difference of elements that are said to be distinct keeps their order.
SetOperation ==
    /\ call'.op \in {"intersect1d", "setxor1d", "setdiff1d", "union1d"}
    /\ \E v \in {Operand} :
       \E s \in {Taken1(call'.kind, Listed(v), call'.assume_unique)},
          t \in {Taken1(call'.kind, Listed(call'.other), call'.assume_unique)} :
       \E r \in {Chosen1(call'.op, call'.kind, s, t)} :
           Has(TRUE, LAMBDA w :
               IF call'.op = "setdiff1d" /\ call'.assume_unique THEN w = Listing(r)
               ELSE InOrder(call'.kind, r, w))
\* Where the common elements are first in each operand.
IntersectIndices ==
    /\ Is("intersect1d_indices")
    /\ \E v \in {Operand} :
       \E s \in {Listed(v)}, t \in {Listed(call'.other)} :
       LET kind == call'.kind
           common == Chosen1("intersect1d", kind, OneEach(kind, s), t)
           first(u, x) == Min({i \in DOMAIN u : Same(kind, u[i], x)})
           sorted == [g \in DOMAIN common |-> CHOOSE i \in DOMAIN common :
                         Len(SelectSeq(common, LAMBDA y : Precedes(kind, FALSE, y, common[i]))) = g - 1]
       IN  Has(TRUE, LAMBDA w :
               IF call'.part = "values" THEN InOrder(kind, common, w)
               ELSE w = Listing([g \in DOMAIN sorted |->
                            first(IF call'.part = "index1" THEN s ELSE t, common[sorted[g]]) - 1]))
IsIn ==
    /\ Is("isin")
    /\ \E v \in {Operand}, t \in {Listed(call'.other)} :
       Gives(TRUE, Value(v.shape, LAMBDA p : In(call'.kind, v.at[p], t) # call'.invert))

(* Differences and zeros.                                                     *)
\* The differences of order n: neighbours with alternating signs, as often as there
\* are ways to choose them.  An operand without axes is one element at every end.
Diff ==
    /\ Is("diff")
    /\ LET n == call'.n
           d == Axis(call'.axis, Len(val.shape))
           ends == <<call'.prepend, call'.append>>
           end(i) == IF ends[i] = Omitted THEN Value(Replaced(val.shape, d, 0), LAMBDA p : 0)
                     ELSE IF ends[i].shape = <<>> THEN Stretched(ends[i], Replaced(val.shape, d, 1))
                     ELSE ends[i]
           legal(i) == /\ ends[i] # None
                       /\ Len(end(i).shape) = Len(val.shape)
                       /\ \A e \in Axes(val) \ {d} : end(i).shape[e] = val.shape[e]
       IN  IF n = 0 THEN Gives(TRUE, val)
           ELSE IF n < 0 \/ d = 0 \/ \E i \in {1, 2} : ~legal(i) THEN Raises
           ELSE \E v \in {Joined(Joined(end(1), val, d), end(2), d)} :
                ~raised' /\ val' = Value(Replaced(v.shape, d, Max({0, v.shape[d] - n})), LAMBDA p :
                    SumOver(SUBSET (1..n), LAMBDA S :
                        (IF (n - Cardinality(S)) % 2 = 0 THEN 1 ELSE -1)
                        * v.at[Replaced(p, d, p[d] + Cardinality(S))]))
EDiff1D ==
    /\ Is("ediff1d")
    /\ LET s == Listed(val)
           end(x) == IF x = None THEN <<>> ELSE Listed(x)
       IN  Gives(TRUE, Listing(end(call'.to_begin) \o [i \in 1..Max({0, Len(s) - 1}) |-> s[i + 1] - s[i]]
                               \o end(call'.to_end)))
\* On each axis named what lies before the first and after the last slice that is not
\* all zeros is cut off; if all are, everything is.
TrimZeros ==
    /\ Is("trim_zeros")
    /\ \E v \in {Operand} :
       \E hits \in {{q \in Positions(v.shape) : ~Zero(call'.kind, v.at[q])}} :
       LET n == Len(v.shape)
           used == [d \in Axes(v) |-> {p[d] : p \in hits}]
           named == IF call'.axes = None THEN Axes(v) ELSE {Axis(call'.axes[i], n) : i \in DOMAIN call'.axes}
           front(d) == IF d \in named /\ call'.trim \in {"f", "fb", "bf"} THEN Min(used[d]) ELSE 0
           back(d) == IF d \in named /\ call'.trim \in {"b", "fb", "bf"} THEN v.shape[d] - 1 - Max(used[d]) ELSE 0
           shape == [d \in Axes(v) |->
                       IF d \notin named THEN v.shape[d]
                       ELSE IF used[d] = {} THEN 0 ELSE v.shape[d] - front(d) - back(d)]
       IN  Gives(/\ call'.trim \in {"f", "b", "fb", "bf"}
                 /\ 0 \notin named
                 /\ call'.axes # None => Cardinality(named) = Len(call'.axes),
                 Value(shape, LAMBDA p : v.at[[d \in Axes(v) |-> p[d] + front(d)]]))

SetNext ==
    \/ Next
    \/ Sort \/ ArgSort \/ SortComplex \/ LexSort \/ NonZero \/ FlatNonZero \/ ArgWhere \/ Extract
    \/ Where \/ SearchSorted \/ NanArg \/ Unique \/ SetOperation \/ IntersectIndices \/ IsIn
    \/ Diff \/ EDiff1D \/ TrimZeros
SetSpec == Init /\ [][SetNext]_vars
=============================================================================
