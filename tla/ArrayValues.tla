------------------------------ MODULE ArrayValues ------------------------------
(***************************************************************************)
(* What the array operations promise, with no buffers, strides or offsets:    *)
(* an array is a shape and an element at every position, and each operation   *)
(* says which element of its operands is at which position of its result.     *)
(* `call` is the call made, a record with its arguments; a call that is not    *)
(* legal raises and changes nothing.  Positions are counted from 0, axes from *)
(* 1 (`axis` arguments are Python's).                                         *)
(***************************************************************************)
EXTENDS Integers, Sequences, FiniteSetsExt, Folds

CONSTANT None

VARIABLES val,     \* the array: [shape, at]
          call,    \* the last call
          raised   \* whether it raised

vars == <<val, call, raised>>

Positions(shape) ==
    {p \in [DOMAIN shape -> 0..Max({shape[d] : d \in DOMAIN shape} \cup {1}) - 1] :
        \A d \in DOMAIN shape : p[d] < shape[d]}
Value(shape, At(_)) == [shape |-> shape, at |-> [p \in Positions(shape) |-> At(p)]]
SumOver(S, Of(_)) == MapThenSumSet(Of, S)
Axes(v) == DOMAIN v.shape
Count(v) == Cardinality(Positions(v.shape))

\* The axis a Python axis names, 0 for none of n.
Axis(axis, n) == IF axis \in 0..n - 1 THEN axis + 1 ELSE IF axis \in -n..-1 THEN n + axis + 1 ELSE 0

\* The number of a position when the last axis, or the first, runs fastest.
CNumber(p, shape) ==
    LET n[d \in 0..Len(shape)] == IF d = 0 THEN 0 ELSE n[d - 1] * shape[d] + p[d]
    IN  n[Len(shape)]
FNumber(p, shape) ==
    LET n[d \in 1..Len(shape) + 1] == IF d > Len(shape) THEN 0 ELSE n[d + 1] * shape[d] + p[d]
    IN  n[1]
Number(p, shape, order) == IF order = "F" THEN FNumber(p, shape) ELSE CNumber(p, shape)

Reshaped(v, shape, order) ==
    Value(shape, LAMBDA p : v.at[CHOOSE q \in Positions(v.shape) :
                                    Number(q, v.shape, order) = Number(p, shape, order)])
Flattened(v) == Reshaped(v, <<Count(v)>>, "C")
Listed(v) == LET flat == Flattened(v) IN [i \in 1..Count(v) |-> flat.at[<<i - 1>>]]

\* The array whose axis i is axis order[i] of v.
Reordered(v, order) ==
    Value([i \in DOMAIN order |-> v.shape[order[i]]],
          LAMBDA p : v.at[[d \in Axes(v) |-> p[CHOOSE i \in DOMAIN order : order[i] = d]]])
Orderings(n) == {o \in [1..n -> 1..n] : \A i, j \in 1..n : o[i] = o[j] => i = j}
Keeping(n, D) == SelectSeq([d \in 1..n |-> d], LAMBDA d : d \notin D)
Replaced(s, d, x) == [s EXCEPT ![d] = x]
Removed(s, d) == [i \in 1..Len(s) - 1 |-> IF i < d THEN s[i] ELSE s[i + 1]]
Placed(s, d, x) == [i \in 1..Len(s) + 1 |-> IF i < d THEN s[i] ELSE IF i = d THEN x ELSE s[i - 1]]

\* Axes are aligned at the right; an axis of length one stands for any length.
Aligned(shape, n, d) == IF d <= n - Len(shape) THEN 1 ELSE shape[d - n + Len(shape)]
Fits(shape, target) ==
    /\ Len(shape) <= Len(target)
    /\ \A d \in DOMAIN target : Aligned(shape, Len(target), d) \in {1, target[d]}
Behind(p, shape) ==
    [d \in DOMAIN shape |-> IF shape[d] = 1 THEN 0 ELSE p[d + Len(p) - Len(shape)]]
Stretched(v, target) == Value(target, LAMBDA p : v.at[Behind(p, v.shape)])
Common(shapes) ==
    LET n == Max({Len(s) : s \in shapes} \cup {0})
    IN  [d \in 1..n |-> LET lens == {Aligned(s, n, d) : s \in shapes}
                        IN  IF lens = {1} THEN 1 ELSE CHOOSE x \in lens : x # 1]
Compatible(shapes) == \A s \in shapes : Fits(s, Common(shapes))

Is(op) == call'.op = op
Raises == raised' /\ val' = val
Gives(legal, value) == IF legal THEN ~raised' /\ val' = value ELSE Raises

(* Moving axes.                                                               *)
Reshape ==
    /\ Is("reshape")
    /\ IF call'.order \in {"C", "F", "A"} /\ Count(val) = Cardinality(Positions(call'.shape))
       THEN /\ ~raised'
            /\ \E order \in IF call'.order = "A" THEN {"C", "F"} ELSE {call'.order} :
                  val' = Reshaped(val, call'.shape, order)
       ELSE Raises
\* Order "A" and "K" take some order of the axes.
Ravel ==
    /\ Is("ravel") /\ ~raised'
    /\ IF call'.order \in {"C", "F"} THEN val' = Reshaped(val, <<Count(val)>>, call'.order)
       ELSE \E o \in Orderings(Len(val.shape)) : val' = Flattened(Reordered(val, o))
Copy == Is("copy") /\ Gives(TRUE, val)
Transpose == Is("transpose") /\ Gives(TRUE, Reordered(val, call'.perm))
SwapAxes ==
    /\ Is("swapaxes")
    /\ Gives(TRUE, Reordered(val, [d \in Axes(val) |-> IF d = call'.d THEN call'.e
                                                      ELSE IF d = call'.e THEN call'.d ELSE d]))
\* Each named axis is where it is sent, the others are in their old order.
MoveAxis ==
    /\ Is("moveaxis") /\ ~raised'
    /\ \E o \in Orderings(Len(val.shape)) :
          /\ \A i \in DOMAIN call'.source : o[call'.destination[i]] = call'.source[i]
          /\ \A x, y \in Axes(val) :
                x < y /\ {x, y} \cap {call'.destination[i] : i \in DOMAIN call'.destination} = {} => o[x] < o[y]
          /\ val' = Reordered(val, o)
\* The axis stands before the one that was at `start`.
RollAxis ==
    /\ Is("rollaxis")
    /\ LET n == Len(val.shape)
           d == Axis(call'.axis, n)
           start == IF call'.start < 0 THEN call'.start + n ELSE call'.start
           first == SelectSeq([i \in 1..n |-> i], LAMBDA i : i <= start /\ i # d)
           last == SelectSeq([i \in 1..n |-> i], LAMBDA i : i > start /\ i # d)
       IN  Gives(d # 0 /\ start \in 0..n, Reordered(val, first \o <<d>> \o last))
Squeeze ==
    /\ Is("squeeze")
    /\ LET gone == IF call'.axes = None THEN {d \in Axes(val) : val.shape[d] = 1} ELSE call'.axes
           kept == Keeping(Len(val.shape), gone)
       IN  Gives(gone \subseteq {d \in Axes(val) : val.shape[d] = 1},
                 Value([i \in DOMAIN kept |-> val.shape[kept[i]]],
                       LAMBDA p : val.at[[d \in Axes(val) |->
                           IF d \in gone THEN 0 ELSE p[CHOOSE i \in DOMAIN kept : kept[i] = d]]]))
\* The axes that are not new are the axes of the array, in order.
NewAxes ==
    /\ Is("expand_dims")
    /\ LET n == Len(val.shape) + Cardinality(call'.at)
           kept == Keeping(n, call'.at)
       IN  Gives(call'.at \subseteq 1..n,
                 Value([d \in 1..n |-> IF d \in call'.at THEN 1
                                       ELSE val.shape[CHOOSE i \in DOMAIN kept : kept[i] = d]],
                       LAMBDA p : val.at[[i \in Axes(val) |-> p[kept[i]]]]))
Flip ==
    /\ Is("flip")
    /\ Gives(TRUE, Value(val.shape, LAMBDA p :
          val.at[[d \in Axes(val) |-> IF d \in call'.axes THEN val.shape[d] - 1 - p[d] ELSE p[d]]]))
\* A quarter turn takes the axis d towards e.
Quarter(v, d, e) ==
    Value([v.shape EXCEPT ![d] = v.shape[e], ![e] = v.shape[d]],
          LAMBDA p : v.at[[p EXCEPT ![d] = p[e], ![e] = v.shape[e] - 1 - p[d]]])
Rot90 ==
    /\ Is("rot90")
    /\ LET turned[k \in 0..3] == IF k = 0 THEN val ELSE Quarter(turned[k - 1], call'.d, call'.e)
       IN  Gives(TRUE, turned[call'.k % 4])
BroadcastTo == Is("broadcast_to") /\ Gives(Fits(val.shape, call'.shape), Stretched(val, call'.shape))

(* Selecting with a key.                                                      *)
\* The positions a Python slice of n elements visits, in its order.
Visited(s, n) ==
    LET step == IF s.step = None THEN 1 ELSE s.step
        from(x) == IF x < 0 THEN x + n ELSE x
        first == IF s.start = None THEN (IF step > 0 THEN 0 ELSE n - 1)
                 ELSE IF step > 0 THEN Max({0, from(s.start)}) ELSE Min({n - 1, from(s.start)})
        before(x) == IF s.stop = None THEN TRUE
                     ELSE IF step > 0 THEN x < from(s.stop) ELSE x > Max({-1, from(s.stop)})
        ks == {k \in 0..n : first + k * step \in 0..n - 1 /\ before(first + k * step)}
    IN  [i \in 1..Cardinality(ks) |-> first + (i - 1) * step]

Takes(item) == CASE item.kind \in {"index", "slice", "array"} -> 1
                 [] item.kind = "mask" -> Len(item.shape)
                 [] item.kind \in {"newaxis", "ellipsis"} -> 0
Whole == [kind |-> "slice", start |-> None, stop |-> None, step |-> None]
Taken(key) == SumOver(DOMAIN key, LAMBDA k : Takes(key[k]))
\* The key with its ellipsis, or its end, filled up with whole slices.
Filled(key, n) ==
    LET dots == {k \in DOMAIN key : key[k].kind = "ellipsis"}
        at == IF dots = {} THEN Len(key) + 1 ELSE Min(dots)
    IN  SubSeq(key, 1, at - 1) \o [i \in 1..Max({0, n - Taken(key)}) |-> Whole] \o SubSeq(key, at + 1, Len(key))

Truths(m) == SelectSeq([i \in 1..Len(m.vals) |-> i], LAMBDA i : m.vals[i])
IndexArray(item) == item.kind \in {"array", "mask"}
BlockShape(item) == IF item.kind = "array" THEN item.shape ELSE <<Len(Truths(item))>>
\* The coordinate c of the positions an index array names.
Names(item, b, c, n) ==
    LET q == Behind(b, BlockShape(item))
    IN  IF item.kind = "array"
        THEN LET i == item.vals[CNumber(q, item.shape) + 1] IN IF i < 0 THEN i + n ELSE i
        ELSE (CHOOSE p \in Positions(item.shape) :
                 CNumber(p, item.shape) = Truths(item)[q[1] + 1] - 1)[c]

\* What a filled key selects: a shape, and the position of the array for each of its own.
Selection(v, items) ==
    LET \* the first axis of item k, and whether item k has axes of the result
        axis(k) == 1 + SumOver(1..k - 1, LAMBDA j : Takes(items[j]))
        free == SelectSeq([k \in DOMAIN items |-> k], LAMBDA k : items[k].kind \in {"slice", "newaxis"})
        arrays == {k \in DOMAIN items : IndexArray(items[k])}
        block == Common({BlockShape(items[k]) : k \in arrays})
        together == \A j, k \in arrays : \A m \in j..k : m \in arrays
        at == IF arrays = {} \/ ~together THEN 0
              ELSE Cardinality({i \in DOMAIN free : free[i] < Min(arrays)})
        len(k) == IF items[k].kind = "newaxis" THEN 1 ELSE Len(Visited(items[k], v.shape[axis(k)]))
        lens == [i \in DOMAIN free |-> len(free[i])]
        own(p, i) == p[IF i <= at THEN i ELSE i + Len(block)]
        b(p) == SubSeq(p, at + 1, at + Len(block))
        coordinate(p, k, c) ==
            CASE items[k].kind = "index" ->
                    IF items[k].i < 0 THEN items[k].i + v.shape[axis(k)] ELSE items[k].i
              [] items[k].kind = "slice" ->
                    Visited(items[k], v.shape[axis(k)])[own(p, CHOOSE i \in DOMAIN free : free[i] = k) + 1]
              [] OTHER -> Names(items[k], b(p), c, v.shape[axis(k)])
        itemOf(d) == CHOOSE k \in DOMAIN items : d \in axis(k)..axis(k) + Takes(items[k]) - 1
        shape == SubSeq(lens, 1, at) \o block \o SubSeq(lens, at + 1, Len(lens))
    IN  [shape |-> shape,
         from |-> [p \in Positions(shape) |->
                     [d \in Axes(v) |-> coordinate(p, itemOf(d), d - axis(itemOf(d)) + 1)]]]

LegalKey(v, key) ==
    LET items == Filled(key, Len(v.shape))
        axis(k) == 1 + SumOver(1..k - 1, LAMBDA j : Takes(items[j]))
        fits(k) == LET item == items[k]
                       n == v.shape[axis(k)]
                   IN  CASE item.kind = "index" -> item.i \in -n..n - 1
                         [] item.kind = "slice" -> item.step # 0
                         [] item.kind = "array" -> \A i \in DOMAIN item.vals : item.vals[i] \in -n..n - 1
                         [] item.kind = "mask" ->
                               \A c \in DOMAIN item.shape : item.shape[c] = v.shape[axis(k) + c - 1]
                         [] OTHER -> TRUE
    IN  /\ Cardinality({k \in DOMAIN key : key[k].kind = "ellipsis"}) <= 1
        /\ Taken(key) <= Len(v.shape)
        /\ \A k \in DOMAIN items : fits(k)
        /\ Compatible({BlockShape(items[k]) : k \in {j \in DOMAIN items : IndexArray(items[j])}})

GetItem ==
    /\ Is("getitem")
    /\ IF ~LegalKey(val, call'.key) THEN Raises
       ELSE \E v \in {val}, items \in {Filled(call'.key, Len(val.shape))} :
            LET from == Selection(v, items)
            IN  ~raised' /\ val' = Value(from.shape, LAMBDA p : v.at[from.from[p]])

\* v with the values of w at the positions `from` names; of two for one position
\* the later stays.
Overwritten(v, w, from) ==
    Value(v.shape, LAMBDA q :
        LET hits == {p \in DOMAIN from : from[p] = q}
            last == CHOOSE p \in hits : \A o \in hits : CNumber(o, w.shape) <= CNumber(p, w.shape)
        IN  IF hits = {} THEN v.at[q] ELSE w.at[last])
\* w seen with no more than n axes: those before the last n of them have length one.
Trimmable(w, n) == \A d \in 1..Len(w.shape) - n : w.shape[d] = 1
Trimmed(w, n) ==
    LET extra == Max({0, Len(w.shape) - n})
    IN  Value(SubSeq(w.shape, extra + 1, Len(w.shape)), LAMBDA p : w.at[[d \in 1..extra |-> 0] \o p])
MasksAll(v, key) == Len(key) = 1 /\ key[1].kind = "mask" /\ Len(key[1].shape) = Len(v.shape)
SetItem ==
    /\ Is("setitem")
    /\ IF ~LegalKey(val, call'.key) THEN Raises
       ELSE \E v \in {val}, items \in {Filled(call'.key, Len(val.shape))} :
            \E from \in {Selection(v, items)}, w \in {call'.values} :
                LET n == Len(from.shape)
                IN  Gives(/\ Trimmable(w, n) /\ Fits(Trimmed(w, n).shape, from.shape)
                          /\ ~(MasksAll(v, call'.key) /\ Len(w.shape) > 1),
                          Overwritten(v, Stretched(Trimmed(w, n), from.shape), from.from))

(* Joining and cutting.                                                       *)
\* The operand and the axis that `axis` stands for: None flattens.
On(v, axis) == IF axis = None THEN Flattened(v) ELSE v
AxisOf(v, axis) == IF axis = None THEN 1 ELSE Axis(axis, Len(v.shape))

Joined(v, w, d) ==
    Value(Replaced(v.shape, d, v.shape[d] + w.shape[d]),
          LAMBDA p : IF p[d] < v.shape[d] THEN v.at[p] ELSE w.at[Replaced(p, d, p[d] - v.shape[d])])
Concatenate ==
    /\ Is("concatenate")
    /\ LET v == On(val, call'.axis)
           w == On(call'.other, call'.axis)
           d == AxisOf(v, call'.axis)
       IN  Gives(d # 0 /\ Len(v.shape) = Len(w.shape) /\ \A e \in Axes(v) \ {d} : v.shape[e] = w.shape[e],
                 Joined(v, w, d))
Stack ==
    /\ Is("stack")
    /\ LET d == Axis(call'.axis, Len(val.shape) + 1)
       IN  Gives(d # 0 /\ val.shape = call'.other.shape,
                 Value(Placed(val.shape, d, 2), LAMBDA p :
                     IF p[d] = 0 THEN val.at[Removed(p, d)] ELSE call'.other.at[Removed(p, d)]))
\* One of the pieces: they are as long as each other, or the first ones longer by one.
ArraySplit ==
    /\ Is("array_split")
    /\ LET d == Axis(call'.axis, Len(val.shape))
           n == val.shape[d]
           long(i) == (n + call'.sections - i) \div call'.sections
           start == SumOver(1..call'.piece - 1, long)
           bounds == <<0>> \o call'.indices \o <<n>>
           part == Visited([kind |-> "slice", step |-> None,
                            start |-> IF call'.indices = None THEN start ELSE bounds[call'.piece],
                            stop |-> IF call'.indices = None THEN start + long(call'.piece)
                                     ELSE bounds[call'.piece + 1]], n)
       IN  Gives(d # 0 /\ (call'.indices = None => call'.sections > 0),
                 Value(Replaced(val.shape, d, Len(part)), LAMBDA p : val.at[Replaced(p, d, part[p[d] + 1])]))

(* Elements in other places.                                                  *)
Roll ==
    /\ Is("roll")
    /\ LET v == On(val, call'.axes)
           D == IF call'.axes = None THEN {1} ELSE call'.axes
           rolled == Value(v.shape, LAMBDA p :
                        v.at[[d \in Axes(v) |-> IF d \in D THEN (p[d] - call'.shift) % v.shape[d] ELSE p[d]]])
       IN  Gives(TRUE, Reshaped(rolled, val.shape, "C"))
Tile ==
    /\ Is("tile")
    /\ LET n == Max({Len(val.shape), Len(call'.reps)})
           reps(d) == IF d <= n - Len(call'.reps) THEN 1 ELSE call'.reps[d - n + Len(call'.reps)]
       IN  Gives(TRUE, Value([d \in 1..n |-> Aligned(val.shape, n, d) * reps(d)],
                             LAMBDA p : val.at[[d \in Axes(val) |->
                                                  p[d + n - Len(val.shape)] % val.shape[d]]]))
\* The array with the elements named, in their order, along one axis.
Chosen(v, d, names) ==
    Value(Replaced(v.shape, d, Len(names)), LAMBDA p : v.at[Replaced(p, d, names[p[d] + 1])])
Repeat ==
    /\ Is("repeat")
    /\ \E v \in {On(val, call'.axis)} :
       LET d == AxisOf(v, call'.axis)
           upto(i) == SumOver(1..i, LAMBDA j : call'.repeats[j])
       IN  Gives(d # 0 /\ Len(call'.repeats) = v.shape[d],
                 Chosen(v, d, [i \in 1..upto(v.shape[d]) |->
                                 Cardinality({j \in 1..v.shape[d] : upto(j) < i})]))
\* The positions an object of `delete` or `insert` names among n.
Named(obj, n) ==
    CASE obj.kind = "slice" -> Visited(obj, n)
      [] obj.kind = "mask" -> [i \in DOMAIN Truths(obj) |-> Truths(obj)[i] - 1]
      [] obj.kind = "array" -> [i \in DOMAIN obj.vals |-> IF obj.vals[i] < 0 THEN obj.vals[i] + n ELSE obj.vals[i]]
      [] obj.kind = "index" -> <<IF obj.i < 0 THEN obj.i + n ELSE obj.i>>
Delete ==
    /\ Is("delete")
    /\ \E v \in {On(val, call'.axis)} :
       LET d == AxisOf(v, call'.axis)
           gone == {Named(call'.obj, v.shape[d])[i] : i \in DOMAIN Named(call'.obj, v.shape[d])}
       IN  Gives(/\ d # 0
                 /\ call'.obj.kind = "mask" => call'.obj.shape = <<v.shape[d]>>
                 /\ gone \subseteq 0..v.shape[d] - 1,
                 Chosen(v, d, SelectSeq([i \in 1..v.shape[d] |-> i - 1], LAMBDA i : i \notin gone)))
\* The new elements before position j come first, in the order they were named;
\* those of a single place are as many as the values have there.  The values for
\* one integer have the axis in front.
Insert ==
    /\ Is("insert")
    /\ \E v \in {On(val, call'.axis)} :
       LET d == AxisOf(v, call'.axis)
           n == v.shape[d]
           names == Named(call'.obj, n)
           w == call'.values
           scalar == call'.obj.kind = "index"
           source(q) == IF scalar THEN <<q[d]>> \o Removed(q, d) ELSE q
           room == Aligned(w.shape, Len(v.shape), IF scalar THEN 1 ELSE d)
           each == IF Len(names) = 1 THEN [i \in 1..room |-> names[1]] ELSE names
           before(j) == SelectSeq([k \in DOMAIN each |-> k], LAMBDA k : each[k] = j)
           \* Element j of the array is numbered -1-j, new element k is numbered k.
           row[j \in 0..n] == (IF j = 0 THEN <<>> ELSE row[j - 1] \o <<-j>>) \o before(j)
       IN  IF \/ d = 0
              \/ \E i \in DOMAIN names : names[i] \notin 0..n
              \/ ~Fits(w.shape, source(Replaced(v.shape, d, Len(each)))) THEN Raises
           ELSE \E along \in {row[n]} :
                /\ ~raised'
                /\ val' = Value(Replaced(v.shape, d, Len(along)), LAMBDA p :
                     LET x == along[p[d] + 1]
                     IN  IF x < 0 THEN v.at[Replaced(p, d, -x - 1)]
                         ELSE w.at[Behind(source(Replaced(p, d, x - 1)), w.shape)])

(* Diagonals.                                                                 *)
Diagonal ==
    /\ Is("diagonal")
    /\ LET n == Len(val.shape)
           d == Axis(call'.axis1, n)
           e == Axis(call'.axis2, n)
           kept == Keeping(n, {d, e})
           on == {i \in 0..val.shape[d] - 1 : i + call'.offset \in 0..val.shape[e] - 1}
           i(p) == Min(on) + p[n - 1]
       IN  Gives(n >= 2 /\ d # 0 /\ e # 0 /\ d # e,
                 Value([x \in 1..n - 1 |-> IF x = n - 1 THEN Cardinality(on) ELSE val.shape[kept[x]]],
                       LAMBDA p : val.at[[x \in 1..n |->
                           IF x = d THEN i(p) ELSE IF x = e THEN i(p) + call'.offset
                           ELSE p[CHOOSE y \in DOMAIN kept : kept[y] = x]]]))
\* A square with the elements of a vector on one diagonal.
Diag ==
    /\ Is("diag")
    /\ LET n == val.shape[1]
           k == call'.k
           side == n + IF k < 0 THEN -k ELSE k
       IN  Gives(Len(val.shape) = 1,
                 Value(<<side, side>>, LAMBDA p :
                     IF p[2] - p[1] # k THEN 0 ELSE val.at[<<Min({p[1], p[2]})>>]))
Triangle ==
    /\ Is("tri")
    /\ LET v == IF Len(val.shape) = 1 THEN Stretched(val, <<val.shape[1], val.shape[1]>>) ELSE val
           n == Len(v.shape)
           keeps(p) == IF call'.upper THEN p[n] >= p[n - 1] + call'.k ELSE p[n] <= p[n - 1] + call'.k
       IN  Gives(val.shape # <<>>, Value(v.shape, LAMBDA p : IF keeps(p) THEN v.at[p] ELSE 0))
Resize ==
    /\ Is("resize")
    /\ Gives(TRUE, Value(call'.shape, LAMBDA p :
          IF Count(val) = 0 THEN 0 ELSE Listed(val)[(CNumber(p, call'.shape) % Count(val)) + 1]))

(* Elements by number.                                                        *)
Resolved(i, n, mode) ==
    CASE mode = "wrap" -> i % n
      [] mode = "clip" -> Max({0, Min({i, n - 1})})
      [] mode = "raise" -> IF i < 0 THEN i + n ELSE i
InReach(i, n, mode) == IF mode = "raise" THEN i \in -n..n - 1 ELSE n > 0

\* No index is looked up when an axis before the one they are about is empty, and
\* none is wrapped or clipped when any other axis is.
Take ==
    /\ Is("take")
    /\ \E v \in {On(IF val.shape = <<>> THEN Flattened(val) ELSE val, call'.axis)} :
       LET d == AxisOf(v, call'.axis)
           n == v.shape[d]
           idx == call'.indices
           m == Len(idx.shape)
           shape == SubSeq(v.shape, 1, d - 1) \o idx.shape \o SubSeq(v.shape, d + 1, Len(v.shape))
           unused == \E e \in Axes(v) \ {d} : v.shape[e] = 0 /\ (e < d \/ call'.mode # "raise")
       IN  Gives(d # 0 /\ (unused \/ \A i \in DOMAIN idx.vals : InReach(idx.vals[i], n, call'.mode)),
                 Value(shape, LAMBDA p : v.at[SubSeq(p, 1, d - 1)
                     \o <<Resolved(idx.vals[CNumber(SubSeq(p, d, d + m - 1), idx.shape) + 1], n, call'.mode)>>
                     \o SubSeq(p, d + m, Len(p))]))
Compress ==
    /\ Is("compress")
    /\ \E v \in {On(IF val.shape = <<>> THEN Flattened(val) ELSE val, call'.axis)} :
       LET d == AxisOf(v, call'.axis)
           hits == SelectSeq([i \in DOMAIN call'.mask |-> i - 1], LAMBDA i : call'.mask[i + 1])
       IN  Gives(/\ d # 0
                 /\ \/ \A i \in DOMAIN hits : hits[i] < v.shape[d]
                    \/ \E e \in 1..d - 1 : v.shape[e] = 0,
                 Chosen(v, d, hits))
\* The values, over and over, go to the elements numbered; the last write stays.
Put ==
    /\ Is("put")
    /\ LET idx == call'.indices.vals
           n == Count(val)
           vals == Listed(call'.values)
           hits(q) == {i \in DOMAIN idx : Resolved(idx[i], n, call'.mode) = CNumber(q, val.shape)}
       IN  Gives(\A i \in DOMAIN idx : InReach(idx[i], n, call'.mode),
                 Value(val.shape, LAMBDA q : IF hits(q) = {} THEN val.at[q]
                                             ELSE vals[((Max(hits(q)) - 1) % Len(vals)) + 1]))
\* Where along the axis position p is read or written.
Pointed(idx, p, n) ==
    LET i == idx.vals[CNumber(Behind(p, idx.shape), idx.shape) + 1] IN IF i < 0 THEN i + n ELSE i
AlongShape(v, idx, d) == Replaced(v.shape, d, idx.shape[d])
AlongFits(v, idx, d) ==
    d # 0 /\ Len(idx.shape) = Len(v.shape) /\ Fits(idx.shape, AlongShape(v, idx, d))
TakeAlong ==
    /\ Is("take_along_axis")
    /\ \E v \in {On(val, call'.axis)} :
       LET d == AxisOf(v, call'.axis)
           n == v.shape[d]
           shape == AlongShape(v, call'.indices, d)
       IN  Gives(/\ AlongFits(v, call'.indices, d)
                 /\ \A p \in Positions(shape) : Pointed(call'.indices, p, n) \in 0..n - 1,
                 Value(shape, LAMBDA p : v.at[Replaced(p, d, Pointed(call'.indices, p, n))]))
\* A call with an axis that meets an index out of bounds keeps what it wrote before.
PutAlong ==
    /\ Is("put_along_axis")
    /\ \E v \in {On(val, call'.axis)} :
       LET d == AxisOf(v, call'.axis)
           n == v.shape[d]
           shape == AlongShape(v, call'.indices, d)
           new == Stretched(call'.values, shape)
           from == [p \in Positions(shape) |-> Replaced(p, d, Pointed(call'.indices, p, n))]
           wrong == {p \in Positions(shape) : Pointed(call'.indices, p, n) \notin 0..n - 1}
           early == {p \in Positions(shape) : \A w \in wrong : CNumber(p, shape) < CNumber(w, shape)}
           done == Overwritten(v, new, [p \in early |-> from[p]])
       IN  IF ~AlongFits(v, call'.indices, d) THEN Raises
           ELSE IF ~Fits(call'.values.shape, shape) THEN Raises
           ELSE IF wrong # {} /\ call'.axis = None THEN Raises
           ELSE raised' = (wrong # {}) /\ val' = Reshaped(done, val.shape, "C")
\* Element i of the diagonal is value i, the values over and over; with `wrap` a
\* tall matrix has a diagonal again one row below the end of the last.
FillDiagonal ==
    /\ Is("fill_diagonal")
    /\ LET n == Len(val.shape)
           vals == Listed(call'.values)
           cols == val.shape[2]
           number(q) == IF n = 2 THEN q[1] - (q[1] \div (cols + 1)) ELSE q[1]
           on(q) == IF n = 2 /\ call'.wrap THEN q[1] % (cols + 1) = q[2]
                    ELSE \A d \in 1..n : q[d] = q[1]
       IN  Gives(n = 2 \/ (n > 2 /\ \A d \in 1..n : val.shape[d] = val.shape[1]),
                 Value(val.shape, LAMBDA q : IF on(q) THEN vals[(number(q) % Len(vals)) + 1] ELSE val.at[q]))

(* ufuncs; the operation is +.                                                *)
Kept(D) == Keeping(Len(val.shape), D)
\* The positions folded into position p of the result.
Fiber(p, D, keepdims) ==
    {q \in Positions(val.shape) : \A d \in Axes(val) \ D :
        q[d] = p[IF keepdims THEN d ELSE CHOOSE i \in DOMAIN Kept(D) : Kept(D)[i] = d]}
ReducedShape(D, keepdims) ==
    IF keepdims THEN [d \in Axes(val) |-> IF d \in D THEN 1 ELSE val.shape[d]]
    ELSE [i \in DOMAIN Kept(D) |-> val.shape[Kept(D)[i]]]
\* Every element that the mask shows is folded once into the one result it belongs
\* to, and the number to start from once into each.  Without such a number an
\* empty fold and a masked one are refused; so is the empty fold without a result.
Reduce ==
    /\ Is("reduce")
    /\ LET D == call'.axes
           start == IF call'.initial # None THEN call'.initial ELSE call'.identity
           shown(q) == call'.mask = None \/ Stretched(call'.mask, val.shape).at[q]
           empty == \E d \in D : val.shape[d] = 0
       IN  Gives(/\ start = None => ~empty /\ call'.mask = None
                 /\ empty /\ call'.mask = None => Positions(ReducedShape(D, FALSE)) # {},
                 Value(ReducedShape(D, call'.keepdims), LAMBDA p :
                     (IF start = None THEN 0 ELSE start)
                     + SumOver({q \in Fiber(p, D, call'.keepdims) : shown(q)}, LAMBDA q : val.at[q])))
Accumulate ==
    /\ Is("accumulate")
    /\ Gives(TRUE, Value(val.shape, LAMBDA p :
          SumOver(0..p[call'.d], LAMBDA i : val.at[Replaced(p, call'.d, i)])))
\* A segment ends before the next index, or after one element.
ReduceAt ==
    /\ Is("reduceat")
    /\ LET n == val.shape[call'.d]
           idx == call'.indices
           segment(k) == {i \in idx[k]..n - 1 : i = idx[k] \/ (k < Len(idx) => i < idx[k + 1])}
       IN  Gives(\A k \in DOMAIN idx : idx[k] \in 0..n - 1,
                 Value(Replaced(val.shape, call'.d, Len(idx)), LAMBDA p :
                     SumOver(segment(p[call'.d] + 1), LAMBDA i : val.at[Replaced(p, call'.d, i)])))
\* Of the largest elements the first, in C order along the reduced axes.
ArgMax ==
    /\ Is("argmax")
    /\ LET D == call'.axes
           reduced == SelectSeq([d \in Axes(val) |-> d], LAMBDA d : d \in D)
           lens == [i \in DOMAIN reduced |-> val.shape[reduced[i]]]
           number(q) == CNumber([i \in DOMAIN reduced |-> q[reduced[i]]], lens)
           largest(Q) == {q \in Q : \A o \in Q : val.at[o] <= val.at[q]}
       IN  Gives(\A d \in D : val.shape[d] > 0,
                 Value(ReducedShape(D, call'.keepdims), LAMBDA p :
                     Min({number(q) : q \in largest(Fiber(p, D, call'.keepdims))})))
\* Each index adds its row of values, also an index that is there twice.
At ==
    /\ Is("at")
    /\ LET n == val.shape[1]
           idx == call'.indices
           row == SubSeq(val.shape, 2, Len(val.shape))
           new == Stretched(call'.values, <<Len(idx)>> \o row)
       IN  Gives(/\ val.shape # <<>>
                 /\ \A i \in DOMAIN idx : idx[i] \in -n..n - 1
                 /\ Fits(call'.values.shape, <<Len(idx)>> \o row),
                 Value(val.shape, LAMBDA q : val.at[q]
                     + SumOver({i \in DOMAIN idx : idx[i] \in {q[1], q[1] - n}},
                               LAMBDA i : new.at[<<i - 1>> \o Tail(q)])))
Outer ==
    /\ Is("outer")
    /\ LET n == Len(val.shape)
       IN  Gives(TRUE, Value(val.shape \o call'.other.shape,
                             LAMBDA p : val.at[SubSeq(p, 1, n)] + call'.other.at[SubSeq(p, n + 1, Len(p))]))
Binary ==
    /\ Is("binary")
    /\ LET shapes == {val.shape, call'.other.shape}
           w == call'.other
       IN  Gives(Compatible(shapes),
                 Value(Common(shapes), LAMBDA p : val.at[Behind(p, val.shape)] + w.at[Behind(p, w.shape)]))

Init == val.at \in [Positions(val.shape) -> Int] /\ ~raised

Next == \/ Reshape \/ Ravel \/ Copy \/ Transpose \/ SwapAxes \/ MoveAxis \/ RollAxis \/ Squeeze
        \/ NewAxes \/ Flip \/ Rot90 \/ BroadcastTo \/ GetItem \/ SetItem \/ Concatenate \/ Stack
        \/ ArraySplit \/ Roll \/ Tile \/ Repeat \/ Delete \/ Insert \/ Diagonal \/ Diag \/ Triangle
        \/ Resize \/ Take \/ Compress \/ Put \/ TakeAlong \/ PutAlong \/ FillDiagonal \/ Reduce
        \/ Accumulate \/ ReduceAt \/ ArgMax \/ At \/ Outer \/ Binary

Spec == Init /\ [][Next]_vars
=============================================================================
