------------------------------- MODULE Strided -------------------------------
(***************************************************************************)
(* Windows on a buffer and what a sequence of element writes does to it.    *)
(* A window is the sequence of the cells of an array's elements, in C order *)
(* (what offset, strides and `NdIter` describe in the code).                *)
(***************************************************************************)
EXTENDS Integers, Sequences, FiniteSetsExt

\* Mutation of Whole: positions counted from zero.
WholeFromZero(n) == [i \in 1..n |-> i - 1]

\* The window of a fresh contiguous array: one cell per element, from the first.
Whole(n) == [i \in 1..n |-> i]

\* Basic slices of a length-n axis: arithmetic progressions of positions.
Slices(n) ==
    {s \in UNION {[1..m -> 1..n] : m \in 1..n} :
       \E step \in (-n..n) \ {0} : \A i \in DOMAIN s : s[i] = s[1] + (i - 1) * step}

\* A shape of one element broadcasts, one of the same length is used as it is.
Broadcasts(s, n) == Len(s) \in {1, n}
Broadcast(s, n) == [i \in 1..n |-> IF Len(s) = 1 THEN s[1] ELSE s[i]]

\* Writing vals, element after element, to the cells of the (partial) window
\* `cells`: of the values that meet in a cell the last one stays.
Assign(data, cells, vals) ==
    [c \in DOMAIN data |->
        LET hits == {i \in DOMAIN cells : cells[i] = c}
        IN  IF hits = {} THEN data[c] ELSE vals[Max(hits)]]
=============================================================================
