------------------------------ MODULE WriteLoop ------------------------------
(***************************************************************************)
(* The element loop under every write: `write_out` and `scatter` copy the   *)
(* elements one after the other, while the buffer they read may be the      *)
(* buffer they write.  Each entry point decides, before the loop, whether   *)
(* it reads its source live or from a private copy.                         *)
(*                                                                          *)
(* The mask of `copyto` is a private copy; the `where=` mask of a ufunc with *)
(* `out=` is a live view, read element by element like a live source.       *)
(***************************************************************************)
EXTENDS Strided

CONSTANTS
    Buffers,      \* allocations
    Size,         \* cells of each of them
    MaxLen,       \* longest window written
    Vals,         \* element values
    True,         \* the element value that means true in a mask
    Op(_, _),     \* the elementwise operation of an in-place operator
    Entries       \* the entry points the caller uses

ASSUME WriteLoopAssumption ==
    /\ Size \in Nat \ {0} /\ MaxLen \in Nat \ {0}
    /\ \A x, y \in Vals : Op(x, y) \in Vals
    /\ Entries \subseteq {"setitem", "scatter", "copyto", "inplace",
                          "identity", "identity_overlap",
                          "where", "where_overlap"}

VARIABLES
    mem,    \* the buffers
    call,   \* the write in progress
    k,      \* elements it has visited
    old,    \* history variable: mem when the call began
    want    \* history variable: the values to write, as read at that moment

vars == <<mem, call, k, old, want>>

Cells == 1..Size
Windows == UNION {[1..n -> Cells] : n \in 1..MaxLen}
\* The windows of views: slices of a buffer and broadcasts of one element.
Views == {w \in Slices(Size) : Len(w) <= MaxLen}
         \cup UNION {{[i \in 1..n |-> c] : c \in Cells} : n \in 1..MaxLen}

Idle == [kind |-> "idle"]

\* A call in its loop: cells `dst` of buffer `to` are written at the positions
\* `take`, from `vals` when the source was copied, else from `src` in `from`.
\* With a live mask, `mask` is its window on buffer `maskbuf` and `take` records
\* what it selected when the call began; without one `mask` is empty.
LoopRec == [kind : {"loop"}, to : Buffers, dst : Windows,
            take : SUBSET (1..MaxLen), staged : BOOLEAN,
            vals : UNION {[1..n -> Vals] : n \in 1..MaxLen},
            from : Buffers, src : Windows,
            maskbuf : Buffers, mask : Windows \cup {<<>>}]

Init ==
    /\ mem \in [Buffers -> [Cells -> Vals]]
    /\ call = Idle /\ k = 0 /\ old = mem /\ want = <<>>

-----------------------------------------------------------------------------
Read(b, w) == [i \in DOMAIN w |-> mem[b][w[i]]]

\* The entry point has validated and prepared its operands; the loop starts.
Enter(to, dst, take, staged, vals, from, src, maskbuf, mask) ==
    /\ call' = [kind |-> "loop", to |-> to, dst |-> dst, take |-> take,
                staged |-> staged, vals |-> vals, from |-> from, src |-> src,
                maskbuf |-> maskbuf, mask |-> mask]
    /\ k' = 0 /\ old' = mem /\ want' = vals
    /\ UNCHANGED mem

\* ... from values that have a buffer of their own,
EnterStaged(to, dst, take, vals) ==
    Enter(to, dst, take, TRUE, vals, to, dst, to, <<>>)

\* ... or reading the source as the loop goes.
EnterLive(to, dst, take, from, src) ==
    Enter(to, dst, take, FALSE, Read(from, src), from, src, to, <<>>)

\* Mutation of SetItem: the value is not unaliased.
SetItemLive(to, dst, from, src) ==
    /\ "setitem" \in Entries
    /\ dst \in Views
    /\ EnterLive(to, dst, DOMAIN dst, from, src)

\* `a[slice] = value`: `unalias` copies a value on the same buffer.
SetItem(to, dst, from, src) ==
    /\ "setitem" \in Entries
    /\ dst \in Views
    /\ IF from = to THEN EnterStaged(to, dst, DOMAIN dst, Read(from, src))
                    ELSE EnterLive(to, dst, DOMAIN dst, from, src)

\* `a[index array] = value`: `unalias` again, and `scatter` stages the value
\* when the buffers are the same; positions may repeat.
Scatter(to, dst, from, src) ==
    /\ "scatter" \in Entries
    /\ IF from = to THEN EnterStaged(to, dst, DOMAIN dst, Read(from, src))
                    ELSE EnterLive(to, dst, DOMAIN dst, from, src)

\* `copyto(a, value, where=mask)`: the source is always materialised.
CopyTo(to, dst, take, from, src) ==
    /\ "copyto" \in Entries
    /\ dst \in Views
    /\ EnterStaged(to, dst, take, Read(from, src))

\* `a op= x` and `ufunc(a, x, out=a)`: the result has a buffer of its own.
InPlace(to, dst, take, from, src) ==
    /\ "inplace" \in Entries
    /\ dst \in Views
    /\ EnterStaged(to, dst, take,
                   [i \in DOMAIN dst |-> Op(mem[to][dst[i]], mem[from][src[i]])])

\* `positive(x, out=a)`, and `floor`, `ceil`, `trunc`, `conj` of the dtypes they
\* leave alone: the "result" is a clone that shares the buffer of x.
Identity(to, dst, take, from, src) ==
    /\ "identity" \in Entries
    /\ from = to => "identity_overlap" \in Entries
    /\ dst \in Views
    /\ EnterLive(to, dst, take, from, src)

\* The positions a mask selects.
Selected(b, mask) == {i \in DOMAIN mask : mem[b][mask[i]] = True}

\* `ufunc(a, x, out=b, where=mask)`: the values have a buffer of their own, the
\* mask is extracted as the view it is, on whatever buffer it lies.
OutWhere(to, dst, from, src, maskbuf, mask) ==
    /\ "where" \in Entries
    /\ maskbuf = to => "where_overlap" \in Entries
    /\ dst \in Views
    /\ Enter(to, dst, Selected(maskbuf, mask), TRUE, Read(from, src),
             to, dst, maskbuf, mask)

\* Does the loop write element i?
Writes(i) == IF call.mask = <<>> THEN i \in call.take
             ELSE mem[call.maskbuf][call.mask[i]] = True

\* Mutation of Element: a masked-out element does not advance the iterators.
ElementStalls ==
    /\ call # Idle
    /\ k < Len(call.dst)
    /\ Writes(k + 1)
    /\ mem' = [mem EXCEPT ![call.to][call.dst[k + 1]] =
                  IF call.staged THEN call.vals[k + 1] ELSE mem[call.from][call.src[k + 1]]]
    /\ k' = k + 1
    /\ UNCHANGED <<call, old, want>>

\* One iteration of the loop.
Element ==
    /\ call # Idle
    /\ k < Len(call.dst)
    /\ LET i == k + 1
           v == IF call.staged THEN call.vals[i] ELSE mem[call.from][call.src[i]]
       IN  mem' = IF Writes(i)
                  THEN [mem EXCEPT ![call.to][call.dst[i]] = v]
                  ELSE mem
    /\ k' = k + 1
    /\ UNCHANGED <<call, old, want>>

Return ==
    /\ call # Idle
    /\ k = Len(call.dst)
    /\ call' = Idle /\ k' = 0 /\ old' = mem /\ want' = <<>>
    /\ UNCHANGED mem

Begin ==
    /\ call = Idle
    /\ \E to, from \in Buffers, dst \in Windows, src \in Views :
          /\ Len(src) = Len(dst)
          /\ \/ SetItem(to, dst, from, src)
             \/ Scatter(to, dst, from, src)
             \/ \E take \in SUBSET DOMAIN dst :
                   \/ CopyTo(to, dst, take, from, src)
                   \/ InPlace(to, dst, take, from, src)
                   \/ Identity(to, dst, take, from, src)
             \/ \E maskbuf \in Buffers, mask \in Views :
                   /\ Len(mask) = Len(dst)
                   /\ OutWhere(to, dst, from, src, maskbuf, mask)

Next == Begin \/ Element \/ Return

\* A loop runs to its end in the thread that entered it: it waits for nothing.
Spec == Init /\ [][Next]_vars /\ WF_vars(Element) /\ WF_vars(Return)

-----------------------------------------------------------------------------
TypeOK ==
    /\ mem \in [Buffers -> [Cells -> Vals]]
    /\ old \in [Buffers -> [Cells -> Vals]]
    /\ call \in LoopRec \cup {Idle}
    /\ k \in 0..MaxLen

\* The positions of the window visited so far and not masked out.
Done == [i \in call.take \cap (1..k) |-> call.dst[i]]

\* At every moment of the loop the buffers are what assigning the values read
\* at the START of the call gives: no element written earlier in the loop is
\* ever read back as a source (`a[1:] = a[:-1]` does not cascade), masked
\* elements and cells outside the window are untouched, and of repeated
\* positions the last one wins.
SnapshotSemantics ==
    call # Idle =>
        mem = [old EXCEPT ![call.to] = Assign(old[call.to], Done, want)]

\* Every write returns, whatever its mask leaves out: each iteration advances
\* the iterators of destination, source and mask together.
Returns == call # Idle ~> call = Idle
=============================================================================
