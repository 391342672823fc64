----------------------------- MODULE ArrayStore -----------------------------
(***************************************************************************)
(* The memory model of `anionpy.ndarray`: which Python array objects exist, *)
(* which `Arc<Buffer>` each of them reads and writes, through which cells,  *)
(* and what every call that creates, writes, detaches or drops an array     *)
(* does to that sharing.                                                    *)
(*                                                                          *)
(* An array (`PyArray`, whose `inner` is an `NdArray`) is a buffer and a    *)
(* window: the cell of each element, in C order (offset and strides in the  *)
(* code).  Windows are those of one-axis arrays; the empty array and the    *)
(* 0-d array are left out, as is the dtype (writes are already cast).       *)
(* Calls are atomic: every entry point runs under the GIL from the first    *)
(* read to the last write (module WriteLoop opens up the element loop).     *)
(***************************************************************************)
EXTENDS Strided

CONSTANTS
    Handles,     \* identities of Python array objects
    Buffers,     \* identities of heap allocations behind an Arc
    Vals,        \* element values
    MaxLen,      \* longest array considered
    NoHandle,    \* `_base` unset
    NoBuffer,    \* the buffer of an object that does not exist
    Calls        \* the part of the API the caller uses

AllCalls == {"new", "copy", "array", "take", "view", "broadcast_to", "asarray",
             "reshape_copy", "pos", "base", "del", "setitem", "copyto",
             "inplace", "cow", "sort", "sort_desc", "fill", "imatmul",
             "shuffle_1d", "shuffle_nd"}

ASSUME ArrayStoreAssumption ==
    /\ MaxLen \in Nat \ {0}
    /\ NoHandle \notin Handles
    /\ NoBuffer \notin Buffers
    /\ Calls \subseteq AllCalls

VARIABLES
    named,   \* arrays some Python name (or container) refers to
    arr,     \* the PyArray of each handle
    mem,     \* the elements of each allocated buffer
    kin      \* history variable: the arrays NumPy's view contract says share
             \* memory with this one

vars == <<named, arr, mem, kin>>

-----------------------------------------------------------------------------
Lengths == 1..MaxLen
Windows == UNION {[1..n -> 1..MaxLen] : n \in Lengths}
Contents == UNION {[1..n -> Vals] : n \in 0..MaxLen}

ArrayRec == [buf : Buffers \cup {NoBuffer}, win : Windows \cup {<<>>},
             base : Handles \cup {NoHandle}, ro : BOOLEAN]

Dead == [buf |-> NoBuffer, win |-> <<>>, base |-> NoHandle, ro |-> FALSE]

Live == {h \in Handles : arr[h].buf # NoBuffer}

\* What reading array h gives.
Content(h) == [i \in DOMAIN arr[h].win |-> mem[arr[h].buf][arr[h].win[i]]]

\* Positions an index array may name, repeats allowed.
IndexArrays(n) == UNION {[1..m -> 1..n] : m \in Lengths}

\* Mutation of Root: a view of a view keeps the view as its base.
RootIsParent(g) == g

\* `attach_base`: the parent's own base when it has one, else the parent.
Root(g) == IF arr[g].base = NoHandle THEN g ELSE arr[g].base

Sharers(b) == {h \in Handles : arr[h].buf = b}
FreeBuffers == {b \in Buffers : Sharers(b) = {}}

\* The state after a call: the objects nobody can reach any more (no name and
\* no `_base` of a named array) are dropped, and a buffer goes with its last
\* Arc.
Become(n, A, M, K) ==
    LET keep == {h \in Handles : /\ A[h].buf # NoBuffer
                                 /\ h \in n \/ \E g \in n : A[g].base = h}
    IN  /\ named' = n
        /\ arr' = [h \in Handles |-> IF h \in keep THEN A[h] ELSE Dead]
        /\ mem' = [b \in Buffers |->
                     IF \E h \in keep : A[h].buf = b THEN M[b] ELSE <<>>]
        /\ kin' = [h \in Handles |-> IF h \in keep THEN K[h] \cap keep ELSE {}]

Init ==
    /\ named = {}
    /\ arr = [h \in Handles |-> Dead]
    /\ mem = [b \in Buffers |-> <<>>]
    /\ kin = [h \in Handles |-> {}]

-----------------------------------------------------------------------------
(* Creation.                                                                *)

\* The object h appears, named, owning buffer b with elements c and seen
\* through window w.
Own(h, b, c, w) ==
    Become(named \cup {h},
           [arr EXCEPT ![h] = [buf |-> b, win |-> w, base |-> NoHandle, ro |-> FALSE]],
           [mem EXCEPT ![b] = c],
           [kin EXCEPT ![h] = {h}])

\* The object h appears as another window on the buffer of g.
Alias(h, g, w, base, ro, K) ==
    Become(named \cup {h},
           [arr EXCEPT ![h] = [buf |-> arr[g].buf, win |-> w, base |-> base, ro |-> ro]],
           mem, K)

\* Constructors (`zeros`, `array(list)`) and every call that computes a result
\* into a buffer of its own (ufuncs, reductions).
New(h, c) ==
    /\ "new" \in Calls
    /\ h \notin Live
    /\ \E b \in FreeBuffers : Own(h, b, c, Whole(Len(c)))

\* Mutation of Copy: a contiguous source is handed out without copying it.
CopyShares(h, g) ==
    /\ "copy" \in Calls
    /\ h \notin Live /\ g \in named
    /\ Alias(h, g, arr[g].win, NoHandle, FALSE, [kin EXCEPT ![h] = {h}])

\* `a.copy()`, `flatten`, `astype`: a fresh contiguous buffer.
Copy(h, g) ==
    /\ "copy" \in Calls
    /\ h \notin Live /\ g \in named
    /\ \E b \in FreeBuffers : Own(h, b, Content(g), Whole(Len(arr[g].win)))

\* Mutation of ArrayCall: the lazy clone is not detached.
ArrayCallLazy(h, g) ==
    /\ "array" \in Calls
    /\ h \notin Live /\ g \in named
    /\ Alias(h, g, arr[g].win, NoHandle, FALSE, [kin EXCEPT ![h] = {h}])

\* Mutation of ArrayCall: only the elements seen are copied, under the old window.
ArrayCallTrims(h, g) ==
    /\ "array" \in Calls
    /\ h \notin Live /\ g \in named
    /\ \E b \in FreeBuffers : Own(h, b, Content(g), arr[g].win)

\* `array(a)`: the lazy Arc clone is detached at once, which copies the WHOLE
\* buffer and keeps the window.
ArrayCall(h, g) ==
    /\ "array" \in Calls
    /\ h \notin Live /\ g \in named
    /\ \E b \in FreeBuffers : Own(h, b, mem[arr[g].buf], arr[g].win)

\* `a[idx]` with an index array: a gather into a fresh buffer.
Take(h, g, idx) ==
    /\ "take" \in Calls
    /\ h \notin Live /\ g \in named
    /\ \E b \in FreeBuffers :
          Own(h, b, [i \in DOMAIN idx |-> Content(g)[idx[i]]], Whole(Len(idx)))

KinJoins(h, g) ==
    [x \in Handles |-> IF x = h THEN kin[g] \cup {h}
                       ELSE IF x \in kin[g] THEN kin[x] \cup {h} ELSE kin[x]]

\* `a[slice]`, `.T`, `reshape`/`ravel`/`squeeze` that need no copy: a view with
\* a base.  `_readonly` is not inherited.
View(h, g, sel) ==
    /\ "view" \in Calls
    /\ h \notin Live /\ g \in named
    /\ Alias(h, g, [i \in DOMAIN sel |-> arr[g].win[sel[i]]], Root(g), FALSE,
             KinJoins(h, g))

\* `broadcast_to`: a view, of stride 0 when one element is repeated, marked
\* read-only.
BroadcastTo(h, g, n) ==
    /\ "broadcast_to" \in Calls
    /\ h \notin Live /\ g \in named
    /\ Broadcasts(arr[g].win, n)
    /\ Alias(h, g, Broadcast(arr[g].win, n), Root(g), TRUE, KinJoins(h, g))

\* `asarray(a)` and `array(a, copy=False)`: a second object on the same buffer,
\* without a base.
AsArray(h, g) ==
    /\ "asarray" \in Calls
    /\ h \notin Live /\ g \in named
    /\ Alias(h, g, arr[g].win, NoHandle, FALSE, KinJoins(h, g))

\* `+a`: the NdArray is cloned, which clones the Arc.
Pos(h, g) ==
    /\ "pos" \in Calls
    /\ h \notin Live /\ g \in named
    /\ Alias(h, g, arr[g].win, NoHandle, FALSE, [kin EXCEPT ![h] = {h}])

\* Mutation of ReshapeCopy: the copy is based on the array it was made from.
ReshapeCopyOfSource(h, o, g) ==
    /\ "reshape_copy" \in Calls
    /\ h \notin Live /\ o \notin Live /\ h # o /\ g \in named
    /\ \E b \in FreeBuffers :
          Become(named \cup {h},
                 [arr EXCEPT ![h] = [buf |-> b, win |-> Whole(Len(arr[g].win)),
                                     base |-> Root(g), ro |-> FALSE]],
                 [mem EXCEPT ![b] = Content(g)],
                 [kin EXCEPT ![h] = {h}])

\* `reshape(copy=True)` and a reshape that must copy: a hidden owner o is made
\* and h is a view of it; only the base of h keeps o alive.
ReshapeCopy(h, o, g) ==
    /\ "reshape_copy" \in Calls
    /\ h \notin Live /\ o \notin Live /\ h # o /\ g \in named
    /\ \E b \in FreeBuffers :
          LET owner == [buf |-> b, win |-> Whole(Len(arr[g].win)),
                        base |-> NoHandle, ro |-> FALSE]
          IN  Become(named \cup {h},
                     [arr EXCEPT ![o] = owner, ![h] = [owner EXCEPT !.base = o]],
                     [mem EXCEPT ![b] = Content(g)],
                     [kin EXCEPT ![h] = {h, o}, ![o] = {h, o}])

\* `a.base` hands the base to the caller.
GetBase(h) ==
    /\ "base" \in Calls
    /\ h \in named /\ arr[h].base # NoHandle
    /\ Become(named \cup {arr[h].base}, arr, mem, kin)

\* The last name of h goes away.
Del(h) ==
    /\ "del" \in Calls
    /\ h \in named
    /\ Become(named \ {h}, arr, mem, kin)

-----------------------------------------------------------------------------
(* Writers that write through the shared buffer (`shared_buffer_mut`).      *)

\* Mutation of WriteThrough: a shared buffer is cloned before it is written.
WriteDetaches(h, cells, vals) ==
    \E b \in FreeBuffers :
       Become(named, [arr EXCEPT ![h].buf = b],
              [mem EXCEPT ![b] = Assign(mem[arr[h].buf], cells, vals)], kin)

WriteThrough(h, cells, vals) ==
    LET b == arr[h].buf
    IN  Become(named, arr, [mem EXCEPT ![b] = Assign(mem[b], cells, vals)], kin)

\* `a[key] = value`, basic or advanced key: refused on a read-only array; a
\* value on the same buffer is copied first (`unalias`).
SetItem(h, key, val) ==
    /\ "setitem" \in Calls
    /\ h \in named /\ ~arr[h].ro
    /\ Broadcasts(val, Len(key))
    /\ WriteThrough(h, [i \in DOMAIN key |-> arr[h].win[key[i]]],
                    Broadcast(val, Len(key)))

\* `copyto(a, value)`: refused on a read-only array, value materialised first.
CopyTo(h, val) ==
    /\ "copyto" \in Calls
    /\ h \in named /\ ~arr[h].ro
    /\ Broadcasts(val, Len(arr[h].win))
    /\ WriteThrough(h, arr[h].win, Broadcast(val, Len(arr[h].win)))

\* Mutation of InPlace: the result is written contiguously, from the first cell.
InPlaceFromStart(h, c) ==
    /\ "inplace" \in Calls
    /\ h \in named
    /\ Len(c) = Len(arr[h].win)
    /\ WriteThrough(h, Whole(Len(c)), c)

\* `a += x` and `ufunc(..., out=a)`: the result c is computed into a buffer of
\* its own and written over the elements of a.  No read-only check.
InPlace(h, c) ==
    /\ "inplace" \in Calls
    /\ h \in named
    /\ Len(c) = Len(arr[h].win)
    /\ WriteThrough(h, arr[h].win, c)

-----------------------------------------------------------------------------
(* Writers that copy on write (`Arc::make_mut`): an array that shares its   *)
(* buffer moves to a private copy of it before the elements change.         *)

MakeMut(h, data) ==
    IF Sharers(arr[h].buf) = {h}
    THEN Become(named, arr, [mem EXCEPT ![arr[h].buf] = data], kin)
    ELSE \E b \in FreeBuffers :
            Become(named, [arr EXCEPT ![h].buf = b], [mem EXCEPT ![b] = data], kin)

\* `put`, `put_along_axis` with an axis, `fill_diagonal`, `ufunc.at`, `take`/`compress` into
\* `out=`: some elements of h get other values.
CowWrite(h, c) ==
    /\ "cow" \in Calls
    /\ h \in named
    /\ Len(c) = Len(arr[h].win)
    /\ MakeMut(h, Assign(mem[arr[h].buf], arr[h].win, c))

\* c and d have the same elements, each as many times.
SameElements(c, d) ==
    \A v \in Vals : Cardinality({i \in DOMAIN c : c[i] = v})
                    = Cardinality({i \in DOMAIN d : d[i] = v})

\* The elements of c in ascending order.
Sorted(c) ==
    {s \in [DOMAIN c -> Vals] : /\ SameElements(c, s)
                               /\ \A i, j \in DOMAIN c : i < j => s[i] <= s[j]}

\* `a.sort()`.
Sort(h) ==
    /\ "sort" \in Calls
    /\ h \in named
    /\ \E s \in Sorted(Content(h)) :
          MakeMut(h, Assign(mem[arr[h].buf], arr[h].win, s))

\* `reverse_axis_lines`: swaps the first half with the second, counting the
\* strides from the first cell of the buffer (no offset).  A negative index
\* panics at the first swap.
ReversedFromStart(data, w) ==
    LET cell(i) == 1 + w[i] - w[1]
        swapped == [i \in DOMAIN w |-> cell(i)]
    IN  IF cell(Len(w)) < 1
        THEN data
        ELSE Assign(data, swapped, [i \in DOMAIN w |-> data[cell(Len(w) + 1 - i)]])

\* `a.sort(descending=True)` of an integer or bool array.
SortDescending(h) ==
    /\ "sort_desc" \in Calls
    /\ h \in named
    /\ \E s \in Sorted(Content(h)) :
          MakeMut(h, ReversedFromStart(Assign(mem[arr[h].buf], arr[h].win, s),
                                       arr[h].win))

\* `Generator.shuffle(x)`, one axis: the whole buffer is permuted, not only
\* the window of x.
Shuffle1D(h, p) ==
    /\ "shuffle_1d" \in Calls
    /\ h \in named
    /\ DOMAIN p = DOMAIN mem[arr[h].buf]
    /\ MakeMut(h, [i \in DOMAIN p |-> mem[arr[h].buf][p[i]]])

-----------------------------------------------------------------------------
(* Writers that rebind `self.inner` to a fresh contiguous buffer; `_base`   *)
(* and `_readonly` stay what they were.                                     *)

Rebind(h, c) ==
    \E b \in FreeBuffers :
        Become(named,
               [arr EXCEPT ![h].buf = b, ![h].win = Whole(Len(c))],
               [mem EXCEPT ![b] = c], kin)

\* `a.fill(v)`.
Fill(h, v) ==
    /\ "fill" \in Calls
    /\ h \in named
    /\ Rebind(h, [i \in DOMAIN arr[h].win |-> v])

\* `a @= b`.
IMatMul(h, c) ==
    /\ "imatmul" \in Calls
    /\ h \in named
    /\ Len(c) = Len(arr[h].win)
    /\ Rebind(h, c)

\* `Generator.shuffle(x, axis)` of a two-axis array.
ShuffleND(h, p) ==
    /\ "shuffle_nd" \in Calls
    /\ h \in named
    /\ DOMAIN p = DOMAIN arr[h].win
    /\ Rebind(h, [i \in DOMAIN p |-> Content(h)[p[i]]])

-----------------------------------------------------------------------------
NonEmpty == Contents \ {<<>>}
Perms(n) == {p \in [1..n -> 1..n] : \A i, j \in 1..n : i # j => p[i] # p[j]}
AnyPerm == UNION {Perms(n) : n \in Lengths}
\* What an assignment may be given: elements of any origin.
Values == NonEmpty

Create ==
    \E h \in Handles :
       \/ \E c \in NonEmpty : New(h, c)
       \/ \E g \in named :
             \/ Copy(h, g)
             \/ ArrayCall(h, g)
             \/ \E idx \in IndexArrays(Len(arr[g].win)) : Take(h, g, idx)
             \/ \E sel \in Slices(Len(arr[g].win)) : View(h, g, sel)
             \/ \E n \in Lengths : BroadcastTo(h, g, n)
             \/ AsArray(h, g)
             \/ Pos(h, g)
             \/ \E o \in Handles : ReshapeCopy(h, o, g)

Names == \E h \in named : GetBase(h) \/ Del(h)

Write ==
    \E h \in named :
       \/ \E key \in IndexArrays(Len(arr[h].win)), val \in Values : SetItem(h, key, val)
       \/ \E val \in Values : CopyTo(h, val)
       \/ \E c \in Values : InPlace(h, c)
       \/ \E c \in Values : CowWrite(h, c)
       \/ Sort(h)
       \/ SortDescending(h)
       \/ \E p \in AnyPerm : Shuffle1D(h, p)
       \/ \E v \in Vals : Fill(h, v)
       \/ \E c \in Values : IMatMul(h, c)
       \/ \E p \in AnyPerm : ShuffleND(h, p)

Next == Create \/ Names \/ Write

Spec == Init /\ [][Next]_vars

-----------------------------------------------------------------------------
(* Properties.                                                              *)

\* Types of the state.
TypeOK ==
    /\ named \subseteq Handles
    /\ arr \in [Handles -> ArrayRec]
    /\ mem \in [Buffers -> Contents]
    /\ kin \in [Handles -> SUBSET Handles]

\* No array ever indexes outside its buffer, whatever views, copies, detaches
\* and rebinds led to it: the unchecked pointer write of `shared_buffer_mut`
\* and every strided read rely on it.
InBounds ==
    \A h \in Live : \A i \in DOMAIN arr[h].win :
        arr[h].win[i] \in DOMAIN mem[arr[h].buf]

\* `attach_base` never leaves a chain of bases: the base of a live array is
\* itself a live array without a base.
BaseIsRoot ==
    \A h \in Live : arr[h].base # NoHandle =>
        /\ arr[h].base \in Live \ {h}
        /\ arr[arr[h].base].base = NoHandle

\* Two arrays on one buffer are arrays that NumPy's view contract lets share
\* memory: `array()`, `copy()`, an advanced index, a detach or a rebind never
\* leaves an accidental alias behind.
StrangersNeverShare ==
    \A g, h \in Live : arr[g].buf = arr[h].buf => h \in kin[g]

\* The converse: once two arrays share memory by contract they share it for
\* life, so a write through one is visible through the other.
KinShare ==
    \A g, h \in Live : h \in kin[g] => arr[g].buf = arr[h].buf

\* `_base` names the owner of the memory the array really uses.
BaseOwnsBuffer ==
    \A h \in Live : arr[h].base # NoHandle => arr[arr[h].base].buf = arr[h].buf

\* NumPy's view contract (module ViewContract): an array's region is its buffer.
VC == INSTANCE ViewContract WITH
        Regions <- Buffers, NoRegion <- NoBuffer,
        region <- [h \in Handles |-> arr[h].buf],
        win <- [h \in Handles |-> arr[h].win],
        data <- mem

\* With the writers that write through, the store implements the contract: a
\* view keeps seeing its parent's memory for life, and a write through either
\* reaches exactly the cells of the window it goes through.
ImplementsViewContract == VC!Contract

\* One call never changes what two arrays hold unless the contract makes them
\* share memory.
WritesStayInKin ==
    [][\A g, h \in Live :
          (/\ g \in Live' /\ h \in Live'
           /\ Content(g)' # Content(g) /\ Content(h)' # Content(h))
          => h \in kin[g]]_vars

\* "Values are reordered within the array's OWN existing strides/offset": after
\* an in-place sort the array holds the elements it held before.
SortKeepsElements ==
    [][\A h \in named : Sort(h) \/ SortDescending(h)
                         => SameElements(Content(h), Content(h)')]_vars
=============================================================================
