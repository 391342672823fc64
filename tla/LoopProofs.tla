----------------------------- MODULE LoopProofs -----------------------------
(***************************************************************************)
(* Proofs about the two machines under an elementwise call.                 *)
(*                                                                          *)
(* WriteLoop, for any buffers, window lengths, element values and           *)
(* elementwise operation: callers for whom no identity-like ufunc reads the *)
(* buffer it writes, and no `where=` mask lies on it, get the result of one *)
(* simultaneous assignment, however source and destination overlap.         *)
(*                                                                          *)
(* ErrState, for any number of threads, errstate objects, categories, modes *)
(* and any nesting.  Types hold however the objects are used; that a block  *)
(* restores the state it found needs callers who never enter an object that *)
(* is still entered (~Shared).                                              *)
(***************************************************************************)
EXTENDS WriteLoop, ErrState, SequenceTheorems, WellFoundedInduction, TLAPS

-----------------------------------------------------------------------------
(* The element loop.                                                         *)

\* The largest of a set that has one.
LEMMA MaxIs ==
    ASSUME NEW S \in SUBSET Int, NEW m \in S, \A x \in S : x <= m
    PROVE  Max(S) = m
  <1> DEFINE top(x) == \A y \in S : x >= y
  <1>1. m \in Int /\ \A y \in S : y \in Int /\ m >= y
    OBVIOUS
  <1>2. top(m) /\ Max(S) = CHOOSE x \in S : top(x)
    BY <1>1 DEF Max
  <1>3. Max(S) \in S /\ top(Max(S))
    <2> HIDE DEF top
    <2>1. QED
      BY <1>2
  <1>4. Max(S) \in Int /\ m >= Max(S)
    BY <1>1, <1>3
  <1>5. Max(S) >= m
    <2> HIDE DEF Max
    <2>1. QED
      BY <1>3
  <1>6. QED
    BY <1>4, <1>5

\* The first k elements of a window, less the masked ones.
Visited(dst, take, n) == [i \in take \cap (1..n) |-> dst[i]]

\* Assign keeps the cells it has, and assigning nothing changes nothing.
LEMMA AssignNothing ==
    ASSUME NEW data, data = [c \in DOMAIN data |-> data[c]], NEW vals,
           NEW dst, NEW take
    PROVE  Assign(data, Visited(dst, take, 0), vals) = data
  <1>1. take \cap (1..0) = {}
    OBVIOUS
  <1>2. DOMAIN Visited(dst, take, 0) = {}
    BY <1>1 DEF Visited
  <1>3. QED
    BY <1>2 DEF Assign

\* A masked element is passed over.
LEMMA AssignMasked ==
    ASSUME NEW data, NEW vals, NEW dst, NEW take, NEW n \in Nat, n + 1 \notin take
    PROVE  Assign(data, Visited(dst, take, n + 1), vals)
           = Assign(data, Visited(dst, take, n), vals)
  <1>1. take \cap (1..(n + 1)) = take \cap (1..n)
    OBVIOUS
  <1>2. QED
    BY <1>1 DEF Visited

\* Assigning one more element overwrites its cell, whatever was there.
LEMMA AssignNext ==
    ASSUME NEW data, NEW vals, NEW dst, NEW take \in SUBSET Int, NEW n \in Nat,
           n + 1 \in take
    PROVE  Assign(data, Visited(dst, take, n + 1), vals)
           = [Assign(data, Visited(dst, take, n), vals)
                EXCEPT ![dst[n + 1]] = vals[n + 1]]
  <1> DEFINE I(j) == take \cap (1..j)
             hits(c, j) == {i \in I(j) : dst[i] = c}
             cell(c, j) == IF hits(c, j) = {} THEN data[c] ELSE vals[Max(hits(c, j))]
  <1>1. \A j : Assign(data, Visited(dst, take, j), vals) = [c \in DOMAIN data |-> cell(c, j)]
    <2> TAKE j
    <2>1. DOMAIN Visited(dst, take, j) = I(j)
      BY DEF Visited
    <2>2. \A c : {i \in DOMAIN Visited(dst, take, j) : Visited(dst, take, j)[i] = c}
                 = hits(c, j)
      BY <2>1 DEF Visited
    <2>3. QED
      BY <2>2 DEF Assign
  <1>2. I(n + 1) = I(n) \cup {n + 1}
    OBVIOUS
  <1>3. \A c : c # dst[n + 1] => hits(c, n + 1) = hits(c, n)
    BY <1>2
  <1>4. Max(hits(dst[n + 1], n + 1)) = n + 1 /\ hits(dst[n + 1], n + 1) # {}
    <2>1. /\ hits(dst[n + 1], n + 1) \in SUBSET Int
          /\ n + 1 \in hits(dst[n + 1], n + 1)
          /\ \A x \in hits(dst[n + 1], n + 1) : x <= n + 1
      OBVIOUS
    <2>2. QED
      BY <2>1, MaxIs
  <1>5. cell(dst[n + 1], n + 1) = vals[n + 1]
    BY <1>4
  <1>6. \A c : c # dst[n + 1] => cell(c, n + 1) = cell(c, n)
    BY <1>3
  <1> HIDE DEF cell
  <1>7. QED
    BY <1>1, <1>5, <1>6

\* The loop in progress is over two windows of one length.  Either its values
\* were staged, or it reads one buffer and writes another: then the buffer it
\* reads still is what it was when the call began.  A live mask is on another
\* buffer too, so it selects what it selected then.
LoopInv ==
    call # Idle =>
        /\ call \in LoopRec
        /\ Len(call.src) = Len(call.dst)
        /\ call.take \subseteq DOMAIN call.dst
        /\ call.vals = want
        /\ DOMAIN want = DOMAIN call.dst
        /\ k \in 0..Len(call.dst)
        /\ call.staged \/ (/\ call.from # call.to
                          /\ \A i \in DOMAIN want : want[i] = old[call.from][call.src[i]])
        /\ call.mask = <<>> \/ (/\ call.maskbuf # call.to
                               /\ call.mask \in Windows
                               /\ Len(call.mask) = Len(call.dst)
                               /\ \A i \in DOMAIN call.dst :
                                    i \in call.take
                                      <=> old[call.maskbuf][call.mask[i]] = True)

\* What every state of the loop satisfies.
Inv == TypeOK /\ LoopInv /\ SnapshotSemantics

\* The initial state, before any call.
LEMMA LoopInit == Init => Inv
  BY WriteLoopAssumption DEF Init, Inv, TypeOK, LoopInv, SnapshotSemantics, Idle

\* A window is a sequence of 1 to MaxLen cells.
LEMMA WindowFacts ==
    ASSUME NEW w \in Windows
    PROVE  /\ Len(w) \in 1..MaxLen /\ DOMAIN w = 1..Len(w)
           /\ \A i \in DOMAIN w : w[i] \in Cells
  <1>1. PICK n \in 1..MaxLen : w \in [1..n -> Cells]
    BY DEF Windows
  <1>2. DOMAIN w = 1..n /\ n \in Nat
    BY <1>1
  <1>3. Len(w) = n
    BY <1>2
  <1>4. QED
    BY <1>1, <1>2, <1>3

\* What reading through a window gives.
LEMMA ReadFacts ==
    ASSUME TypeOK, NEW b \in Buffers, NEW w \in Windows
    PROVE  /\ Read(b, w) \in [DOMAIN w -> Vals]
           /\ \A i \in DOMAIN w : Read(b, w)[i] = mem[b][w[i]]
  BY WindowFacts DEF Read, TypeOK

\* Whatever entry point starts a loop, it starts it in the invariant.
LEMMA EnterStep ==
    ASSUME Inv, NEW to \in Buffers, NEW dst \in Windows, NEW take \in SUBSET DOMAIN dst,
           NEW staged \in BOOLEAN, NEW vals \in [DOMAIN dst -> Vals],
           NEW from \in Buffers, NEW src \in Windows,
           NEW maskbuf \in Buffers, NEW mask \in Windows \cup {<<>>},
           Len(src) = Len(dst),
           staged \/ (from # to /\ vals = Read(from, src)),
           mask = <<>> \/ (/\ maskbuf # to /\ mask \in Windows
                           /\ Len(mask) = Len(dst) /\ take = Selected(maskbuf, mask)),
           Enter(to, dst, take, staged, vals, from, src, maskbuf, mask)
    PROVE  Inv'
  <1>1. /\ Len(dst) \in 1..MaxLen /\ DOMAIN dst = 1..Len(dst) /\ DOMAIN src = DOMAIN dst
        /\ MaxLen \in Nat
    BY WindowFacts, WriteLoopAssumption
  <1>2. vals \in UNION {[1..n -> Vals] : n \in 1..MaxLen}
    BY <1>1
  <1>3. take \in SUBSET (1..MaxLen)
    BY <1>1
  <1>4. call' \in LoopRec
    BY <1>2, <1>3 DEF Enter, LoopRec
  <1>5. call' = [kind |-> "loop", to |-> to, dst |-> dst, take |-> take,
                 staged |-> staged, vals |-> vals, from |-> from, src |-> src,
                 maskbuf |-> maskbuf, mask |-> mask]
        /\ k' = 0 /\ old' = mem /\ want' = vals /\ mem' = mem
    BY DEF Enter
  <1>6. TypeOK'
    BY <1>1, <1>4, <1>5 DEF Inv, TypeOK
  <1>7. LoopInv'
    <2>1. staged \/ (from # to /\ \A i \in DOMAIN vals : vals[i] = mem[from][src[i]])
      BY <1>1, ReadFacts DEF Inv
    <2>2. mask = <<>> \/ \A i \in DOMAIN dst : i \in take <=> mem[maskbuf][mask[i]] = True
      <3>1. CASE mask # <<>>
        <4>1. DOMAIN mask = DOMAIN dst
          BY <1>1, <3>1, WindowFacts
        <4>2. QED
          BY <3>1, <4>1 DEF Selected
      <3>2. QED
        BY <3>1
    <2>3. QED
      BY <1>1, <1>4, <1>5, <2>1, <2>2 DEF LoopInv
  <1>8. SnapshotSemantics'
    <2>1. Done' = Visited(dst, take, 0)
      BY <1>5 DEF Done, Visited
    <2>2. mem[to] = [c \in DOMAIN mem[to] |-> mem[to][c]]
      BY DEF Inv, TypeOK
    <2>3. Assign(mem[to], Visited(dst, take, 0), vals) = mem[to]
      BY <2>2, AssignNothing
    <2>4. mem = [mem EXCEPT ![to] = mem[to]]
      BY DEF Inv, TypeOK
    <2>5. QED
      BY <1>5, <2>1, <2>3, <2>4 DEF SnapshotSemantics
  <1>9. QED
    BY <1>6, <1>7, <1>8 DEF Inv

\* The two ways in without a mask.
LEMMA EnterStagedStep ==
    ASSUME Inv, NEW to \in Buffers, NEW dst \in Windows, NEW take \in SUBSET DOMAIN dst,
           NEW vals \in [DOMAIN dst -> Vals], EnterStaged(to, dst, take, vals)
    PROVE  Inv'
  <1>1. Enter(to, dst, take, TRUE, vals, to, dst, to, <<>>)
    BY DEF EnterStaged
  <1>2. QED
    BY <1>1, EnterStep

LEMMA EnterLiveStep ==
    ASSUME Inv, NEW to \in Buffers, NEW dst \in Windows, NEW take \in SUBSET DOMAIN dst,
           NEW from \in Buffers, NEW src \in Windows, from # to, Len(src) = Len(dst),
           Read(from, src) \in [DOMAIN dst -> Vals],
           EnterLive(to, dst, take, from, src)
    PROVE  Inv'
  <1>1. Enter(to, dst, take, FALSE, Read(from, src), from, src, to, <<>>)
    BY DEF EnterLive
  <1>2. QED
    BY <1>1, EnterStep

\* Every entry point stages what it must, unless an identity-like ufunc may
\* read the buffer it writes or a mask may lie on it.
LEMMA BeginStep ==
    ASSUME "identity_overlap" \notin Entries, "where_overlap" \notin Entries, Inv, Begin
    PROVE  Inv'
  <1>0. \A w \in Views : w \in Windows
    <2> SUFFICES ASSUME NEW w \in Views PROVE w \in Windows
      OBVIOUS
    <2>1. CASE w \in Slices(Size) /\ Len(w) <= MaxLen
      <3>1. PICK m \in 1..Size : w \in [1..m -> 1..Size]
        BY <2>1 DEF Slices
      <3>2. Len(w) = m /\ m \in 1..MaxLen
        BY <2>1, <3>1, WriteLoopAssumption
      <3>3. QED
        BY <3>1, <3>2 DEF Windows, Cells
    <2>2. CASE w \in UNION {{[i \in 1..n |-> c] : c \in Cells} : n \in 1..MaxLen}
      BY <2>2 DEF Windows
    <2>3. QED
      BY <2>1, <2>2 DEF Views
  <1>1. PICK to \in Buffers, from \in Buffers, dst \in Windows, src \in Views :
          /\ Len(src) = Len(dst)
          /\ \/ SetItem(to, dst, from, src)
             \/ Scatter(to, dst, from, src)
             \/ \E take \in SUBSET DOMAIN dst :
                   \/ CopyTo(to, dst, take, from, src)
                   \/ InPlace(to, dst, take, from, src)
                   \/ Identity(to, dst, take, from, src)
             \/ \E maskbuf \in Buffers, mask \in Views :
                   /\ Len(mask) = Len(dst)
                   /\ OutWhere(to, dst, from, src, maskbuf, mask)
    BY DEF Begin
  <1>2. src \in Windows
    BY <1>0, <1>1
  <1>3. /\ DOMAIN src = DOMAIN dst
        /\ Read(from, src) \in [DOMAIN dst -> Vals]
    <2>1. DOMAIN src = DOMAIN dst
      BY <1>1, <1>2, WindowFacts
    <2>2. QED
      BY <1>2, <2>1, ReadFacts DEF Inv
  <1>4. CASE SetItem(to, dst, from, src) \/ Scatter(to, dst, from, src)
    <2>1. CASE from = to
      <3>1. EnterStaged(to, dst, DOMAIN dst, Read(from, src))
        BY <1>4, <2>1 DEF SetItem, Scatter
      <3>2. QED
        BY <1>3, <3>1, EnterStagedStep
    <2>2. CASE from # to
      <3>1. EnterLive(to, dst, DOMAIN dst, from, src)
        BY <1>4, <2>2 DEF SetItem, Scatter
      <3>2. QED
        BY <1>1, <1>2, <1>3, <2>2, <3>1, EnterLiveStep
    <2>3. QED
      BY <2>1, <2>2
  <1>5. ASSUME NEW take \in SUBSET DOMAIN dst, CopyTo(to, dst, take, from, src)
        PROVE  Inv'
    BY <1>3, <1>5, EnterStagedStep DEF CopyTo
  <1>6. ASSUME NEW take \in SUBSET DOMAIN dst, InPlace(to, dst, take, from, src)
        PROVE  Inv'
    <2> DEFINE vals == [i \in DOMAIN dst |-> Op(mem[to][dst[i]], mem[from][src[i]])]
    <2>1. \A i \in DOMAIN dst : mem[to][dst[i]] \in Vals /\ mem[from][src[i]] \in Vals
      BY <1>2, <1>3, WindowFacts DEF Inv, TypeOK
    <2>2. vals \in [DOMAIN dst -> Vals]
      BY <2>1, WriteLoopAssumption
    <2>3. EnterStaged(to, dst, take, vals)
      BY <1>6 DEF InPlace
    <2> HIDE DEF vals
    <2>4. QED
      BY <2>2, <2>3, EnterStagedStep
  <1>7. ASSUME NEW take \in SUBSET DOMAIN dst, Identity(to, dst, take, from, src)
        PROVE  Inv'
    BY <1>1, <1>2, <1>3, <1>7, EnterLiveStep DEF Identity
  <1>8. ASSUME NEW maskbuf \in Buffers, NEW mask \in Views, Len(mask) = Len(dst),
               OutWhere(to, dst, from, src, maskbuf, mask)
        PROVE  Inv'
    <2>1. /\ maskbuf # to
          /\ Enter(to, dst, Selected(maskbuf, mask), TRUE, Read(from, src),
                   to, dst, maskbuf, mask)
      BY <1>8 DEF OutWhere
    <2>2. mask \in Windows /\ DOMAIN mask = DOMAIN dst
      BY <1>0, <1>8, WindowFacts
    <2>3. Selected(maskbuf, mask) \in SUBSET DOMAIN dst
      BY <2>2 DEF Selected
    <2>4. QED
      BY <1>3, <1>8, <2>1, <2>2, <2>3, EnterStep
  <1>9. QED
    BY <1>1, <1>4, <1>5, <1>6, <1>7, <1>8

\* One iteration writes the value read when the call began.
LEMMA ElementStep ==
    ASSUME Inv, Element
    PROVE  Inv'
  <1> DEFINE n == Len(call.dst)
             i == k + 1
             v == IF call.staged THEN call.vals[i] ELSE mem[call.from][call.src[i]]
             to == call.to
  <1>1. /\ call # Idle /\ k < n /\ k' = k + 1
        /\ call' = call /\ old' = old /\ want' = want
        /\ mem' = IF Writes(i) THEN [mem EXCEPT ![to][call.dst[i]] = v] ELSE mem
    BY DEF Element
  <1>2. /\ call \in LoopRec /\ to \in Buffers /\ call.dst \in Windows
        /\ call.src \in Windows /\ call.from \in Buffers
        /\ call.take \in SUBSET (1..MaxLen)
    BY <1>1 DEF Inv, LoopInv, LoopRec
  <1>3. /\ n \in 1..MaxLen /\ k \in 0..n /\ i \in 1..n
        /\ DOMAIN call.dst = 1..n /\ DOMAIN call.src = 1..n
        /\ call.dst[i] \in Cells /\ call.src[i] \in Cells
        /\ MaxLen \in Nat
    BY <1>1, <1>2, WindowFacts, WriteLoopAssumption DEF Inv, LoopInv
  <1>4. mem = [old EXCEPT ![to] = Assign(old[to], Done, want)]
    BY <1>1 DEF Inv, SnapshotSemantics
  <1>10. Writes(i) <=> i \in call.take
    <2>1. CASE call.mask = <<>>
      BY <2>1 DEF Writes
    <2>2. CASE call.mask # <<>>
      <3>1. /\ call.maskbuf # to /\ call.maskbuf \in Buffers
            /\ i \in call.take <=> old[call.maskbuf][call.mask[i]] = True
        BY <1>1, <1>2, <1>3, <2>2 DEF Inv, LoopInv, LoopRec
      <3>2. mem[call.maskbuf] = old[call.maskbuf]
        BY <1>2, <1>4, <3>1 DEF Inv, TypeOK
      <3>3. QED
        BY <2>2, <3>1, <3>2 DEF Writes
    <2>3. QED
      BY <2>1, <2>2
  <1>5. v = want[i]
    <2>1. CASE call.staged
      BY <1>1, <2>1 DEF Inv, LoopInv
    <2>2. CASE ~call.staged
      <3>1. call.from # to /\ want[i] = old[call.from][call.src[i]]
        BY <1>1, <1>3, <2>2 DEF Inv, LoopInv
      <3>2. mem[call.from] = old[call.from]
        BY <1>2, <1>4, <3>1 DEF Inv, TypeOK
      <3>3. QED
        BY <2>2, <3>1, <3>2
    <2>3. QED
      BY <2>1, <2>2
  <1>6. v \in Vals
    <2>1. CASE call.staged
      <3>1. PICK m \in 1..MaxLen : call.vals \in [1..m -> Vals]
        BY <1>2 DEF LoopRec
      <3>2. DOMAIN call.vals = 1..n
        BY <1>1, <1>3 DEF Inv, LoopInv
      <3>3. QED
        BY <1>3, <2>1, <3>1, <3>2
    <2>2. CASE ~call.staged
      BY <1>2, <1>3, <2>2 DEF Inv, TypeOK
    <2>3. QED
      BY <2>1, <2>2
  <1> HIDE DEF v
  <1>7. TypeOK'
    <2>1. mem' \in [Buffers -> [Cells -> Vals]]
      BY <1>1, <1>2, <1>3, <1>6 DEF Inv, TypeOK
    <2>2. QED
      BY <1>1, <1>3, <2>1 DEF Inv, TypeOK
  <1>8. LoopInv'
    BY <1>1, <1>3 DEF Inv, LoopInv
  <1>9. SnapshotSemantics'
    <2> DEFINE before == Assign(old[to], Visited(call.dst, call.take, k), want)
               after == Assign(old[to], Visited(call.dst, call.take, k + 1), want)
    <2>1. Done = Visited(call.dst, call.take, k)
          /\ Done' = Visited(call.dst, call.take, k + 1)
      BY <1>1 DEF Done, Visited
    <2>2. mem = [old EXCEPT ![to] = before]
      BY <1>4, <2>1
    <2>3. k \in Nat /\ call.take \in SUBSET Int
      BY <1>2, <1>3
    <2>4. CASE i \in call.take
      <3>1. after = [before EXCEPT ![call.dst[i]] = want[i]]
        BY <2>3, <2>4, AssignNext
      <3> HIDE DEF before, after
      <3>2. mem[to] = before
        BY <1>2, <2>2 DEF Inv, TypeOK
      <3>3. mem' = [mem EXCEPT ![to] = [before EXCEPT ![call.dst[i]] = want[i]]]
        BY <1>1, <1>5, <1>10, <2>4, <3>2
      <3>4. mem' = [old EXCEPT ![to] = after]
        BY <2>2, <3>1, <3>3
      <3>5. QED
        BY <1>1, <2>1, <3>4 DEF SnapshotSemantics, after
    <2>5. CASE i \notin call.take
      <3>1. after = before
        BY <2>3, <2>5, AssignMasked
      <3> HIDE DEF before, after
      <3>2. mem' = [old EXCEPT ![to] = after]
        BY <1>1, <1>10, <2>2, <2>5, <3>1
      <3>3. QED
        BY <1>1, <2>1, <3>2 DEF SnapshotSemantics, after
    <2>6. QED
      BY <2>4, <2>5
  <1>11. QED
    BY <1>7, <1>8, <1>9 DEF Inv

\* Every step of such callers preserves the invariant.
LEMMA LoopStep ==
    ASSUME "identity_overlap" \notin Entries, "where_overlap" \notin Entries,
           Inv, [Next]_vars
    PROVE  Inv'
  <1>1. CASE UNCHANGED vars
    BY <1>1 DEF Inv, TypeOK, LoopInv, SnapshotSemantics, Done, vars
  <1>2. CASE Begin
    BY <1>2, BeginStep
  <1>3. CASE Element
    BY <1>3, ElementStep
  <1>4. CASE Return
    BY <1>4, WriteLoopAssumption DEF Return, Inv, TypeOK, LoopInv, SnapshotSemantics
  <1>5. QED
    BY <1>1, <1>2, <1>3, <1>4 DEF Next

\* Writes between overlapping views behave like one simultaneous assignment of
\* the values read before the first element is written, for every entry point
\* but the identity-like ufuncs with an overlapping `out=` and a `where=` mask on
\* the buffer of `out=`.
THEOREM SimultaneousAssignment ==
    ASSUME "identity_overlap" \notin Entries, "where_overlap" \notin Entries
    PROVE  Spec => []SnapshotSemantics
  <1>1. Inv /\ [Next]_vars => Inv'
    BY LoopStep
  <1>2. Inv => SnapshotSemantics
    BY DEF Inv
  <1>3. QED
    BY LoopInit, <1>1, <1>2, PTL DEF Spec

\* Type correctness of the same callers' writes.
THEOREM LoopTypeCorrect ==
    ASSUME "identity_overlap" \notin Entries, "where_overlap" \notin Entries
    PROVE  Spec => []TypeOK
  <1>1. Inv /\ [Next]_vars => Inv'
    BY LoopStep
  <1>2. Inv => TypeOK
    BY DEF Inv
  <1>3. QED
    BY LoopInit, <1>1, <1>2, PTL DEF Spec

-----------------------------------------------------------------------------
(* The error state.                                                          *)

\* Opening a scope keeps the older frames and adds one on top.
LEMMA PushFacts ==
    ASSUME ErrTypeOK, NEW t \in Threads, NEW o \in Objects \cup {NoObject},
           scope' = Push(t, o)
    PROVE  /\ scope' \in [Threads -> Seq(Frames)]
           /\ Len(scope'[t]) = Depth(t) + 1
           /\ scope'[t][Depth(t) + 1] = [object |-> o, before |-> state[t]]
           /\ \A d \in 1..Depth(t) : scope'[t][d] = scope[t][d]
           /\ \A u \in Threads \ {t} : scope'[u] = scope[u]
  <1> DEFINE f == [object |-> o, before |-> state[t]]
  <1>1. f \in Frames
    BY DEF ErrTypeOK, Frames
  <1>2. scope[t] \in Seq(Frames) /\ scope \in [Threads -> Seq(Frames)]
    BY DEF ErrTypeOK
  <1>3. scope' = [scope EXCEPT ![t] = Append(scope[t], f)]
    BY DEF Push
  <1> HIDE DEF f
  <1>4. /\ Append(scope[t], f) \in Seq(Frames)
        /\ Len(Append(scope[t], f)) = Len(scope[t]) + 1
        /\ Append(scope[t], f)[Len(scope[t]) + 1] = f
        /\ \A d \in 1..Len(scope[t]) : Append(scope[t], f)[d] = scope[t][d]
    BY <1>1, <1>2
  <1>5. scope'[t] = Append(scope[t], f) /\ \A u \in Threads \ {t} : scope'[u] = scope[u]
    BY <1>2, <1>3
  <1>6. scope' \in [Threads -> Seq(Frames)]
    BY <1>2, <1>3, <1>4
  <1>7. QED
    BY <1>4, <1>5, <1>6 DEF f, Depth

\* Closing a scope removes the top frame and keeps the others.
LEMMA PopFacts ==
    ASSUME ErrTypeOK, NEW t \in Threads, Depth(t) > 0, scope' = Pop(t)
    PROVE  /\ scope' \in [Threads -> Seq(Frames)]
           /\ Depth(t) \in Nat
           /\ Top(t) \in Frames
           /\ Len(scope'[t]) = Depth(t) - 1
           /\ \A d \in 1..(Depth(t) - 1) : scope'[t][d] = scope[t][d]
           /\ \A u \in Threads \ {t} : scope'[u] = scope[u]
  <1>1. scope[t] \in Seq(Frames) /\ scope \in [Threads -> Seq(Frames)]
    BY DEF ErrTypeOK
  <1> DEFINE n == Len(scope[t])
  <1>2. n \in Nat /\ n > 0 /\ scope[t][n] \in Frames
    BY <1>1 DEF Depth
  <1>3. /\ SubSeq(scope[t], 1, n - 1) \in Seq(Frames)
        /\ Len(SubSeq(scope[t], 1, n - 1)) = n - 1
        /\ \A d \in 1..(n - 1) : SubSeq(scope[t], 1, n - 1)[d] = scope[t][d]
    <2>1. \A d \in 1..(n - 1) : scope[t][d] \in Frames
      BY <1>1, <1>2
    <2> HIDE DEF n
    <2>2. n - 1 \in Int /\ n - 1 >= 0
      BY <1>2
    <2>3. QED
      BY <2>1, <2>2, SubSeqProperties
  <1>4. /\ scope'[t] = SubSeq(scope[t], 1, n - 1)
        /\ \A u \in Threads \ {t} : scope'[u] = scope[u]
        /\ scope' \in [Threads -> Seq(Frames)]
    BY <1>1, <1>3 DEF Pop
  <1>5. QED
    BY <1>2, <1>3, <1>4 DEF Depth, Top

\* Setting some categories of a state gives a state.
LEMMA ApplyIsState ==
    ASSUME NEW s \in States, NEW ch \in Changes
    PROVE  Apply(s, ch) \in States
  BY DEF Apply, States, Changes

-----------------------------------------------------------------------------
\* Type correctness is preserved by every step, shared objects or not.
LEMMA TypeStep ==
    ASSUME ErrTypeOK, [ErrNext]_err_vars
    PROVE  ErrTypeOK'
  <1> USE ErrStateAssumption
  <1>1. CASE UNCHANGED err_vars
    BY <1>1 DEF ErrTypeOK, err_vars
  <1>2. ASSUME NEW t \in Threads, NEW ch \in Changes, SetErr(t, ch)
        PROVE  ErrTypeOK'
    <2>1. Apply(state[t], ch) \in States
      BY ApplyIsState DEF ErrTypeOK
    <2>2. QED
      BY <1>2, <2>1 DEF SetErr, ErrTypeOK
  <1>3. ASSUME NEW t \in Threads, NEW has \in BOOLEAN, SetErrCall(t, has)
        PROVE  ErrTypeOK'
    BY <1>3 DEF SetErrCall, ErrTypeOK
  <1>4. ASSUME NEW t \in Threads, NEW o \in Objects, EnterBlock(t, o)
        PROVE  ErrTypeOK'
    <2>1. Apply(state[t], Overrides[o]) \in States
      BY ApplyIsState DEF ErrTypeOK
    <2>2. scope' \in [Threads -> Seq(Frames)]
      BY <1>4, PushFacts DEF EnterBlock
    <2>3. state[t] \in States
      BY DEF ErrTypeOK
    <2>4. saved' \in [Objects -> States \cup {NoState}] /\ state' \in [Threads -> States]
      BY <1>4, <2>1, <2>3 DEF EnterBlock, ErrTypeOK
    <2>5. QED
      BY <1>4, <2>2, <2>4 DEF EnterBlock, ErrTypeOK
  <1>5. ASSUME NEW t \in Threads, ExitBlock(t)
        PROVE  ErrTypeOK'
    <2>1. scope' \in [Threads -> Seq(Frames)] /\ Top(t) \in Frames
      BY <1>5, PopFacts DEF ExitBlock
    <2>2. Top(t).object \in Objects
      BY <1>5, <2>1 DEF ExitBlock, Frames
    <2>3. saved[Top(t).object] \in States \cup {NoState}
      BY <2>2 DEF ErrTypeOK
    <2>4. saved' \in [Objects -> States \cup {NoState}] /\ state' \in [Threads -> States]
      BY <1>5, <2>2, <2>3 DEF ExitBlock, ErrTypeOK
    <2>5. QED
      BY <1>5, <2>1, <2>4 DEF ExitBlock, ErrTypeOK
  <1>6. ASSUME NEW t \in Threads, NEW c \in Cats, SignalRaises(t, c)
        PROVE  ErrTypeOK'
    BY <1>6 DEF SignalRaises, ErrTypeOK
  <1>7. ASSUME NEW t \in Threads, NEW c \in Cats, SignalCalls(t, c)
        PROVE  ErrTypeOK'
    <2>1. scope' \in [Threads -> Seq(Frames)]
      BY <1>7, PushFacts DEF SignalCalls
    <2>2. QED
      BY <1>7, <2>1 DEF SignalCalls, ErrTypeOK
  <1>8. ASSUME NEW t \in Threads, CallbackEnds(t)
        PROVE  ErrTypeOK'
    <2>1. scope' \in [Threads -> Seq(Frames)]
      BY <1>8, PopFacts DEF CallbackEnds
    <2>2. QED
      BY <1>8, <2>1 DEF CallbackEnds, ErrTypeOK
  <1>9. ASSUME NEW t \in Threads, Catch(t)
        PROVE  ErrTypeOK'
    BY <1>9 DEF Catch, ErrTypeOK
  <1>10. QED
    BY <1>1, <1>2, <1>3, <1>4, <1>5, <1>6, <1>7, <1>8, <1>9 DEF ErrNext, Step

\* The initial state has the right types.
LEMMA TypeInit == ErrInit => ErrTypeOK
  BY ErrStateAssumption DEF ErrInit, ErrTypeOK

\* Type correctness of the error-state machine.
THEOREM TypeCorrect == ErrSpec => []ErrTypeOK
  BY TypeInit, TypeStep, PTL DEF ErrSpec

-----------------------------------------------------------------------------
(* Blocks restore the state.  SavedIsScope is not inductive by itself: that  *)
(* the slot of an object belongs to ONE block is what makes __exit__ of one  *)
(* block leave the others' slots alone.                                      *)

\* Two open blocks of one errstate object are the same block.
OneBlockPerObject ==
    \A t, u \in Threads : \A d \in 1..Depth(t), e \in 1..Depth(u) :
        (/\ scope[t][d].object = scope[u][e].object
         /\ scope[t][d].object # NoObject)
        => t = u /\ d = e

ScopeInv == ErrTypeOK /\ OneBlockPerObject /\ SavedIsScope

\* Entering an object that is not entered keeps the slots and the blocks paired.
LEMMA EnterBlockStep ==
    ASSUME ~Shared, ScopeInv, NEW t \in Threads, NEW o \in Objects, EnterBlock(t, o)
    PROVE  OneBlockPerObject' /\ SavedIsScope'
  <1> USE ErrStateAssumption
  <1>1. /\ Len(scope'[t]) = Depth(t) + 1
        /\ scope'[t][Depth(t) + 1] = [object |-> o, before |-> state[t]]
        /\ \A d \in 1..Depth(t) : scope'[t][d] = scope[t][d]
        /\ \A u \in Threads \ {t} : scope'[u] = scope[u]
    BY PushFacts DEF EnterBlock, ScopeInv
  <1>2. /\ saved' = [saved EXCEPT ![o] = state[t]]
        /\ \A u \in Threads : \A d \in 1..Depth(u) : scope[u][d].object # o
    BY DEF EnterBlock, Entered
  <1>3. \A u \in Threads : Depth(u) \in Nat
    BY DEF ScopeInv, ErrTypeOK, Depth
  <1>4. \A u \in Threads : \A d \in 1..Len(scope'[u]) :
           \/ u = t /\ d = Depth(t) + 1 /\ scope'[u][d].object = o
              /\ scope'[u][d].before = state[t]
           \/ d \in 1..Depth(u) /\ scope'[u][d] = scope[u][d]
    BY <1>1, <1>3 DEF Depth
  <1>5. \A u \in Threads : \A d \in 1..Depth(u) :
           d \in 1..Len(scope'[u]) /\ scope'[u][d] = scope[u][d]
    BY <1>1, <1>3 DEF Depth
  <1>6. OneBlockPerObject'
    <2> SUFFICES ASSUME NEW u \in Threads, NEW w \in Threads,
                        NEW d \in 1..Len(scope'[u]), NEW e \in 1..Len(scope'[w]),
                        scope'[u][d].object = scope'[w][e].object,
                        scope'[u][d].object # NoObject
                 PROVE  u = w /\ d = e
      BY DEF OneBlockPerObject, Depth
    <2>1. \/ u = t /\ d = Depth(t) + 1 /\ scope'[u][d].object = o
          \/ d \in 1..Depth(u) /\ scope'[u][d] = scope[u][d]
      BY <1>4
    <2>2. \/ w = t /\ e = Depth(t) + 1 /\ scope'[w][e].object = o
          \/ e \in 1..Depth(w) /\ scope'[w][e] = scope[w][e]
      BY <1>4
    <2>3. CASE scope'[u][d].object = o
      BY <1>2, <2>1, <2>2, <2>3
    <2>4. CASE scope'[u][d].object # o
      BY <2>1, <2>2, <2>4 DEF ScopeInv, OneBlockPerObject
    <2>5. QED
      BY <2>3, <2>4
  <1>7. ASSUME NEW p \in Objects, saved'[p] # NoState
        PROVE  Entered(p)'
    <2>1. CASE p = o
      BY <1>1, <1>3, <2>1 DEF Entered, Depth
    <2>2. CASE p # o
      <3>1. Entered(p)
        BY <1>2, <1>7, <2>2 DEF ScopeInv, SavedIsScope, ErrTypeOK
      <3>2. QED
        BY <1>5, <3>1 DEF Entered, Depth
    <2>3. QED
      BY <2>1, <2>2
  <1>8. ASSUME NEW u \in Threads, NEW d \in 1..Len(scope'[u]),
               scope'[u][d].object # NoObject
        PROVE  saved'[scope'[u][d].object] = scope'[u][d].before
    <2>1. CASE d \in 1..Depth(u) /\ scope'[u][d] = scope[u][d]
      <3>1. scope[u][d] \in Frames
        BY <2>1 DEF ScopeInv, ErrTypeOK, Depth
      <3>2. scope[u][d].object \in Objects
        BY <1>8, <2>1, <3>1 DEF Frames
      <3>3. scope[u][d].object # o
        BY <1>2, <2>1
      <3>4. QED
        BY <1>2, <1>8, <2>1, <3>2, <3>3 DEF ScopeInv, SavedIsScope, ErrTypeOK
    <2>2. CASE scope'[u][d].object = o /\ scope'[u][d].before = state[t]
      BY <1>2, <2>2 DEF ScopeInv, ErrTypeOK
    <2>3. QED
      BY <1>4, <2>1, <2>2
  <1>9. QED
    BY <1>6, <1>7, <1>8 DEF SavedIsScope, Depth

\* Leaving a block empties its own slot and nobody else's.
LEMMA ExitBlockStep ==
    ASSUME ScopeInv, NEW t \in Threads, ExitBlock(t)
    PROVE  OneBlockPerObject' /\ SavedIsScope'
  <1> USE ErrStateAssumption
  <1> DEFINE o == Top(t).object
  <1>1. /\ Depth(t) > 0 /\ Depth(t) \in Nat
        /\ Len(scope'[t]) = Depth(t) - 1
        /\ \A d \in 1..(Depth(t) - 1) : scope'[t][d] = scope[t][d]
        /\ \A u \in Threads \ {t} : scope'[u] = scope[u]
        /\ o \in Objects
    BY PopFacts DEF ExitBlock, ScopeInv, Frames
  <1>2. saved' = [saved EXCEPT ![o] = NoState]
    BY DEF ExitBlock
  <1>3. \A u \in Threads : \A d \in 1..Len(scope'[u]) :
           /\ d \in 1..Depth(u) /\ scope'[u][d] = scope[u][d]
           /\ u = t => d # Depth(t)
    BY <1>1 DEF Depth
  <1>4. \A u \in Threads : \A d \in 1..Depth(u) :
           \/ u = t /\ d = Depth(t)
           \/ d \in 1..Len(scope'[u]) /\ scope'[u][d] = scope[u][d]
    BY <1>1 DEF Depth
  <1>5. scope[t][Depth(t)].object = o
    BY DEF Top
  <1> HIDE DEF o
  <1>6. OneBlockPerObject'
    <2> SUFFICES ASSUME NEW u \in Threads, NEW w \in Threads,
                        NEW d \in 1..Len(scope'[u]), NEW e \in 1..Len(scope'[w]),
                        scope'[u][d].object = scope'[w][e].object,
                        scope'[u][d].object # NoObject
                 PROVE  u = w /\ d = e
      BY DEF OneBlockPerObject, Depth
    <2>1. /\ d \in 1..Depth(u) /\ scope'[u][d] = scope[u][d]
          /\ e \in 1..Depth(w) /\ scope'[w][e] = scope[w][e]
      BY <1>3
    <2>2. QED
      BY <2>1 DEF ScopeInv, OneBlockPerObject
  <1>7. ASSUME NEW p \in Objects, saved'[p] # NoState
        PROVE  Entered(p)'
    <2>1. p # o /\ saved[p] # NoState
      BY <1>1, <1>2, <1>7 DEF ScopeInv, ErrTypeOK
    <2>2. PICK u \in Threads : \E d \in 1..Depth(u) : scope[u][d].object = p
      BY <2>1 DEF ScopeInv, SavedIsScope, Entered
    <2>3. PICK d \in 1..Depth(u) : scope[u][d].object = p
      BY <2>2
    <2>4. d \in 1..Len(scope'[u]) /\ scope'[u][d] = scope[u][d]
      BY <1>4, <1>5, <2>1, <2>3
    <2>5. QED
      BY <2>3, <2>4 DEF Entered, Depth
  <1>8. ASSUME NEW u \in Threads, NEW d \in 1..Len(scope'[u]),
               scope'[u][d].object # NoObject
        PROVE  saved'[scope'[u][d].object] = scope'[u][d].before
    <2>1. /\ d \in 1..Depth(u) /\ scope'[u][d] = scope[u][d]
          /\ u = t => d # Depth(t)
      BY <1>3
    <2>2. scope[u][d].object # o
      BY <1>1, <1>5, <1>8, <2>1 DEF ScopeInv, OneBlockPerObject
    <2>3. scope[u][d].object \in Objects
      <3>1. scope[u][d] \in Frames
        BY <2>1 DEF ScopeInv, ErrTypeOK, Depth
      <3>2. QED
        BY <1>8, <2>1, <3>1 DEF Frames
    <2>4. saved'[scope[u][d].object] = saved[scope[u][d].object]
      BY <1>2, <2>2, <2>3 DEF ScopeInv, ErrTypeOK
    <2>5. QED
      BY <1>8, <2>1, <2>4 DEF ScopeInv, SavedIsScope
  <1>9. QED
    BY <1>6, <1>7, <1>8 DEF SavedIsScope, Depth

\* Callbacks open and close scopes that belong to no errstate object.
LEMMA CallbackStep ==
    ASSUME ScopeInv, NEW t \in Threads,
           CallbackEnds(t) \/ \E c \in Cats : SignalCalls(t, c)
    PROVE  OneBlockPerObject' /\ SavedIsScope'
  <1>1. saved' = saved
    BY DEF CallbackEnds, SignalCalls
  <1>2. \A u \in Threads : Depth(u) \in Nat
    BY DEF ScopeInv, ErrTypeOK, Depth
  <1>3. /\ \A u \in Threads : \A d \in 1..Len(scope'[u]) :
              \/ scope'[u][d].object = NoObject
              \/ d \in 1..Depth(u) /\ scope'[u][d] = scope[u][d]
        /\ \A u \in Threads : \A d \in 1..Depth(u) :
              \/ scope[u][d].object = NoObject
              \/ d \in 1..Len(scope'[u]) /\ scope'[u][d] = scope[u][d]
    <2>1. CASE CallbackEnds(t)
      <3>1. /\ Len(scope'[t]) = Depth(t) - 1
            /\ \A d \in 1..(Depth(t) - 1) : scope'[t][d] = scope[t][d]
            /\ \A u \in Threads \ {t} : scope'[u] = scope[u]
            /\ scope[t][Depth(t)].object = NoObject
        BY <2>1, PopFacts DEF CallbackEnds, ScopeInv, Top
      <3>2. \A d \in 1..Len(scope'[t]) : d \in 1..Depth(t) /\ scope'[t][d] = scope[t][d]
        BY <1>2, <3>1
      <3>3. ASSUME NEW d \in 1..Depth(t), scope[t][d].object # NoObject
            PROVE  d \in 1..Len(scope'[t]) /\ scope'[t][d] = scope[t][d]
        <4>1. d # Depth(t)
          BY <3>1, <3>3
        <4>2. QED
          BY <1>2, <3>1, <4>1
      <3>4. \A u \in Threads \ {t} : scope'[u] = scope[u] /\ Len(scope'[u]) = Depth(u)
        BY <3>1 DEF Depth
      <3>5. QED
        BY <3>2, <3>3, <3>4
    <2>2. CASE \E c \in Cats : SignalCalls(t, c)
      <3>1. scope' = Push(t, NoObject)
        BY <2>2 DEF SignalCalls
      <3>2. /\ Len(scope'[t]) = Depth(t) + 1
            /\ scope'[t][Depth(t) + 1] = [object |-> NoObject, before |-> state[t]]
            /\ \A d \in 1..Depth(t) : scope'[t][d] = scope[t][d]
            /\ \A u \in Threads \ {t} : scope'[u] = scope[u]
        BY <3>1, PushFacts DEF ScopeInv
      <3>3. /\ \A d \in 1..Depth(t) : d \in 1..Len(scope'[t])
            /\ \A d \in 1..Len(scope'[t]) : d \in 1..Depth(t) \/ d = Depth(t) + 1
        BY <1>2, <3>2
      <3>4. ASSUME NEW d \in 1..Len(scope'[t])
            PROVE  \/ scope'[t][d].object = NoObject
                   \/ d \in 1..Depth(t) /\ scope'[t][d] = scope[t][d]
        <4>1. CASE d \in 1..Depth(t)
          BY <3>2, <4>1
        <4>2. CASE d = Depth(t) + 1
          BY <3>2, <4>2
        <4>3. QED
          BY <3>3, <4>1, <4>2
      <3>5. \A u \in Threads \ {t} : scope'[u] = scope[u] /\ Len(scope'[u]) = Depth(u)
        BY <3>2 DEF Depth
      <3>6. \A d \in 1..Depth(t) : d \in 1..Len(scope'[t]) /\ scope'[t][d] = scope[t][d]
        BY <3>2, <3>3
      <3>7. QED
        BY <3>4, <3>5, <3>6
    <2>3. QED
      BY <2>1, <2>2
  <1>4. OneBlockPerObject'
    <2> SUFFICES ASSUME NEW u \in Threads, NEW w \in Threads,
                        NEW d \in 1..Len(scope'[u]), NEW e \in 1..Len(scope'[w]),
                        scope'[u][d].object = scope'[w][e].object,
                        scope'[u][d].object # NoObject
                 PROVE  u = w /\ d = e
      BY DEF OneBlockPerObject, Depth
    <2>1. /\ d \in 1..Depth(u) /\ scope'[u][d] = scope[u][d]
          /\ e \in 1..Depth(w) /\ scope'[w][e] = scope[w][e]
      BY <1>3
    <2>2. QED
      BY <2>1 DEF ScopeInv, OneBlockPerObject
  <1>5. ASSUME NEW p \in Objects, saved'[p] # NoState
        PROVE  Entered(p)'
    <2>1. Entered(p) /\ p # NoObject
      BY <1>1, <1>5, ErrStateAssumption DEF ScopeInv, SavedIsScope
    <2>2. QED
      BY <1>3, <2>1 DEF Entered, Depth
  <1>6. ASSUME NEW u \in Threads, NEW d \in 1..Len(scope'[u]),
               scope'[u][d].object # NoObject
        PROVE  saved'[scope'[u][d].object] = scope'[u][d].before
    BY <1>1, <1>3, <1>6 DEF ScopeInv, SavedIsScope
  <1>7. QED
    BY <1>4, <1>5, <1>6 DEF SavedIsScope, Depth

\* Every step of callers who do not share entered objects preserves ScopeInv.
LEMMA ScopeStep ==
    ASSUME ~Shared, ScopeInv, [ErrNext]_err_vars
    PROVE  ScopeInv'
  <1>1. ErrTypeOK'
    BY TypeStep DEF ScopeInv
  <1>2. ASSUME UNCHANGED <<saved, scope>>
        PROVE  OneBlockPerObject' /\ SavedIsScope'
    BY <1>2 DEF ScopeInv, OneBlockPerObject, SavedIsScope, Entered, Depth
  <1>3. CASE UNCHANGED err_vars
    BY <1>1, <1>2, <1>3 DEF ScopeInv, err_vars
  <1>4. ASSUME NEW t \in Threads, Step(t)
        PROVE  OneBlockPerObject' /\ SavedIsScope'
    <2>1. CASE \E ch \in Changes : SetErr(t, ch)
      BY <1>2, <2>1 DEF SetErr
    <2>2. CASE \E has \in BOOLEAN : SetErrCall(t, has)
      BY <1>2, <2>2 DEF SetErrCall
    <2>3. CASE \E o \in Objects : EnterBlock(t, o)
      BY <2>3, EnterBlockStep
    <2>4. CASE ExitBlock(t)
      BY <2>4, ExitBlockStep
    <2>5. CASE \E c \in Cats : SignalRaises(t, c)
      BY <1>2, <2>5 DEF SignalRaises
    <2>6. CASE CallbackEnds(t) \/ \E c \in Cats : SignalCalls(t, c)
      BY <2>6, CallbackStep
    <2>7. CASE Catch(t)
      BY <1>2, <2>7 DEF Catch
    <2>8. QED
      BY <1>4, <2>1, <2>2, <2>3, <2>4, <2>5, <2>6, <2>7 DEF Step
  <1>5. QED
    BY <1>1, <1>3, <1>4 DEF ErrNext, ScopeInv

LEMMA ScopeInit == ErrInit => ScopeInv
  BY TypeInit, ErrStateAssumption
  DEF ErrInit, ScopeInv, OneBlockPerObject, SavedIsScope, Depth

\* As long as no caller enters an object that is entered, the slot of every
\* errstate object is the state its one open block started from.
THEOREM SlotsMatchScopes ==
    ASSUME ~Shared
    PROVE  ErrSpec => []SavedIsScope
  <1>1. ScopeInv /\ [ErrNext]_err_vars => ScopeInv'
    BY ScopeStep
  <1>2. ScopeInv => SavedIsScope
    BY DEF ScopeInv
  <1>3. QED
    BY ScopeInit, <1>1, <1>2, PTL DEF ErrSpec

\* The effect of one step on a thread that leaves a block in it.
LEMMA RestoreStep ==
    ASSUME ~Shared, ScopeInv, [ErrNext]_err_vars, NEW t \in Threads,
           Len(scope'[t]) < Len(scope[t]), Top(t).object # NoObject
    PROVE  state'[t] = Top(t).before
  <1> USE ErrStateAssumption
  <1>1. Depth(t) \in Nat
    BY DEF ScopeInv, ErrTypeOK, Depth
  <1>2. ASSUME NEW u \in Threads, ExitBlock(u)
        PROVE  state'[t] = Top(t).before
    <2>1. /\ \A w \in Threads \ {u} : scope'[w] = scope[w]
          /\ Depth(u) > 0 /\ Depth(u) \in Nat
          /\ Top(u) \in Frames
      BY <1>2, PopFacts DEF ExitBlock, ScopeInv
    <2>2. t = u
      BY <2>1, <1>1 DEF Depth
    <2>3. Depth(t) \in 1..Depth(t)
      BY <2>1, <2>2
    <2>4. saved[Top(t).object] = Top(t).before
      BY <2>3 DEF ScopeInv, SavedIsScope, Top
    <2>5. Top(t).before \in States
      BY <2>1, <2>2 DEF Frames
    <2>6. state' = [state EXCEPT ![t] = Top(t).before]
      BY <1>2, <2>2, <2>4, <2>5 DEF ExitBlock
    <2>7. QED
      BY <2>6 DEF ScopeInv, ErrTypeOK
  <1>3. ASSUME NEW u \in Threads, CallbackEnds(u)
        PROVE  FALSE
    <2>1. \A w \in Threads \ {u} : scope'[w] = scope[w]
      BY <1>3, PopFacts DEF CallbackEnds, ScopeInv
    <2>2. t = u
      BY <2>1, <1>1 DEF Depth
    <2>3. QED
      BY <1>3, <2>2 DEF CallbackEnds
  <1>4. ASSUME NEW u \in Threads, NEW o \in Objects \cup {NoObject}, scope' = Push(u, o)
        PROVE  FALSE
    <2>1. /\ Len(scope'[u]) = Depth(u) + 1
          /\ \A w \in Threads \ {u} : scope'[w] = scope[w]
      BY <1>4, PushFacts DEF ScopeInv
    <2>2. QED
      BY <1>1, <2>1 DEF Depth
  <1>5. scope' # scope
    BY <1>1 DEF Depth
  <1>6. PICK u \in Threads : Step(u)
    BY <1>5 DEF ErrNext, err_vars
  <1>7. CASE \E o \in Objects : EnterBlock(u, o)
    BY <1>4, <1>7 DEF EnterBlock
  <1>8. CASE \E c \in Cats : SignalCalls(u, c)
    BY <1>4, <1>8 DEF SignalCalls
  <1>9. CASE ExitBlock(u)
    BY <1>2, <1>9
  <1>10. CASE CallbackEnds(u)
    BY <1>3, <1>10
  <1>11. QED
    BY <1>5, <1>6, <1>7, <1>8, <1>9, <1>10
    DEF Step, SetErr, SetErrCall, SignalRaises, Catch

\* Leaving a `with` block, or a decorated function, gives the thread back the
\* state it had on entry, whatever ran in between and however many threads,
\* objects and callbacks there are.
THEOREM BlocksRestore ==
    ASSUME ~Shared
    PROVE  ErrSpec => RestoresOnExit
  <1>1. ScopeInv /\ [ErrNext]_err_vars => ScopeInv'
    BY ScopeStep
  <1>2. ScopeInv /\ [ErrNext]_err_vars =>
          [\A t \in Threads :
             (Len(scope'[t]) < Len(scope[t]) /\ Top(t).object # NoObject)
             => state'[t] = Top(t).before]_err_vars
    BY RestoreStep
  <1>3. QED
    BY ScopeInit, <1>1, <1>2, PTL DEF ErrSpec, RestoresOnExit
=============================================================================
