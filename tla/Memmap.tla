------------------------------- MODULE Memmap -------------------------------
(***************************************************************************)
(* `anionpy.memmap`: a Python object around a private array decoded from a  *)
(* file.  Views carry the file's mode and the way back to the object that   *)
(* opened it (`_base`); writes stay in the private array until `flush`      *)
(* encodes it and stores the bytes into the mapping.                        *)
(*                                                                          *)
(* Elements are one byte wide (uint8).  Arrays have one axis (cols = 1) or  *)
(* two; an array is the sequence of the cells of its elements in C order.   *)
(* The two halves of `flush` are steps of their own: another thread may run *)
(* between them.  `dirty`, `filled` and the jobs' `clean` are history.       *)
(***************************************************************************)
EXTENDS Strided

CONSTANTS Objs,       \* memmap objects, numbered as they are created
          Files, Bytes, Zero, NoObj, NoFile,
          Threads,    \* the threads that call flush
          Granule,    \* mmap.ALLOCATIONGRANULARITY
          MaxFile,    \* bound: the length of a file
          MaxCalls,   \* bound: calls that create or change an object
          Contents,   \* what the files may hold at first
          Offsets, Shapes,  \* what the callers of memmap() pass; <<>> is shape=None
          Mistied     \* whether calls are made whose result is tied to the file although
                      \* it is a copy, or untied although it is a view

Modes == {"r", "c", "r+", "w+"}
Writable == {"r+", "w+"}

\* Buffers are numbered by the calls that allocated them.
Bufs == 1..MaxCalls

\* A memmap object: its elements, its mode, the object that opened the file (`_base`),
\* and, if that is the object itself, its mapping.
ObjRec == [buf : Bufs, cells : Seq(Nat), rows : Nat, mode : Modes \cup {"none"},
           root : Objs, file : Files \cup {NoFile}, start : Nat, at : Nat,
           order : {"C", "F"}]

\* What the write-back copy of the refinement and its saves are.
CopyRec == [file : Files, at : Nat, mode : Modes, val : Seq(Bytes)]
SaveRec == [file : Files, at : Nat, val : Seq(Bytes)]

ASSUME MemmapAssumption ==
    /\ Zero \in Bytes /\ Granule \in Nat \ {0}
    /\ Objs \subseteq Nat /\ NoObj \notin Objs /\ NoFile \notin Files
    /\ NoObj \notin ObjRec \cup CopyRec \cup SaveRec
    /\ MaxFile \in Nat /\ MaxCalls \in Nat
    /\ Offsets \subseteq Nat /\ Contents \subseteq Seq(Bytes)
    /\ Shapes \subseteq Seq(Nat) /\ \A shape \in Shapes : Len(shape) <= 2

VARIABLES file,     \* bytes of the files
          obj,      \* the memmap objects
          data,     \* the buffers the private arrays live in
          job,      \* a flush between its two halves, per thread
          dirty,    \* history: objects whose array was written since the bytes in the file
                    \* were encoded
          filled,   \* history: buffers that fill put in the place of others
          calls     \* calls so far

vars == <<file, obj, data, job, dirty, filled, calls>>

Idle == [root |-> NoObj, raw |-> <<>>, clean |-> TRUE]

TypeOK ==
    /\ file \in [Files -> Seq(Bytes)]
    /\ data \in [Bufs -> Seq(Bytes)]
    /\ obj \in [Objs -> {NoObj} \cup ObjRec]
    /\ job \in [Threads -> [root : Objs \cup {NoObj}, raw : Seq(Bytes), clean : BOOLEAN]]
    /\ dirty \subseteq Objs /\ filled \subseteq Bufs
    /\ calls \in 0..MaxCalls

Live(o) == obj[o] # NoObj
Fresh(o) == ~Live(o) /\ \A p \in Objs : p < o => Live(p)
Mapped(o) == Live(o) /\ obj[o].file # NoFile

\* A matrix of `rows` rows, given in C order, read in Fortran order.
FOrder(s, rows) ==
    [k \in DOMAIN s |-> s[(((k - 1) % rows) * (Len(s) \div rows)) + ((k - 1) \div rows) + 1]]
InOrder(s, rows, order) == IF order = "F" THEN FOrder(s, rows) ELSE s

CContiguous(s) == \A k \in 1..Len(s) - 1 : s[k + 1] = s[k] + 1
\* One stride leads from each element to the next: a reshape to one axis is a view.
OneStride(s) == \A k \in 1..Len(s) - 2 : s[k + 2] - s[k + 1] = s[k + 1] - s[k]

Init == /\ file \in [Files -> Contents]
        /\ obj = [o \in Objs |-> NoObj]
        /\ data = [b \in Bufs |-> <<>>]
        /\ job = [t \in Threads |-> Idle]
        /\ dirty = {}
        /\ filled = {}
        /\ calls = 0

Call == calls < MaxCalls /\ calls' = calls + 1
NewBuf == calls + 1
Allocate(val) == data' = [data EXCEPT ![NewBuf] = val]

(***************************************************************************)
(* memmap(f, mode, offset, shape, order)                                    *)
(***************************************************************************)
\* The file once opened: "w+" truncates it, the writable modes lengthen it.
Opened(c, mode, nbytes) ==
    LET old == IF mode = "w+" THEN <<>> ELSE c
        len == Max({Len(old), nbytes, 1})
    IN  IF mode \in Writable
        THEN [i \in 1..len |-> IF i \in DOMAIN old THEN old[i] ELSE Zero] ELSE old

\* Mutation of MapStart: one granule earlier also when there is none.
MapStartEarly(offset, nbytes) ==
    LET start == offset - (offset % Granule)
    IN  IF nbytes = start THEN start - Granule ELSE start

\* The mapping begins on a granule, one granule earlier if it would be empty.
MapStart(offset, nbytes) ==
    LET start == offset - (offset % Granule)
    IN  IF nbytes = start /\ start > 0 THEN start - Granule ELSE start

Open(o, f, mode, offset, shape, order) ==
    LET flen == IF mode = "w+" THEN 0 ELSE Len(file[f])
        count == CASE shape = <<>> -> flen - offset
                   [] Len(shape) = 1 -> shape[1]
                   [] Len(shape) = 2 -> shape[1] * shape[2]
        nbytes == IF mode \in Writable THEN Max({offset + count, 1}) ELSE offset + count
        rows == IF Len(shape) = 2 THEN shape[1] ELSE count
        start == MapStart(offset, nbytes)
        bytes == Opened(file[f], mode, nbytes)
    IN  /\ Fresh(o)
        /\ mode = "w+" => shape # <<>>
        /\ order = "F" => Len(shape) = 2
        /\ count >= 0
        /\ mode \in {"r", "c"} => flen > 0 /\ nbytes <= flen
        /\ nbytes <= MaxFile
        /\ Call
        /\ file' = [file EXCEPT ![f] = bytes]
        /\ Allocate([i \in 1..count |-> bytes[offset + i]])
        /\ obj' = [obj EXCEPT ![o] =
                     [buf |-> NewBuf, cells |-> IF order = "F" /\ rows > 0
                                           THEN FOrder(Whole(count), count \div rows)
                                           ELSE Whole(count),
                      rows |-> rows, mode |-> mode, root |-> o, file |-> f, start |-> start,
                      at |-> offset - start, order |-> order]]
        /\ UNCHANGED <<job, dirty, filled>>

\* An offset past the end of an empty file and no shape: a byte is written, then the
\* negative size is refused.
OpenFails(f, offset) ==
    /\ file[f] = <<>> /\ offset > 0
    /\ file' = [file EXCEPT ![f] = <<Zero>>]
    /\ Call
    /\ UNCHANGED <<obj, data, job, dirty, filled>>

(***************************************************************************)
(* Derived objects                                                          *)
(***************************************************************************)
\* Mutation of AsView: the result does not carry the mode.
AsViewUnmarked(o, src, buf, cells, rows) ==
    [obj[src] EXCEPT !.buf = buf, !.cells = cells, !.rows = rows, !.mode = "none",
                     !.file = NoFile]

\* `_as_view` and `_as_copy`: an object around an array that was computed already.
AsView(o, src, buf, cells, rows) ==
    [obj[src] EXCEPT !.buf = buf, !.cells = cells, !.rows = rows, !.file = NoFile]
AsCopy(o, src, buf, cells, rows) ==
    [obj[src] EXCEPT !.buf = buf, !.cells = cells, !.rows = rows, !.file = NoFile,
                     !.mode = "none", !.root = o]

Make(o, rec) == /\ Fresh(o)
                /\ obj' = [obj EXCEPT ![o] = rec]
                /\ UNCHANGED <<file, job, dirty, filled>>
                /\ Call
MakeOnSame(o, rec) == Make(o, rec) /\ UNCHANGED data
MakeFresh(o, src, s, rec) ==
    /\ Make(o, rec)
    /\ Allocate([k \in DOMAIN s |-> data[obj[src].buf][s[k]]])

\* Whether a result that is a view (or not) of its source is tied to the file (or not).
Agrees(isView, tied) == Mistied \/ (isView <=> tied)

\* m[i:j:k] on the first axis; m[[...]] takes a copy and ties it like a view.
GetSlice(o, src, picks) ==
    LET s == obj[src]  cols == Len(s.cells) \div s.rows
    IN  MakeOnSame(o, AsView(o, src, s.buf,
             [k \in 1..Len(picks) * cols |->
                s.cells[((picks[((k - 1) \div cols) + 1] - 1) * cols) + ((k - 1) % cols) + 1]],
             Len(picks)))
GetFancy(o, src) ==
    LET s == obj[src]
    IN  /\ Agrees(FALSE, TRUE)
        /\ MakeFresh(o, src, s.cells, AsView(o, src, NewBuf, Whole(Len(s.cells)), s.rows))

\* T, transpose, swapaxes (and squeeze, which keeps the order of the elements).
Transpose(o, src) ==
    LET s == obj[src]
        cols == Len(s.cells) \div s.rows
    IN  IF cols <= 1 THEN MakeOnSame(o, AsView(o, src, s.buf, s.cells, s.rows))
        ELSE MakeOnSame(o, AsView(o, src, s.buf, FOrder(s.cells, s.rows), cols))

\* reshape(-1, order): a view when the elements lie one stride apart; what the
\* wrapper asks is whether the source is contiguous.  The copy keeps its `_base`.
Reshape(o, src, order) ==
    LET s == obj[src]
        flat == InOrder(s.cells, s.rows, order)
        tied == CContiguous(s.cells)
        buf == IF OneStride(flat) THEN s.buf ELSE NewBuf
        cells == IF OneStride(flat) THEN flat ELSE Whole(Len(flat))
        rec == IF tied THEN AsView(o, src, buf, cells, Len(flat))
               ELSE [AsCopy(o, src, buf, cells, Len(flat)) EXCEPT !.root = s.root]
    IN  /\ Agrees(OneStride(flat), tied)
        /\ IF OneStride(flat) THEN MakeOnSame(o, rec) ELSE MakeFresh(o, src, flat, rec)

\* ravel(order): a view when the elements lie side by side in that order.
Ravel(o, src, order) ==
    LET s == obj[src]
        flat == InOrder(s.cells, s.rows, order)
        tied == CContiguous(s.cells)
    IN  /\ Agrees(CContiguous(flat), tied)
        /\ IF CContiguous(flat)
           THEN MakeOnSame(o, IF tied THEN AsView(o, src, s.buf, flat, Len(flat))
                              ELSE AsCopy(o, src, s.buf, flat, Len(flat)))
           ELSE MakeFresh(o, src, flat,
                          IF tied THEN AsView(o, src, NewBuf, Whole(Len(flat)), Len(flat))
                          ELSE AsCopy(o, src, NewBuf, Whole(Len(flat)), Len(flat)))

\* copy, flatten, astype.
Copy(o, src) ==
    LET s == obj[src]
    IN  MakeFresh(o, src, s.cells, AsCopy(o, src, NewBuf, Whole(Len(s.cells)), s.rows))

(***************************************************************************)
(* Writes and flush                                                         *)
(***************************************************************************)
\* The arrays of the objects in S are written.
Touch(S) ==
    /\ dirty' = dirty \cup S
    /\ job' = [t \in Threads |-> IF job[t].root \in S THEN [job[t] EXCEPT !.clean = FALSE]
                                 ELSE job[t]]

\* m[...] = v, for one element or for all: the elements of every array that shows the
\* cells change.  Refused by the mode the object carries.
SetItem(o, where, v) ==
    LET b == obj[o].buf
        hit == {obj[o].cells[i] : i \in where}
    IN  /\ obj[o].mode # "r"
        /\ data' = [data EXCEPT ![b] = [c \in DOMAIN @ |-> IF c \in hit THEN v ELSE @[c]]]
        /\ Touch({p \in Objs : Live(p) /\ obj[p].buf = b})
        /\ Call
        /\ UNCHANGED <<file, obj, filled>>

\* m.fill(v): `ndarray.fill` puts a fresh buffer, in C order, in the place of the one the
\* object shows.  Its mode and `_base` stay; other arrays keep the old buffer.
Fill(o, v) ==
    LET n == Len(obj[o].cells)
    IN  /\ obj[o].mode # "r"
        /\ Call
        /\ Allocate([k \in 1..n |-> v])
        /\ obj' = [obj EXCEPT ![o].buf = NewBuf, ![o].cells = Whole(n)]
        /\ filled' = filled \cup {NewBuf}
        /\ Touch({o})
        /\ UNCHANGED file

\* Mutation of Encode: in C order, whatever the order of the file.
EncodeInCOrder(r) == [k \in DOMAIN obj[r].cells |-> data[obj[r].buf][obj[r].cells[k]]]

\* The elements of the object that opened the file, in the order of the file.
Encode(r) ==
    LET s == InOrder(obj[r].cells, obj[r].rows, obj[r].order)
    IN  [k \in DOMAIN s |-> data[obj[r].buf][s[k]]]

BeginFlush(t, o) ==
    LET r == obj[o].root
    IN  /\ job[t] = Idle
        /\ obj[r].mode \in Writable /\ obj[r].file # NoFile
        /\ job' = [job EXCEPT ![t] = [root |-> r, raw |-> Encode(r),
                                      clean |-> TRUE]]
        /\ UNCHANGED <<file, obj, data, dirty, filled, calls>>

\* Mutation of Stored: at the offset in the file, not in the mapping.
StoredAtOffset(c, r, raw, S) ==
    [p \in DOMAIN c |-> LET k == p - (obj[r].start + obj[r].start + obj[r].at)
                        IN  IF k \in S THEN raw[k] ELSE c[p]]

\* `c` after the bytes of a flush of r with an index in S were stored; what lies past
\* the end of a file that was truncated meanwhile is lost.
Stored(c, r, raw, S) ==
    [p \in DOMAIN c |-> LET k == p - (obj[r].start + obj[r].at)
                        IN  IF k \in S THEN raw[k] ELSE c[p]]

\* A page of the mapping that lies past the end of the file cannot be touched.
Reachable(c, r, n) ==
    n = 0 \/ obj[r].start + obj[r].at + n <= ((Len(c) + Granule - 1) \div Granule) * Granule

EndFlush(t) ==
    LET r == job[t].root
        f == obj[r].file
        raw == job[t].raw
    IN  /\ job[t] # Idle
        /\ Reachable(file[f], r, Len(raw))
        /\ file' = [file EXCEPT ![f] = Stored(@, r, raw, DOMAIN raw)]
        /\ dirty' = IF job[t].clean THEN dirty \ {r} ELSE dirty \cup {r}
        /\ job' = [job EXCEPT ![t] = Idle]
        /\ UNCHANGED <<obj, data, filled, calls>>

\* The process ends; if it is killed in the middle of a store, part of it is done.
Exit ==
    /\ obj' = [o \in Objs |-> NoObj]
    /\ data' = [b \in Bufs |-> <<>>]
    /\ job' = [t \in Threads |-> Idle]
    /\ dirty' = {} /\ filled' = {}
    /\ UNCHANGED calls
    /\ \/ UNCHANGED file
       \/ \E t \in Threads : /\ job[t] # Idle
                             /\ LET r == job[t].root
                                IN  \E S \in SUBSET DOMAIN job[t].raw :
                                      file' = [file EXCEPT ![obj[r].file] =
                                                 Stored(@, r, job[t].raw, S)]

Derive(o, src) ==
    /\ Live(src) /\ Fresh(o)
    /\ \/ obj[src].rows > 0 /\ \E picks \in Slices(obj[src].rows) : GetSlice(o, src, picks)
       \/ obj[src].rows > 0 /\ Transpose(o, src)
       \/ GetFancy(o, src)
       \/ \E order \in {"C", "F"} : Reshape(o, src, order) \/ Ravel(o, src, order)
       \/ Copy(o, src)

Change(o) ==
    /\ Live(o)
    /\ \/ \E i \in DOMAIN obj[o].cells, v \in Bytes : SetItem(o, {i}, v)
       \/ \E v \in Bytes : SetItem(o, DOMAIN obj[o].cells, v)
       \/ \E v \in Bytes : Fill(o, v)
       \/ \E t \in Threads : BeginFlush(t, o)

Next ==
    \/ \E o \in Objs, f \in Files, mode \in Modes, offset \in Offsets, shape \in Shapes,
          order \in {"C", "F"} : Open(o, f, mode, offset, shape, order)
    \/ \E f \in Files, offset \in Offsets : OpenFails(f, offset)
    \/ \E o, src \in Objs : Derive(o, src)
    \/ \E o \in Objs : Change(o)
    \/ \E t \in Threads : EndFlush(t)
    \/ Exit

Spec == Init /\ [][Next]_vars

(***************************************************************************)
(* Properties                                                               *)
(***************************************************************************)
\* An object whose elements are cells of a mapped array carries the mode of that array
\* and leads to it by its `_base`.  An object that carries a file mode leads to a mapped
\* array of that mode, and shows its cells unless one of the two was filled, which gives
\* the filled array new cells and leaves the ties.
TiesFollowMemory ==
    \A o \in Objs : Live(o) =>
       /\ \A r \in Objs : Mapped(r) /\ obj[r].buf = obj[o].buf =>
             obj[o].root = r /\ obj[o].mode = obj[r].mode
       /\ obj[o].mode # "none" =>
             LET r == obj[o].root
             IN  /\ Mapped(r) /\ obj[r].mode = obj[o].mode
                 /\ obj[o].buf = obj[r].buf \/ {obj[o].buf, obj[r].buf} \cap filled # {}

\* No other object of the process opened the file of r in a writable mode.
OnlyWriter(r) ==
    \A q \in Objs \ {r} : Mapped(q) /\ obj[q].file = obj[r].file => obj[q].mode \notin Writable

\* Where the i-th element (in C order) of r lies in the file, counted from the first.
Place(r, i) ==
    LET cols == Len(obj[r].cells) \div obj[r].rows
    IN  IF obj[r].order = "F" THEN ((i - 1) % cols) * obj[r].rows + ((i - 1) \div cols) + 1
        ELSE i

\* A flush stores what the array of the object that opened the file held: if the array
\* of the only writer of a file, through whichever object that shows it, was not written
\* since the bytes in the file were encoded, the file holds each element at its place.
CleanIsSaved ==
    \A r \in Objs \ dirty :
       Mapped(r) /\ obj[r].mode \in Writable /\ OnlyWriter(r) =>
       \A i \in DOMAIN obj[r].cells :
          file[obj[r].file][obj[r].start + obj[r].at + Place(r, i)]
             = data[obj[r].buf][obj[r].cells[i]]

\* The private array with its two-step flush is a write-back copy of the file: fills and
\* writes of the object that opened the file, and writes of those that show its cells,
\* change the copy; the fill of another object does not.
copyBar == [o \in Objs |->
    IF Mapped(o) THEN [file |-> obj[o].file, at |-> obj[o].start + obj[o].at,
                       mode |-> obj[o].mode, val |-> Encode(o)]
    ELSE NoObj]
savingBar == [t \in Threads |->
    IF job[t] = Idle THEN NoObj
    ELSE LET r == obj[job[t].root]
         IN  [file |-> r.file, at |-> r.start + r.at, val |-> job[t].raw]]
Abstract == INSTANCE WriteBack WITH Roots <- Objs, None <- NoObj, copy <- copyBar,
                                    saving <- savingBar
ImplementsWriteBack == Abstract!Spec
=============================================================================
