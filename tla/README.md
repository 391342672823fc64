# anionpy: specifications and proofs

TLA+ modules for anionpy, a NumPy work-alike whose arrays, operators and random
generators are written in Rust (`ionp-core`, `ionp-ion`) behind a PyO3 layer
(`ionp-py`) and a Python package (`anionpy`). They state what the code does with
the memory of arrays, with layouts and indices, with the floating-point error
state, random streams, masks and mapped files; TLC checks them on small
instances, and TLAPS proves the central invariants for every value of the constants.

Source references are to files of the repository.

## 1. Inventory

| Component | State | Operations | What makes it correct |
|---|---|---|---|
| Array memory (`ionp-core/src/array.rs`, `ionp-py/src/lib.rs`, `ndarray_attrs.rs`, `creation.rs`) | `Arc<Buffer>`, shape, strides, offset of each array; `_base` and `_readonly` in its `__dict__` | constructors, `copy`, `array`, `asarray`, indexing, `reshape`, `broadcast_to`, unary plus, in-place operators, `out=`, `put`, `ufunc.at`, `sort`, `fill`, `shuffle`, `@=` | windows stay in their buffer; arrays share memory exactly when NumPy says so, for life; a write reaches its own window and nothing else |
| Element write loop (`ufunc::write_out`, `indexing::scatter`) | the buffer under the loop, which may also be the source | `a[k] = v`, `copyto`, in-place operators, `out=` with `where=` | the values written are those read when the call began; the call returns |
| Floating-point error state (`ionp-py/src/fpstate.rs`) | thread-local modes and registrant; one `saved` slot per `errstate` object | `seterr`, `seterrcall`, `errstate` as block and decorator, `signal` with callbacks | a block ends with the state it began with |
| Shape algorithms (`ionp-core/src/shape.rs`, `array.rs`) | an iterator's odometer | broadcasting, no-copy reshape, slice normalisation, `NdIter` | agree with the definition by element order |
| Index plans (`ionp-core/src/indexing.rs`) | none | mixing slices, index arrays and masks | the positions the key names, in order |
| Array manipulation (`ionp-core/src/manip.rs`, `ionp-py/src/manip.rs`) | the arrays they write | joining, splitting, rolling, `take`, `put`, `delete`, `insert`, diagonals, `resize` | each result element comes from the element the definition names |
| Ufunc engine (`ionp-core/src/ufunc.rs`) | none | elementwise operations, `reduce`, `accumulate`, `reduceat`, `at`, `outer` | every element is folded once; results keep the memory order |
| Sort, search (`ionp-core/src/sort.rs`, `ionp-py/src/sort.rs`) | none, apart from the sorted array | `sort`, `argsort`, `lexsort`, `searchsorted`, `nonzero` | order, stability, NaNs last |
| Set operations (`ionp-core/src/setops.rs`, `ionp-py/src/setops.rs`) | none | `unique`, `isin`, `intersect1d`, `union1d`, `diff` and so on | sets of the elements; indices that lead back to them |
| Random (`ionp-core/src/random`, `ionp-py/src/random.rs`) | generator words and a cached half word | draws, `integers`, `shuffle`, `permutation`, `choice`, state save and restore | the stream is settled by seed and widths; every outcome equally likely |
| `MaskedArray` (`anionpy/ma/core.py`) | `_data`, `_mask`, `_fill_value` by reference | arithmetic, mask algebra, indexing, reductions | behaves as an array of optional values |
| `memmap` (`anionpy/memmap.py`) | private array, the file | open, views, copies, write, `fill`, `flush`, end of the process | flushed data survives, the rest of the file stays |
| Dtype promotion and casts (`ionp-core/src/dtype.rs`, `ionp-py/src/dtypeinfo.rs`) | none | `promote_types`, `result_type`, `can_cast`, weak Python scalars | promotion is an upper bound of its operands; each way of working a dtype out gives the same |
| Fault detection (`ionp-core/src/fpe.rs`) | none | which results signal which category | as IEEE 754 says of the operands |
| Linear algebra (`ionp-ion`) | none | factorisations, solves | numerical |
| matrix, polynomial, char and strings, printing, I/O | none | wrappers, formatting | pure |
| Ledger, tests, tools (`anionpy/_state`, `tests/differential`, `tools`) | data | coverage accounting | outside the program |

**How they interact.** Everything above an array reads it through its window and
writes it in one of three ways: through the shared buffer
(`shared_buffer_mut`: setitem, copyto, in-place operators, `out=`), after a
copy on write (`Arc::make_mut`: `put`, `ufunc.at`, `sort`, one-axis `shuffle`),
or by rebinding `inner` to a new buffer (`fill`, `@=`, two-axis `shuffle`). Which of
the three a caller uses decides what other arrays see. Operators end by calling
`signal` for each fault category, and `signal` may run user code, which may call
anything. `MaskedArray` and `memmap` hold arrays by reference and rely on which of
their operations view and which copy.

**What is hard.** Calls are atomic under the GIL, so the difficulty is in
histories: a view, then a copy on write, then a write through; in overlap:
an element loop that reads the buffer it writes; and in layouts: the same algorithm on
reversed, stretched, transposed, zero-length and 0-d windows. In `fpstate.rs` it is
nesting, callbacks, exceptions and threads; in the generators the mix of draw
widths and copies of a generator; in `memmap` fills, two flushing threads, and the moment the process ends.
`PROJECT.json` lists every hazard with its line and the properties that watch it.

## 2. Modules

| Module | What it is |
|---|---|
| `Strided` | windows of one axis, slices, broadcasts, and `Assign`: the result of a sequence of element writes |
| `ViewContract` | abstract: the memory model NumPy promises (regions, windows, nothing else) |
| `ArrayStore` | the memory model of the code; implements `ViewContract` under a refinement mapping |
| `WriteLoop` | one write call opened up into element steps |
| `ErrState` | the error state under threads, blocks, callbacks and exceptions |
| `WriteBack`, `Memmap` | abstract: a file and what was flushed to it; detailed: `memmap.py` over arrays, ties and a two-step flush |
| `MaskedValues`, `MaskedArray` | abstract: arrays of optional values; detailed: data, mask and fill value by reference |
| `BitGen`, `Sampling`, `Generator` | the draws of a bit generator; the sampling algorithms over a stream; the objects and their calls |
| `Layout` | shapes, strides, memory orders, the odometer, broadcasting, no-copy reshape |
| `Indexing` | slices, keys, and the plans of index arrays and masks |
| `Arrange` | joining, splitting, moving, selecting and overwriting elements |
| `Elements` | the operations on whole arrays: key reads and writes, `take`, `put` and their kin |
| `Reduction` | the loops of `reduce`, `accumulate`, `reduceat`, `at`, `outer`; argmax |
| `Sorting`, `SetOps` | the comparison orders and sorts; the set operations |
| `NdArrays`, `Searches` | the calls as actions: a session meets an array of any layout and calls an operation on it |
| `ArrayValues`, `OrderedValues`, `SetValues` | abstract: each operation by its index-by-index definition, without memory |
| `Dtypes`, `ResultType` | promotion, casting rules and weak scalars; `result_type` as a fold over its arguments |
| `UfuncTypes`, `Ufuncs` | the dtype tables of the ufunc engine; a call, an operator or a fold from its arguments to its result |
| `MC...` | symmetry sets and constants for TLC |
| `ArrayStoreProofs`, `LoopProofs` (of `WriteLoop` and `ErrState`), `MemmapProofs`, `MaskedArrayProofs`, `GeneratorProofs`, `UfuncsProofs`, `LayoutProofs` and `NdArraysProofs` (of `NdArrays` and `Searches`) | the proofs |

Layers: `Layout`, `Indexing`, `Arrange`, `Elements`, `Reduction`, `Sorting` and
`SetOps` extend one another in this order; `NdArrays` turns the first five into
actions, `Searches` adds the last two, and `Searches` implements `SetValues`, which
extends `OrderedValues` and `ArrayValues`.

### ArrayStore and the code

A *handle* is a Python `ndarray` object, `arr[h]` its `PyArray`: the buffer behind
its `Arc`, its window (the cell of each element in C order, which is what shape,
strides and offset describe), its `_base` and its `_readonly` mark. `named` is the
set of arrays that Python code refers to. `Become` is the end of every action:
an object without a name and that is not the base of a named one is dropped, and a
buffer without an array is freed. `kin` is a history variable: which arrays NumPy
says share memory. It is set where views are made and never read by an action.

Each action is one call: `ArrayCall` is `array(a)`, which clones the `Arc` and
detaches it before returning (the whole buffer is copied and the window kept);
`View` is a basic slice or a shape operation that needs no copy; `ReshapeCopy` makes
a hidden owner only its view's `_base` keeps alive; `AsArray` makes a second object
without a base; `Pos` is `+a`. Writers are grouped by what they do to the
buffer: `WriteThrough` (`SetItem`, `CopyTo`, `InPlace`), `MakeMut` (`CowWrite`,
`Sort`, `SortDescending`, `Shuffle1D`), `Rebind` (`Fill`, `IMatMul`, `ShuffleND`).
The read-only guard is where the code has it, in `SetItem` and `CopyTo` only.
`Calls` selects the part of the API a run or a theorem is about.

Left out: dtypes (a value is already cast), arrays with more than one axis (a
window is a sequence of cells; `NdArrays` has the axes), empty and 0-d arrays, the
setters of `shape`, `real` and `imag`.

### WriteLoop and the code

`Enter` is the moment an entry point has checked its operands and decided whether
the source is read live or from a private copy (`staged`): `unalias` in
`__setitem__`, staging in `scatter`, materialisation in `copyto`, a computed buffer
in the in-place operators, and a clone in the identity ufuncs. The `where=` mask is a
private copy in `copyto` and a live view for `out=` (entry `"where_overlap"` when it may
share memory with the target). `Element` is one iteration, `Return` the end of the
call. `old` and `want` are history variables: the buffers and the values at entry.

### ErrState and the code

`state[t]` and `handler[t]` are the thread-locals `STATE` and `CALLBACK`, `saved[o]`
the slot behind the mutex of an `errstate` object. `scope[t]` is the stack of `with`
blocks and running callbacks that Python keeps in order, with the state at entry as
a history field. A step belongs to one thread and is atomic under the GIL;
threads interleave between steps. `Shared` says whether the program enters an object
again before it has left it (a recursive decorated function, or one object in two
threads). Mode 'warn' runs the warning machinery, which may call user code or
raise; 'call' and 'log' run the registrant or raise when there is none.

### Memmap and the code

A file is a sequence of bytes, an element is one byte. Opening decodes the elements into a
private array; an object has the cells it shows of a buffer, its mode, and the object that
opened the file (`root`, the end of the `_base` chain). Views and copies follow which of the
operations the code lets share memory: a view shows cells of its parent's buffer, a copy those of a
buffer allocated by the call (buffers are numbered by the calls that allocate them). `m[...] = v`
changes the buffer, so every object that shows those cells sees it. `fill` does not: it
ends in `ndarray.fill`, which computes a fresh buffer in C order and rebinds the array to it
(`ndarray_attrs.rs:1251-1254`). The action gives the object a new buffer and leaves its mode and
its root; the objects it shared memory with keep the old one. So a filled view flushes its
root's array, without what was filled, and the views of a filled root write where no flush
reads.

`flush` is two actions, as in the code: the root's array is encoded in the order of the file,
and the bytes are stored later; other threads write and flush in between, and the process may
end before, between or inside them (a store cut short leaves each byte old or
new). Three things are history and no part of the code: `dirty` (objects whose array was
written since the bytes in the file were encoded), a job's `clean` (no write since it encoded) and
`filled` (buffers a fill put in the place of others). `CleanIsSaved` speaks of the array of
the object that opened the file and of each element at its place; a flush overtaken by a write
leaves the object dirty. `TiesFollowMemory` says that ties and memory part by a fill and by no
other call. `WriteBack` knows only the files, the open copies and the saves under way.

### MaskedArray and the code

Data, mask and fill value are objects held by reference, as in `core.py`; each action
creates, shares or replaces them as the method does. `MaskedValues` has arrays
of values or *hidden*, and which of them share. `Mismatched` admits operands of
different lengths (see the divergences).

### Generator and the code

`BitGen` has a stream of words of `2*Half` bits, the constant `Stream`, in place of the
six real algorithms: the properties use only that word `i` of seed `s` is a function of
`s` and `i`, and `MCStream` is one such function. `next_uint32` caches the other half as `mod.rs` does. `Sampling` reads the
algorithms of `bounded.rs` and `discrete.rs` as functions from the words of a
stream to a result and the number of words used. `Generator` has the Python objects: bit
generators and Generators, which may be copies, drawn from in any order. A method that draws
several times lists what it asks for (`Raw`, `Bounded`, `Interval`) and `Draws` answers the list in a
row; the loops whose next request depends on the last answer are written out (`Rounds` of a
weighted choice, `hypergeometric`, and `Marginals` over the colors of an urn). Evenness
(`Uniform`, `SamplesAreFair`) is counting: over all words the algorithm may meet, each
outcome occurs equally often.

### NdArrays, Searches and the code

An array is a buffer, a shape, strides and an offset (`Layout`). The state is the
array a session has, and the last call with its outcome: a result, a
write, or a raise. Operations depend on nothing but the layouts they meet, so a session
is one call (`MaxCalls = 1`) and the initial states are the layouts calls return: own
C- or F-ordered memory, a key applied to it, its axes rotated, an axis stretched by
broadcasting. Elements are distinct powers of two, so that a sum says which
elements were folded and how often. Where values matter (sorting, searching, sets),
a key first replaces them by elements of a kind: integers `<<x, 0>>`, floats with
a second part that tells zeros of either sign and NaN payloads apart, complex numbers
as pairs; vectors of length 3 get every key of each kind.

The abstract modules name, for each call, the element of the operand (by its
index) that stands at each index of the result, or that the call raises.
Where the code is narrower than NumPy they follow the code: integers next to index
arrays are basic; a zero-length ellipsis may stand between index arrays; index arrays
of the `_along_axis` family must match `arr` off the axis (`AlongIndices`); a reduction of
an empty group into an empty result raises; `Diag` takes vectors; writes go to
arrays whose elements have a cell each (`Writable`); a scalar key refuses values
with axes, a whole-array mask values of more than one axis, and `a[k] = v` drops leading unit axes.
Set operations on two arrays and `searchsorted` get vectors; `assume_unique` is
passed only with distinct elements; the elements of `nanarg...` stay inside their sentinels (with
real infinities the code, like NumPy, may return the place of a NaN); of a group of
complex NaNs the index is that of the first of the least in order, the value any
member; a descending in-place sort of integers is called at offset 0 (see
`sort_descending`). Left out: dtypes, casts and the arithmetic itself.

### Ufuncs, ResultType and the code

A dtype is a kind and a width, so that the hand-written tables of `dtype.rs` become rules,
and `SAFE_CAST`, which is a matrix, becomes six lines; text dtypes take part in promotion,
casting and `result_type`. A Python int is its sign and its number of bits, which is all that the
bound checks look at.

`ResultType` has one action per iteration of the fold in `dtypeinfo.rs`. `Ufuncs` keeps one
record, the call in progress. `CallUfunc` is the extraction at the head of `__call__`, where a
scalar takes a dtype from the array beside it or raises; `CheckCasting` is the test of
`casting='no'`, the only rule looked at when there is no `dtype=`; `ResolveDtype` is the choice of a
loop when there is one; `Compute` the call of the engine and the cast that follows;
`WriteOut` and `WriteInPlace` the store. `Operate` and its kin are the methods of
`PyArray`, which extract scalars with code of their own and ask about the store before they compute.
`Reduce` and `Accumulate` choose the dtype of a fold, and a fold that comes to
an element function without an arm for it is `"panicked"`. An exception at any
stage leads back to `Idle`.

`UfuncTypes` keeps apart what the code keeps apart: the loops each ufunc declares
(`LoopTable`, for `dtype=`), the dtype it gives (`OutDtype`), the one it computes in
(`ComputedIn`), the one `casting='no'` compares with (`CastingLoop`), and the dtype and arms of its
folds. A table is a function from places of the one order in which all of them list their rows
(`LoopOrder`; the two mixed rows of the comparisons have places of their own) to rows, so that the first row that
takes the operands is the least place. 26 operations stand for the 78 ufuncs with a table, each for those whose
rows are all like its own.
Left out: text operands, the ufuncs with two results, values and shapes (a fold on an
empty axis, a negative integer power), and `where=`, which `WriteLoop` has.

## 3. Runs

| Run | Instance | Result |
|---|---|---|
| `arrays_values` | 2 arrays, 2 buffers, windows up to 3, two values, every call but `+a` | `StrangersNeverShare`, `WritesStayInKin` hold |
| `arrays_contract` | 3 arrays, 3 buffers, windows up to 2, two values, the calls that write through or share | `BaseOwnsBuffer`, `KinShare`, `BaseIsRoot`, `InBounds` hold, the store implements `ViewContract` |
| `write_loop` | 2 buffers of 3 cells, windows up to 2, one-bit values, with masks | `SnapshotSemantics` holds; `Returns` under fairness |
| `errstate` | 2 threads, 2 objects, 2 categories, 2 modes, nesting up to 2, no shared object | `SavedIsScope`, `RestoresOnExit` hold |
| `memmap` | 2 objects over one file of up to 4 bytes, empty or of two bytes at first, granules of 2, offsets 0, 2 and 3 (at 2 an empty mapping starts one granule earlier), every mode, views, copies, fills, two flushing threads, the end of the process anywhere, 3 calls | `TypeOK`, `TiesFollowMemory`, `CleanIsSaved` hold, implements `WriteBack` |
| `masked` | 3 objects, 4 mask buffers, none to two elements, every modelled method, 3 calls | `TypeOK`, `SameShape`, `ReductionsSeeVisible` hold, implements `MaskedValues` |
| `generator` | 2 objects, half words of 8 bits, a period of 5, up to 4 calls | `ReplaysStream`, `IntegersFollowStream`, `Uniform`, `SamplesAreFair`, `WeightedAreDistinct`, `UrnsAddUp` hold |
| `ndarrays` | 75 layouts of shapes `()`, `(0)`, `(1)`, `(3)`, `(6)`, `(2,3)`, `(3,1)`, `(2,0)`, `(2,2,2)`, every modelled call with small arguments | `TypeOK`, `FlagsSayTheOrder`, `ExtentIsTight`, `ReshapeCopiesOnlyIfMust`, `ResultsKeepOrder`, `WritesStayInside` hold, implements `SetValues` |
| `ufuncs` | 14 numeric dtypes, Python ints around the limits of 8, 16, 32 and 64 bits, 26 operations, every `casting=` and `dtype=`; `result_type` of up to 3 arguments with text among them | `HoldsEvery`, `AgreesWithResultType`, `OperatorsAgree`, `ComputesInALoop`, `CastsObeyTheRule` hold |
| `positive_aliases` | `new`, `+a`, in-place | `WritesStayInKin` violated |
| `sort_descending` | `new`, views, descending sort | `SortKeepsElements` violated |
| `errstate_shared` | as `errstate`, objects may be shared | `RestoresOnExit` violated |

The type invariants of `ArrayStore`, `WriteLoop` and `ErrState` are in no run: they are proved.
Those of `Memmap` and `MaskedArray` are in a run, where a mutant tries them, and proved.

**Bounds.** Three arrays are the fewest with a view of a view and its root, or a
view beside a copying reshape and its hidden owner. Three buffers leave a free one
for a copy on write while two are in use; a call that needs a buffer when none is
free is not explored (the allocator does not fail in the code). Windows of three cells have
slices with a step, reversed, with an offset and with repeats by broadcasting; where
three arrays are needed two cells still have reversal, offset and repetition.
One value suffices when the properties are about structure; two tell a
stale read from a fresh one. In `write_loop`, two buffers cover the overlapping and the
disjoint case, and windows of two on three cells have overlap in both
directions. In `errstate`, nesting two has a block in a block, a callback in a
block, a block in a callback; the object sets one category and leaves the
other alone. In `generator`, a stream of five words is longer than any mix of four calls can
leave unused, six tries let every rejection loop reject and accept, and two objects are a
generator and its copy. In `ndarrays` the constants of the loops are scaled so that
their cases occur on six elements: `Width` 2 for the 8 accumulators of pairwise summation,
`Block` 4 for its 128, `Cutoff` 2 for the 15 elements below which sorting inserts, `Depth` 0 for the
depth factor at which quicksort gives up for heapsort; the shapes have zero-length axes, unit
axes, a 0-d array, and enough axes for a transposed middle one.

Deadlock is checked in every run but `masked`, `generator`, `ndarrays` and the violations where
a bounded session comes to its end and nothing is left to do.

**The violations** are disagreements between the code and its own comments or
documentation; `PROJECT.json` quotes them. In short: `+a` returns an array on the memory of `a`; the descending sort of an integer view
reverses the wrong cells; an `errstate` object entered twice at once loses a state.

**Fairness.** `write_loop` assumes weak fairness of `Element` and `Return`: a loop runs
in the thread that entered it, holds the GIL and waits for nothing, so it
runs on until it returns. Every other property is a safety property: no other component
schedules work, waits for another or retries, except the rejection loops of the
generators, whose end is certain only with probability one; nothing is claimed of it.

### Divergences without a run

Met while modelling; each is excluded by a guard or constant named here, or lies outside
the modelled calls.

* Identity ufuncs with an `out=` that overlaps the operand read back what they wrote
  (entry `"identity"` of `WriteLoop`); a live `where=` mask overlapping a bool `out=` is
  read while it is written (entry `"where_overlap"`).
* `put_along_axis(axis=None)` replaces the array by a copy (`manip.rs:2726`), though its comment
  (2721-2724) speaks of copying into the array's own storage: a view leaves its
  parent. `WritesStayInside` leaves that call out.
* `memmap`: with `Mistied`, a gather or a copying `ravel` carries the mode and tie of its parent,
  and an F-ordered `reshape` of a read-only memmap is an untied writable view, against
  `memmap.py:426`. Two flushing threads may store older bytes over newer ones: `ImplementsWriteBack`
  allows it, and `CleanIsSaved` claims nothing of the overtaken flush.
* `memmap.fill` (`memmap.py:416-419`) leaves the shared memory, though `ndarray.fill` is called a true in-place
  mutation (`ndarray_attrs.rs:1156`) and `flush` says a view's flush reaches its root (`memmap.py:428-430`):
  after `v = m[0:2]; v.fill(7); v.flush()` the file lacks the 7, and after `m.fill(7)` the views
  taken before write to memory that no flush reads.
* `MaskedArray`: with `Mismatched`, a mask of another length passes a binary operator
  (`core.py:1201-1204`, docstring 187-189). Shape operations, copies and `masked_where` make
  the fill value explicit (1232, against 195-210). The docstring of `argmax` (3305-3310)
  fails when the visible elements equal the least value of the dtype. `masked_array(ma, mask=m)`
  replaces the mask. `a %= a`, or `a %= b` on shared memory, changes the other operand, though
  3652-3660 says it does not. `masked_values(x, nan)` un-hides. Results share their
  operand's mask object (1134, 1202-1204).
* Reductions: the output size is floored to one (`ufunc.rs:7111`, 7119), so
  `zeros((0, 0)).sum(axis=0)` raises; `initial` ignores the offset of a 0-d view (about 7700 and 8985).
* `fill_diagonal` with a value of another dtype that is a contiguous view with an offset reads
  from the first cell (`manip.rs:2067`, doc 2009-2011); `take_along_axis` and
  `put_along_axis` drop index rows when `arr` has length one off the axis (2646-2694, doc 2501-2510);
  `put_along_axis` raises mid-loop after earlier writes (2797); `put` with indices and no
  values panics (2469).
* Python integers beside index arrays are basic here, advanced in NumPy (`a[0, :, [0, 1]]`);
  `normalize_slice` overflows for steps near `isize::MAX`; `diff` with an explicit `None` always raises.
* The copy-on-write writers (`ufunc.at`, `put`, `sort` and others) separate an array from its
  views for good, though `KNOWN-DIFFERENCES.md:277-279` says callers never see it; `arrays_contract`
  leaves those calls out of its instance.
* `reduce(..., dtype=)` takes the dtype unchecked (`ufunc.rs:7676`, 8947): `divide.reduce(x, dtype=int64)`,
  `bitwise_and.reduce(x, dtype=float64)` and others come to the `unreachable!` of `int_same`
  (2318) and its kin, a panic. `ComputesInALoop` says only that a fold without `dtype=` does not.
  `accumulate` and `reduceat` drop `dtype=`.
* A comparison of `int64` with `uint64` computes in `float64` (`ufunc.rs:3649`), though the comment at
  1963 speaks of a native mixed loop and `lib.rs:8092-8103` of comparing by value.
  A comparison operator gives a Python scalar its default dtype, the ufunc that of the array
  (`OperatorsAgree` leaves these out).
* `result_type` depends on the order of three dtypes: `int16, uint16, float32` give `float64`,
  `float32, int16, uint16` give `float32`. `bool, int8, S1` give `S4`, which does not hold a bool in writing:
  `HoldsEvery` asks only for the text dtypes then.
* `float_power` and `ldexp` ignore `casting=`, also together with `dtype=` (the comment names only
  the check of 'no'); `logical_*` takes the truth of any operand under 'no' (`Excused`).
* Fault detection pairs broadcast operands by `i % len` (`fpe.rs` 206-216).

## 4. Proofs

Each proof module extends the module it is about. A theorem about a specification has the same form
everywhere: an inductive invariant holds of `Init`, every action of `Next` preserves it (one
lemma per action), and it implies the property. The assumptions on constants are those the modules state
(`...Assumption`, evaluated by TLC in every run); a further hypothesis stands in the theorem.

### The array store

For every set of arrays, buffers and values, every length bound and every subset of the calls:

* `StoreTypeCorrect`, `StaysInBounds`, `BasesAreRoots`: `TypeOK`, `InBounds` and `BaseIsRoot`.
* `NoAccidentalAlias`, `NoActionAtADistance`, if unary plus is not used:
  `StrangersNeverShare` and `WritesStayInKin`.
* `KinShareForLife`, `BasesOwnTheBuffer`, `StoreImplementsContract`, if no call is used that moves an array to
  another buffer (`Calls \cap Detachers = {}`): `KinShare`, `BaseOwnsBuffer`, and the refinement of
  `ViewContract`. The hypothesis is that of the run `arrays_contract`, and is needed: a copy on write
  separates an array from its views (see the divergences).

The inductive invariant (`StoreInv`) is the conjunction of the type invariant, `InBounds`,
`BaseIsRoot`, and what those do not say about themselves: a named array is live, and the window of a
live array is not empty and monotone (rising or falling, repeats allowed). Monotonicity is what a
descending sort needs: it counts cells from the first element of the window, and only a window that
runs in one direction makes that count a cell of the buffer. `StrangersNeverShare` (`KinInv` in the
proofs) is inductive together with `StoreInv`, because a new view becomes kin of the whole group its
parent belongs to; unary plus is the one call that breaks it. `WritesStayInKin` follows: a call through
an array changes only arrays on that array's buffer (`Reaches`, one lemma per class of writer), calls
that create arrays or change names change no contents (`Keeps`), and arrays on one buffer are kin.

The contract needs two more parts. `FamilyInv`: kin are on one buffer, and so are an array and its base.
`TidyInv`: between calls every array is named or the base of a named one, what is not an array is blank, and
a buffer without an array is empty; this is what makes the buffer a constructor takes a *fresh* region
of the contract. Each call then
is a step of the contract: a new region, a view of cells of an existing one, a write inside the cells of a
window, or a stutter.

### The write loop

For every size, window length, operation and subset of entry points:

* `LoopTypeCorrect`: `TypeOK`, without live `where=` masks on overlapping memory.
* `SimultaneousAssignment`: without those and without identity ufuncs on overlapping memory,
  `SnapshotSemantics`. The invariant adds that a call that reads its source live reads another
  buffer, which the loop does not write, and that such a source still reads as `want`. One step of
  the loop is one step of `Assign` (`AssignNext`); its maximum over
  a finite set of positions comes from well-founded induction.

### The error state

For any threads, objects, categories, modes and nesting bound:

* `TypeCorrect`: `TypeOK`.
* `SlotsMatchScopes` and `BlocksRestore`: if no object is entered twice at once, `SavedIsScope` and
  `RestoresOnExit`. The invariant adds `OneBlockPerObject`: at most one open block of each object
  over all threads, without which popping a frame could empty the slot of another.

### Mapped files

For any objects, files, bytes, threads, offsets and shapes:

* `MemmapTypeCorrect`, `FlushedIsSaved`: `TypeOK`; and `CleanIsSaved`, however writes, fills and the two halves
  of the flushes of several threads interleave, also when results are tied to a file by mistake.
* `TiesFollow`, `MemmapImplementsWriteBack`, if no call ties a copy or unties a view (`~Mistied`):
  `TiesFollowMemory` and the refinement of `WriteBack`. An element write edits the copy whose
  buffer it reaches, a fill the copy of the object filled, if that opened the file.

`Inv` adds to `TypeOK` that an object shows, as a matrix, cells of a buffer allocated before (`MemInv`), so
that the next one is fresh; that an object that opened a file leads to itself (`SourceInv`);
that the file of an only writer has room for its array (`RoomInv`); that the bytes of a flush
under way are those of the array unless it was overtaken by a write (`JobInv`); and that the
file of a clean array holds those bytes in sequence (`SavedInv`). `CleanIsSaved` follows by
`EncodeFacts`: the element at a position in C order is encoded at its place in the order of the
file, which is quotient and remainder turned round. `TiesFollowMemory` is inductive beside `Inv` as
it stands; it gives the refinement the one copy an element write can reach.

### Masked arrays

For any values, element functions on them, masks, objects and buffers:

* `MaskedTypeCorrect`: `TypeOK`, masks of another length included.
* `ShapesStay`, `MaskedImplementsOptional`, if no mask of another length is let in (`~Mismatched`):
  `SameShape` and the refinement of `MaskedValues`.
* `VisibleDecides`, under the same condition: `ReductionsSeeVisible`, for every array and every reduction whose
  identity changes nothing on the right.

`Inv` is `TypeOK` and `MemInv`: data lie in the buffer of an object that exists, and the cells of an
array, and of a mask, are all different, so that a write reaches one element. For each call one lemma
(`Good`) shows at once that it preserves `Inv`, keeps shapes, and is the step of `MaskedValues` that the history
names. Results, views, shared masks and in-place remainders share in the abstraction
exactly what they share in memory. `cumsum` is a recursion over the elements; its lemma takes the least place
where a visible running sum would differ. For the reductions, `Seeing` are the visible elements
of each initial piece: a fold over the filled data takes the same steps (`FoldFilled`), and the k-th of them
is the one `compressed` finds by its rank (`SeeingRanks`). Assumed of the constants: element functions give
values, adding zero or an identity changes nothing, and there is a free mask buffer whenever a call
allocates one (the allocator does not fail in the code).

### Generators

For any word width, streams, period, number of objects and calls, dtypes, ranges, urns:

* `AnswersReplayTheStream`: `ReplaysStream`.
* `IntegersFollowTheDraws`: `IntegersFollowStream`.
* `IntegersAreUniform`: `Uniform`.
* `WeightedChoicesDiffer`: `WeightedAreDistinct`.
* `UrnsAlwaysAddUp`: `UrnsAddUp`.

The invariant says of every object that its history of draws follows the stream and that its position and cached
half are those the history leads to (`Faithful`: `Poised`), and of the last call what its property asks
(`LastSound`). Each draw appends one entry, and `Faithful` passes through rejection loops, sub-word
buffers, lists of requests and copies. For the urns, `UrnSound` is the invariant of the
drawing loop: balls left, balls drawn and draws to do always fit, so that neither kind is overdrawn and the last
color takes what remains. For `Uniform`, the words that Lemire's rejection keeps for a value are those
whose product with the size of the range lies in one stretch, and every stretch of that length has the same number of
multiples (`MultiplesInARow`, `KeptProducts`). Loops are recursive functions over an initial piece of
`Nat`; statements about all their steps are proved from the least step where they would fail (`Least`, `UpTo`).

For `IntegersFollowStream`, `Cut` says what the sub-word buffer of a call holds at any moment: the pieces handed
out so far and those left in the buffer are together all pieces of the words drawn (`CutFresh`, `CutNext`). A
rejection loop adds the pieces it discards and the one it keeps (`FirstDrawn`), so that after each value
as many pieces are kept as values returned (`KeptSoFar`), and the last piece is one of them: without the last word
there would be too few. Between calls an object has no piece left over (`Object`). For a weighted choice, a draw below
the sum of the weights falls on an index of positive weight (`WeightedIs`), and a round that zeroes
the weights of what was found, and keeps the first of each index, finds nothing twice (`RoundPicks`).

Assumed: each power of two up to that of a word is twice the one before (`PowersAssumption`; the provers know
powers only as numbers), no more bits are dropped than there are, and populations fit a signed word, as a Python `int`
converted to `i64` does.

### Dtypes of the ufunc engine

For any dtypes, text of any width, Python scalars and any number of arguments:

* `ResultTypeHoldsEvery`, `SessionHoldsEvery`: `HoldsEvery`, of calls of `result_type` alone and of a session
  with ufuncs in between, which to `result_type` is one that only calls it (`SessionRefinesResult`). The step rests
  on three lemmas about all dtypes: promotion is an upper bound of both operands under safe casts,
  safe casts are transitive, and a weak scalar never lowers the base.
* `SessionOperatorsAgree`: `OperatorsAgree`. The two extractions of a scalar give one dtype or
  both raise, case by case over the kind of the scalar and of the array.
* `SessionAgreesWithResultType`: `AgreesWithResultType`. The fold over two arguments, in either order, is
  the promotion the engine applies.
* `SessionComputesInALoop`: `ComputesInALoop`. The central fact is that promotion of two numeric dtypes *comes
  first* (`PromoteComesFirst`): in the order of the loop tables it is the first dtype that both can be cast to
  safely. So the first row a table finds for the operands is the row of their promotion, within the kinds the
  ufunc has loops for, and the three descriptions of a loop (table, output dtype, dtype computed
  in) name one row. With `dtype=`, every row the search can find stands for itself (`EveryRowStands`), and folds
  come only to element functions with arms (`FoldsHaveArms`). `OnItsWay` is the invariant: what
  a call carries at each stage is what the stages before it settled.
* `SessionResultsObey`, `SessionCastsObey`: `CastsObeyTheRule`. An in-place operator asks two steps before
  it stores; `Allowed` carries the answer over the computation. For operands, what `casting='no'` or the
  rule of `dtype=` was tested on is the row computed in (`OwnOperandsObey`, `AskedOperandsObey`).

### Array operations

For any start shapes, any number of calls, any width, block size, cutoff and search depth:

* `FlagsAreRight`, `SearchFlagsAreRight`: `FlagsSayTheOrder`, of the calls of `NdArrays` alone and with those of
  `Searches`.
* `ExtentIsRight`, `SearchExtentIsRight`: `ExtentIsTight`, likewise.
* `AlwaysLaid`, `SearchLaid`: the invariant these rest on.

`Laid` says that an array has one integer stride for each axis and an integer offset. It holds of every
array that any of the calls leaves: one lemma for each operation, views, copies, keys, reductions, sorts and set
operations alike, shows that it raises or returns such an array (`Sound`), and one for each action that it calls the
operation with such arrays. What has to be shown is that the ranks agree: that a key names every axis once
(`WholeIs`, `FreeAxes`), that grouping the axes of a reshape gives a stride to each new axis
(`RestridedIs`), that the axes kept by a reduction are a permutation (`KeptTurns`), that a broadcast is
no shorter than its operands (`BroadcastIs`).

`LaidFlags` and `LaidExtent` then say of *every* such array, whatever its strides, that the flags are true exactly when
the cells count up, and that `memory_extent` begins and ends with a cell and has all cells in between. Positions
are quotients and remainders by the sizes of inner axes; a cell is a sum over axes. Sums and
products over a shape are local recursive functions, of which the provers know only the equation: the proofs show
that there is a function with that equation (`ChainExists`) and count up to its last value (`UpTo`). For the flags, the
cells of the first two elements along each axis decide; for the extent, each axis adds its lowest or highest reach.

Assumed: shapes are sequences of naturals, and `Raised` is neither a number nor a shape.

### Model-checked only

* Liveness: `Returns` of `write_loop` (fairness is out of the prover's reach).
* Of `ndarrays`: `TypeOK`, that the cells of every view stay inside its buffer, which needs the invariant `Laid`
  together with the reach of the strides of each operation; what the results are (`ResultsKeepOrder`,
  `WritesStayInside`, the refinement of `SetValues`), where sorts, folds and searches over the elements need
  induction over data, for which the installed provers have no rule; and `ReshapeCopiesOnlyIfMust`,
  which quantifies over all strides.
* `SamplesAreFair`: counts functions and permutations, with factorials.

## 5. Plan

1. *Done.* The array store and its contract, the write loop with its masks and its end, the
   error state; their type invariants and central safety invariants proved.
2. *Done.* The array algorithms against index-by-index definitions: layouts, keys, index
   plans, manipulation, reductions, sorting, searching, sets.
3. *Done.* The bit generators and sampling, `MaskedArray`, `memmap`.
4. *Done.* Dtype promotion, `result_type`, and the way of a dtype through the ufunc engine.

5. *Done.* Proofs of the store's contract, `Memmap`, `MaskedArray`, the generators, the
   dtypes of the ufunc engine, and the layout of the array operations.

Next, of proofs: that no view leaves its buffer. Of the model: fault detection (`fpe.rs`);
   the loops of the integer ufuncs at their widths; the polynomial families as exact arithmetic.

### Not modelled

Linear algebra (numerical kernels, partly external), polynomials, FFT, continuous
distributions, binomial and multinomial, HRUA, SeedSequence mixing, statistics and quantiles
(numeric code without shared state); strings, formatting and file parsing; the `arange` family,
`pad`, `meshgrid`; the ledger and the test tools (not part of the program); free-threaded
interpreters (the code states that it relies on the GIL). `Generator(bits)` clones its
bit generator, a gap documented at `random.rs:746-753`; such objects draw only 64-bit words, so
a clone never carries a cached half. The map covers a small share of the lines: much of the Rust code is
per-dtype numerics, dispatch tables and Python argument parsing, for which one
definition stands for many lines or none.
