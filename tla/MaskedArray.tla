---------------------------- MODULE MaskedArray ----------------------------
(***************************************************************************)
(* `anionpy.ma`: an object holds a data array, a mask (the singleton        *)
(* `nomask` or a bool array) and a fill value.  Both arrays are kept as     *)
(* they are given, by reference; calls share, copy or recompute them.       *)
(*                                                                          *)
(* Arrays have one axis and one element type.  An array is a buffer and the *)
(* cells of its elements; a data buffer is named by the object whose call   *)
(* allocated it.  What element functions compute is given by constants.     *)
(***************************************************************************)
EXTENDS Strided

CONSTANTS Objs,       \* numbered as they are created
          Buffers,    \* memory for masks
          Value, Finite, Masked, None, NoMask,
          NewData, NewMasks,   \* what the user builds arrays from
          Fills, Unset, Default,   \* explicit fill values, none, the dtype's default
          UnaryFns, BinaryFns, \* element functions
          DomainedUnaryFns, DomainedBinaryFns,   \* [fn, dom]
          Rem, RemFill,        \* `%`, its domain, the constant stored outside it
          Preds, Eq,           \* element tests, equality
          Plus, Zero,
          Reductions,          \* [fn, id]
          Mismatched,          \* whether masks of another length are let in
          MaxLen, MaxCalls     \* bounds

ObjRec == [buf : Objs, cells : Seq(Nat), mbuf : Buffers \cup {NoMask}, mcells : Seq(Nat),
           fill : Value \cup {Unset}]

\* Element functions stay in the element type, and the masks of the objects never take up
\* all the memory for masks.
ASSUME MaskedAssumption ==
    /\ Objs \subseteq Nat /\ Buffers \subseteq Nat /\ NoMask \notin Buffers
    /\ Finite \subseteq Value /\ Fills \cup {Default, Zero, RemFill} \subseteq Value
    /\ Unset \notin Value /\ Masked \notin Value
    /\ None \notin ObjRec \cup Seq(Value \cup {Masked}) /\ MaxCalls \in Nat
    /\ NewData \subseteq Seq(Value) /\ NewMasks \subseteq Seq(BOOLEAN)
    /\ UnaryFns \subseteq [Value -> Value] /\ BinaryFns \subseteq [Value -> [Value -> Value]]
    /\ DomainedUnaryFns \subseteq [fn : [Value -> Value], dom : [Value -> BOOLEAN]]
    /\ DomainedBinaryFns \cup {Rem} \subseteq [fn : [Value -> [Value -> Value]],
                                             dom : [Value -> [Value -> BOOLEAN]]]
    /\ Preds \subseteq [Value -> BOOLEAN] /\ Eq \in [Value -> [Value -> BOOLEAN]]
    /\ Plus \in [Value -> [Value -> Value]] /\ \A x \in Value : Plus[x][Zero] = x
    /\ \A held \in [Objs -> Buffers \cup {NoMask}] :
          \E b \in Buffers : \A o \in Objs : held[o] # b
    /\ Reductions \subseteq [fn : [Value -> [Value -> Value]], id : Value]
    /\ \A r \in Reductions, x \in Value : r.fn[x][r.id] = x

VARIABLES obj,    \* the masked arrays
          data,   \* data buffers
          bits,   \* mask buffers
          last,   \* the last call
          calls   \* calls so far

vars == <<obj, data, bits, last, calls>>

TypeOK ==
    /\ obj \in [Objs -> {None} \cup ObjRec]
    /\ data \in [Objs -> Seq(Value)] /\ bits \in [Buffers -> Seq(BOOLEAN)]
    /\ \A o \in Objs : obj[o] # None =>
          /\ \A i \in DOMAIN obj[o].cells : obj[o].cells[i] \in DOMAIN data[obj[o].buf]
          /\ obj[o].mbuf # NoMask =>
                \A i \in DOMAIN obj[o].mcells : obj[o].mcells[i] \in DOMAIN bits[obj[o].mbuf]
    /\ calls \in 0..MaxCalls

Live(o) == obj[o] # None
HasMask(o) == obj[o].mbuf # NoMask
DataIn(mem, o) == [i \in DOMAIN obj[o].cells |-> mem[obj[o].buf][obj[o].cells[i]]]
Data(o) == DataIn(data, o)

(***************************************************************************)
(* Masks.  A mask is a reference to bool memory: `nomask`, the mask object  *)
(* of an array, or memory the call allocates.                                *)
(***************************************************************************)
nomask == [buf |-> NoMask, cells |-> <<>>, bits |-> <<>>]
Unused == {b \in Buffers : \A o \in Objs : Live(o) => obj[o].mbuf # b}
Fresh(s) == [buf |-> Min(Unused), cells |-> Whole(Len(s)), bits |-> s]
Mask(a) == IF HasMask(a)
           THEN [buf |-> obj[a].mbuf, cells |-> obj[a].mcells,
                 bits |-> [i \in DOMAIN obj[a].mcells |-> bits[obj[a].mbuf][obj[a].mcells[i]]]]
           ELSE nomask

Zip(Op(_, _), s, t) ==
    LET n == IF Len(s) = 1 THEN Len(t) ELSE Len(s)
    IN  [i \in 1..n |-> Op(Broadcast(s, n)[i], Broadcast(t, n)[i])]
Or(s, t) == Zip(LAMBDA x, y : x \/ y, s, t)
Where(s, x, y) == [i \in DOMAIN y |-> IF Broadcast(s, Len(y))[i]
                                      THEN Broadcast(x, Len(y))[i] ELSE y[i]]
Constant(s, v) == [i \in DOMAIN s |-> v]

getmaskarray(a) == IF HasMask(a) THEN Mask(a) ELSE Fresh(Constant(Data(a), FALSE))

Allocated(m) == IF m.buf \in Unused THEN [bits EXCEPT ![m.buf] = m.bits] ELSE bits

make_mask(m, shrink) ==
    IF m = nomask \/ (shrink /\ \A i \in DOMAIN m.bits : ~m.bits[i]) THEN nomask ELSE m

mask_or(m1, m2, shrink) ==
    make_mask(IF m1 = nomask THEN m2 ELSE IF m2 = nomask THEN m1
              ELSE Fresh(Or(m1.bits, m2.bits)), shrink)

\* The arrays the calls below are made on: their masks have their shape.
Sound(a) == Live(a) /\ (HasMask(a) => Len(obj[a].mcells) = Len(obj[a].cells))
Fits(m, n) == m = nomask \/ Mismatched \/ Len(m.cells) = n

(***************************************************************************)
(* MaskedArray(data, mask, fill_value): both arrays are taken as they are.  *)
(***************************************************************************)
Call(op, on, by) ==
    /\ calls' = calls + 1
    /\ last' = [op |-> op, on |-> on, by |-> by]

Create(o, d, m, fill) ==
    /\ ~Live(o) /\ \A p \in Objs : p < o => Live(p)
    /\ obj' = [obj EXCEPT ![o] = [buf |-> d.buf, cells |-> d.cells,
                                  mbuf |-> m.buf, mcells |-> m.cells, fill |-> fill]]
    /\ data' = IF d.buf = o THEN [data EXCEPT ![o] = d.vals] ELSE data
    /\ bits' = Allocated(m)

FreshData(o, s) == [buf |-> o, cells |-> Whole(Len(s)), vals |-> s]
SameData(a) == [buf |-> obj[a].buf, cells |-> obj[a].cells]
FillValue(a) == IF obj[a].fill = Unset THEN Default ELSE obj[a].fill

New(o) ==
    \E s \in NewData, f \in Fills \cup {Unset} :
       /\ \/ Create(o, FreshData(o, s), nomask, f)
          \/ \E m \in NewMasks : Len(m) = Len(s) /\ Create(o, FreshData(o, s), Fresh(m), f)
       /\ Call("new", <<>>, <<>>)

\* masked_array(a.data, mask=m): no mask, True, False, or the mask object of b.
Wrap(o, a, b) ==
    \/ /\ Create(o, SameData(a), nomask, Unset)
       /\ Call("wrap", <<a>>, Constant(Data(a), FALSE))
    \/ \E h \in BOOLEAN : /\ Create(o, SameData(a), Fresh(Constant(Data(a), h)), Unset)
                          /\ Call("wrap", <<a>>, Constant(Data(a), h))
    \/ /\ HasMask(b) /\ Fits(Mask(b), Len(Data(a)))
       /\ Create(o, SameData(a), Mask(b), Unset)
       /\ Call("wrap", <<a, b>>, Mask(b).bits)

\* masked_array(a): the data, the mask and the explicit fill value of a.
Rewrap(o, a) == /\ Create(o, SameData(a), Mask(a), obj[a].fill)
                /\ Call("copy", <<a>>, Constant(Data(a), FALSE))

(***************************************************************************)
(* Calls on one array                                                       *)
(***************************************************************************)
Map(f, s) == [i \in DOMAIN s |-> f[s[i]]]
Gather(s, pick) == [i \in DOMAIN pick |-> s[pick[i]]]
Revert(a, s) == IF HasMask(a) THEN Where(Mask(a).bits, Data(a), s) ELSE s

\* `make_masked_unary`: the result shares the mask of a.
Unary(o, a, f) ==
    /\ Create(o, FreshData(o, Revert(a, Map(f, Data(a)))), Mask(a), obj[a].fill)
    /\ Call("unary", <<a>>, f)

\* -a, abs(a), ~a.
UnaryDunder(o, a, f) ==
    /\ Create(o, FreshData(o, Map(f, Data(a))), getmaskarray(a), obj[a].fill)
    /\ Call("unary", <<a>>, f)

\* `make_masked_domained_unary`: hidden outside the domain and where not finite.
DomainedUnary(o, a, d) ==
    LET computed == Map(d.fn, Data(a))
        out == [i \in DOMAIN computed |-> computed[i] \notin Finite \/ d.dom[Data(a)[i]]]
        bad == IF HasMask(a) THEN Or(out, Mask(a).bits) ELSE out
    IN  /\ Create(o, FreshData(o, Where(bad, Data(a), computed)), Fresh(bad), obj[a].fill)
        /\ Call("domained", <<a>>, d)

\* Mutation of View: the mask is handed on whole.
ViewKeepsMask(o, a, pick) ==
    /\ Create(o, [buf |-> obj[a].buf, cells |-> Gather(obj[a].cells, pick)], Mask(a), obj[a].fill)
    /\ Call("select", <<a>>, pick)

\* Slices, transpose, reshape, squeeze: views of both arrays.  The methods hand the
\* fill value on as it is stored, the functions make the current one explicit.
View(o, a, pick) ==
    \E f \in {obj[a].fill, FillValue(a)} :
       /\ Create(o, [buf |-> obj[a].buf, cells |-> Gather(obj[a].cells, pick)],
                 IF HasMask(a)
                 THEN [Mask(a) EXCEPT !.cells = Gather(@, pick), !.bits = Gather(@, pick)]
                 ELSE nomask, f)
       /\ Call("select", <<a>>, pick)

\* take, repeat, resize, compress, a[[...]]: both arrays are gathered anew.
Take(o, a, pick) ==
    \E f \in {obj[a].fill, FillValue(a), Default} :
       /\ Create(o, FreshData(o, Gather(Data(a), pick)),
                 IF HasMask(a) THEN Fresh(Gather(Mask(a).bits, pick)) ELSE nomask, f)
       /\ Call("select", <<a>>, pick)

\* copy: the method and the function.
Copy(o, a) ==
    \E f \in {obj[a].fill, FillValue(a)} :
       /\ Create(o, FreshData(o, Data(a)),
                 IF HasMask(a) THEN Fresh(Mask(a).bits) ELSE nomask, f)
       /\ Call("copy", <<a>>, Constant(Data(a), FALSE))

filled(a, v) == IF HasMask(a) THEN Where(Mask(a).bits, Constant(Data(a), v), Data(a)) ELSE Data(a)

\* masked_array(a.filled(v)).
Filled(o, a, v) == /\ Create(o, FreshData(o, filled(a, v)), nomask, Unset)
                   /\ Call("filled", <<a>>, v)

Sums(x) ==
    LET sum[i \in 0..Len(x)] == IF i = 0 THEN Zero ELSE Plus[sum[i - 1]][x[i]]
    IN  [i \in DOMAIN x |-> sum[i]]

cumsum(o, a) == /\ Create(o, FreshData(o, Sums(filled(a, Zero))), Mask(a), Unset)
                /\ Call("cumsum", <<a>>, <<>>)

(***************************************************************************)
(* masked_where and its family: the data stays, the mask widens.            *)
(***************************************************************************)
MaskedWhereImpl(o, a, cond, copied, shrink, fill) ==
    Create(o, IF copied THEN FreshData(o, Data(a)) ELSE SameData(a),
           mask_or(Mask(a), cond, shrink /\ ~HasMask(a)), fill)

masked_where(o, a, b, copied) ==
    \/ \E c \in NewMasks : /\ Len(c) = Len(Data(a))
                           /\ MaskedWhereImpl(o, a, Fresh(c), copied, TRUE, FillValue(a))
                           /\ Call("where", <<a>>, c)
    \/ /\ HasMask(b) /\ Fits(Mask(b), Len(Data(a)))
       /\ MaskedWhereImpl(o, a, Mask(b), copied, TRUE, FillValue(a))
       /\ Call("where", <<a, b>>, Mask(b).bits)

\* masked_equal ... masked_outside, and masked_invalid, which never shrinks.
Comparator(o, a, p, copied) ==
    \E shrink \in BOOLEAN, f \in {FillValue(a)} \cup Fills :
       /\ MaskedWhereImpl(o, a, Fresh(Map(p, Data(a))), copied, shrink, f)
       /\ Call("test", <<a>>, p)

masked_values(o, a, v) ==
    LET xnew == filled(a, v)
    IN  \E shrink \in BOOLEAN :
           /\ Create(o, FreshData(o, xnew),
                     make_mask(Fresh([i \in DOMAIN xnew |-> Eq[xnew[i]][v]]), shrink), v)
           /\ Call("values", <<a>>, v)

fix_invalid(o, a, extra) ==
    LET invalid == Or([i \in DOMAIN Data(a) |-> Data(a)[i] \notin Finite], extra)
    IN  /\ Create(o, FreshData(o, Where(invalid, Constant(Data(a), FillValue(a)), Data(a))),
                  mask_or(Mask(a), Fresh(invalid), TRUE), FillValue(a))
        /\ Call("where", <<a>>, invalid)

(***************************************************************************)
(* Calls on two arrays                                                      *)
(***************************************************************************)
ComputeIn(mem, f, a, b) == Zip(LAMBDA x, y : f[x][y], DataIn(mem, a), DataIn(mem, b))
Compute(f, a, b) == ComputeIn(data, f, a, b)
Compatible(a, b) == Len(Data(a)) = 1 \/ Len(Data(b)) = 1 \/ Len(Data(a)) = Len(Data(b))

\* Mutation of Binary: the mask of b is forgotten.
BinaryLeft(o, a, b, f) ==
    LET s == Compute(f, a, b)
        m == Mask(a)
    IN  /\ Create(o, FreshData(o, IF m = nomask THEN s ELSE Where(m.bits, Data(a), s)), m,
                  obj[a].fill)
        /\ Call("binary", <<a, b>>, f)

\* `make_masked_binary`: with one mask the result shares it; values under the mask
\* are those of a.
Binary(o, a, b, f) ==
    LET s == Compute(f, a, b)
        m == mask_or(Mask(a), Mask(b), FALSE)
    IN  /\ Fits(m, Len(s))
        /\ Create(o, FreshData(o, IF m = nomask THEN s ELSE Where(m.bits, Data(a), s)), m,
                  obj[a].fill)
        /\ Call("binary", <<a, b>>, f)

\* a & b, a | b, a ^ b: the mask shrinks, the values stay as computed.
BinaryDunder(o, a, b, f) ==
    LET m == mask_or(Mask(a), Mask(b), TRUE)
    IN  /\ Fits(m, Len(Compute(f, a, b)))
        /\ Create(o, FreshData(o, Compute(f, a, b)), m, obj[a].fill)
        /\ Call("binary", <<a, b>>, f)

\* a == b, a < b: `make_mask(copy=True)`.
Compare(o, a, b, f) ==
    LET m == mask_or(Mask(a), Mask(b), TRUE)
    IN  /\ Fits(m, Len(Compute(f, a, b)))
        /\ Create(o, FreshData(o, Compute(f, a, b)), IF m = nomask THEN m ELSE Fresh(m.bits),
                  obj[a].fill)
        /\ Call("binary", <<a, b>>, f)

\* `make_masked_domained_binary`.
DomainedBinary(o, a, b, d) ==
    LET computed == Compute(d.fn, a, b)
        out == Or([i \in DOMAIN computed |-> computed[i] \notin Finite], Compute(d.dom, a, b))
        bad == Or(Or(out, getmaskarray(a).bits), getmaskarray(b).bits)
    IN  /\ Create(o, FreshData(o, Where(bad, Data(a), computed)), Fresh(bad), obj[a].fill)
        /\ Call("domained2", <<a, b>>, d)

\* The mask of a remainder: dom says where it lies outside the domain.
RemMask(a, b, dom) ==
    LET m == mask_or(Mask(a), Mask(b), TRUE)
    IN  IF \E i \in DOMAIN dom : dom[i] THEN mask_or(m, Fresh(dom), TRUE) ELSE m

\* a % b: outside the domain a constant is stored and hidden.  The reflected form
\* takes the fill value of the other operand.
Mod(o, a, b) ==
    LET computed == Compute(Rem.fn, a, b)
        dom == Compute(Rem.dom, a, b)
        m == RemMask(a, b, dom)
    IN  /\ Fits(m, Len(computed))
        /\ \E f \in {obj[a].fill, obj[b].fill} :
              /\ Create(o, FreshData(o, Where(dom, Constant(computed, RemFill), computed)), m, f)
              /\ Call("mod", <<a, b>>, <<>>)

\* The buffer w with the constant where dom holds of an element.
Refilled(w, cells, dom) ==
    [c \in DOMAIN w |-> IF \E i \in DOMAIN dom : dom[i] /\ cells[i] = c THEN RemFill ELSE w[c]]

\* a %= b: the domain is tested after the data of a was overwritten.
Imod(a, b) ==
    LET d1 == [data EXCEPT ![obj[a].buf] = Assign(@, obj[a].cells, Compute(Rem.fn, a, b))]
        dom == ComputeIn(d1, Rem.dom, a, b)
        m == RemMask(a, b, dom)
    IN  /\ Len(Data(b)) \in {1, Len(Data(a))}
        /\ Fits(m, Len(Data(a)))
        /\ data' = [d1 EXCEPT ![obj[a].buf] = Refilled(@, obj[a].cells, dom)]
        /\ Call("imod", <<a, b>>, <<>>)
        /\ obj' = [obj EXCEPT ![a].mbuf = m.buf, ![a].mcells = m.cells]
        /\ bits' = Allocated(m)

Stack(o, a, b) ==
    LET m == Fresh(getmaskarray(a).bits \o getmaskarray(b).bits)
    IN  \E shrink \in BOOLEAN :   \* append shrinks the mask, hstack does not
           /\ Create(o, FreshData(o, Data(a) \o Data(b)), make_mask(m, shrink), Default)
           /\ Call("concat", <<a, b>>, <<>>)

(***************************************************************************)
(* The user writes to the arrays an object holds, or sets its fill value.   *)
(***************************************************************************)
SetData(a, i, v) == /\ Call("write", <<a>>, i)
                    /\ data' = [data EXCEPT ![obj[a].buf][obj[a].cells[i]] = v]
                    /\ UNCHANGED <<obj, bits>>
SetMask(a, i, h) == /\ HasMask(a)
                    /\ Call("write", <<a>>, i)
                    /\ bits' = [bits EXCEPT ![obj[a].mbuf][obj[a].mcells[i]] = h]
                    /\ UNCHANGED <<obj, data>>

Init == /\ obj = [o \in Objs |-> None]
        /\ data = [o \in Objs |-> <<>>]
        /\ bits = [b \in Buffers |-> <<>>]
        /\ last = [op |-> "none", on |-> <<>>, by |-> <<>>]
        /\ calls = 0

OneArray(o, a) ==
    \/ Rewrap(o, a) \/ Copy(o, a) \/ cumsum(o, a)
    \/ \E f \in UnaryFns : Unary(o, a, f) \/ UnaryDunder(o, a, f)
    \/ \E d \in DomainedUnaryFns : DomainedUnary(o, a, d)
    \/ \E pick \in Slices(Len(Data(a))) : View(o, a, pick) \/ Take(o, a, pick)
    \/ \E v \in Fills : Filled(o, a, v) \/ masked_values(o, a, v)
    \/ \E p \in Preds, copied \in BOOLEAN : Comparator(o, a, p, copied)
    \/ \E m \in NewMasks \cup {Constant(Data(a), FALSE)} :
          Len(m) = Len(Data(a)) /\ fix_invalid(o, a, m)

TwoArrays(o, a, b) ==
    \/ Wrap(o, a, b)
    \/ \E copied \in BOOLEAN : masked_where(o, a, b, copied)
    \/ /\ Compatible(a, b)
       /\ \/ \E f \in BinaryFns : Binary(o, a, b, f) \/ BinaryDunder(o, a, b, f)
                                   \/ Compare(o, a, b, f)
          \/ \E d \in DomainedBinaryFns : DomainedBinary(o, a, b, d)
          \/ Mod(o, a, b)
    \/ Len(Data(a)) + Len(Data(b)) <= MaxLen /\ Stack(o, a, b)

Next ==
    /\ calls < MaxCalls
    /\ \/ \E o \in Objs : New(o)
       \/ \E o, a \in Objs : Sound(a) /\ OneArray(o, a)
       \/ \E o, a, b \in Objs : Sound(a) /\ Sound(b) /\ TwoArrays(o, a, b)
       \/ \E a, b \in Objs : Sound(a) /\ Sound(b) /\ Imod(a, b)
       \/ \E a \in Objs : /\ Sound(a)
                          /\ \E i \in DOMAIN Data(a) :
                               \/ \E v \in Value : SetData(a, i, v)
                               \/ \E h \in BOOLEAN : SetMask(a, i, h)

Spec == Init /\ [][Next]_vars

(***************************************************************************)
(* Reductions                                                               *)
(***************************************************************************)
Fold(r, s) ==
    LET acc[i \in 0..Len(s)] == IF i = 0 THEN r.id ELSE r.fn[acc[i - 1]][s[i]]
    IN  acc[Len(s)]

AllHidden(a) == HasMask(a) /\ \A i \in DOMAIN Mask(a).bits : Mask(a).bits[i]

\* Mutation of reduce: hidden elements are filled with 0 whatever is reduced.
reduceZero(a, r) == IF AllHidden(a) THEN Masked ELSE Fold(r, filled(a, Zero))

\* sum, any, all, min, max: hidden elements are filled with the identity.  (An empty array
\* without a mask reduces to the identity; min and max raise there.)
reduce(a, r) == IF AllHidden(a) THEN Masked ELSE Fold(r, filled(a, r.id))

count(a) == LET m == getmaskarray(a).bits IN Cardinality({i \in DOMAIN m : ~m[i]})

compressed(a) ==
    IF ~HasMask(a) THEN Data(a)
    ELSE LET m == Mask(a).bits
             shown == {i \in DOMAIN m : ~m[i]}
         IN  [k \in 1..Cardinality(shown) |->
                Data(a)[CHOOSE i \in shown : Cardinality({j \in shown : j <= i}) = k]]

\* allequal(a, b): a pair with a hidden element counts as equal, or nothing does.
allequal(a, b, fill) ==
    LET m == mask_or(Mask(a), Mask(b), TRUE)
        d == Zip(LAMBDA x, y : Eq[x][y], Data(a), Data(b))
        hidden == IF m = nomask THEN Constant(d, FALSE) ELSE Broadcast(m.bits, Len(d))
    IN  (m # nomask => fill) /\ \A i \in DOMAIN d : hidden[i] \/ d[i]

(***************************************************************************)
(* Properties                                                               *)
(***************************************************************************)
\* The class docstring: a mask that is not `nomask` has the shape of the data.
SameShape == \A o \in Objs : Live(o) => Sound(o)

value(o) == LET m == getmaskarray(o).bits
                s == Data(o)
            IN  [i \in DOMAIN s |-> IF m[i] THEN Masked ELSE s[i]]

\* The elements of s that are not hidden, in order.
Visible(s) ==
    LET seen[i \in 0..Len(s)] ==
          IF i = 0 THEN <<>>
          ELSE IF s[i] = Masked THEN seen[i - 1] ELSE Append(seen[i - 1], s[i])
    IN  seen[Len(s)]

\* The array a, which shows s: what is visible, how many and reduced.
SeesVisible(a, s) ==
    LET seen == Visible(s)
    IN  /\ compressed(a) = seen /\ count(a) = Len(seen)
        /\ \A r \in Reductions :
              reduce(a, r) = IF seen = <<>> /\ HasMask(a) THEN Masked ELSE Fold(r, seen)

\* The arrays a and b, which show s and t, are the same where both are visible.
ComparesVisible(a, s, b, t) ==
    LET At(u, i) == IF Len(u) = 1 THEN u[1] ELSE u[i]
    IN  allequal(a, b, TRUE) <=>
           \A i \in 1..(IF Len(s) = 1 THEN Len(t) ELSE Len(s)) :
              Masked \in {At(s, i), At(t, i)} \/ Eq[At(s, i)][At(t, i)]

\* A reduction is the reduction of the visible elements, in order: what lies under
\* the mask does not matter, nor does the value it is filled with.
ReductionsSeeVisible ==
    LET val == [o \in Objs |-> IF Live(o) THEN value(o) ELSE <<>>]
    IN  \A a \in Objs : Live(a) =>
          /\ SeesVisible(a, val[a])
          /\ \A b \in Objs : Live(b) /\ b <= a /\ Compatible(a, b) =>
                ComparesVisible(a, val[a], b, val[b])

\* Data and mask behave as an array of optional values.
valBar == [o \in Objs |-> IF Live(o) THEN value(o) ELSE None]
kinBar == [o \in Objs |-> IF Live(o)
                          THEN {p \in Objs : /\ Live(p)
                                             /\ \/ p = o
                                                \/ obj[p].buf = obj[o].buf
                                                \/ HasMask(o) /\ obj[p].mbuf = obj[o].mbuf}
                          ELSE {}]
Optional == INSTANCE MaskedValues WITH val <- valBar, kin <- kinBar
ImplementsMaskedValues == Optional!Spec
=============================================================================
