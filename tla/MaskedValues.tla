---------------------------- MODULE MaskedValues ----------------------------
(***************************************************************************)
(* What a masked array promises: it is an array of optional values.  A call  *)
(* computes the elements of its result from the visible elements of its     *)
(* operands, a hidden one gives a hidden one, and what lies under a mask is *)
(* never read.  `kin` says which arrays may change together, `last` which   *)
(* call was made.                                                           *)
(***************************************************************************)
EXTENDS Integers, Sequences, FiniteSets

CONSTANTS Objs, Value, Finite, Masked, None,
          UnaryFns, BinaryFns, DomainedUnaryFns, DomainedBinaryFns, Rem,
          Preds, Eq, Plus, Zero

VARIABLES val,   \* the arrays, sequences of values and Masked
          kin,   \* the arrays that may share memory with each array
          last   \* the last call: [op, on, by], by being what else it was given

vars == <<val, kin, last>>

Exists(a) == val[a] # None

At(s, i) == IF Len(s) = 1 THEN s[1] ELSE s[i]
Lift(Op(_), s) == [i \in DOMAIN s |-> IF s[i] = Masked THEN Masked ELSE Op(s[i])]
Lift2(Op(_, _), s, t) ==
    [i \in 1..(IF Len(s) = 1 THEN Len(t) ELSE Len(s)) |->
        IF At(s, i) = Masked \/ At(t, i) = Masked THEN Masked ELSE Op(At(s, i), At(t, i))]

\* A function with a domain: its value, or Masked outside it or where it overflows.
Within(d, x) == IF ~d.dom[x] /\ d.fn[x] \in Finite THEN d.fn[x] ELSE Masked
Within2(d, x, y) == IF ~d.dom[x][y] /\ d.fn[x][y] \in Finite THEN d.fn[x][y] ELSE Masked

\* The sums of the visible elements up to each of them.
Sums(s) ==
    LET sum[i \in 0..Len(s)] ==
          IF i = 0 THEN Zero
          ELSE IF s[i] = Masked THEN sum[i - 1] ELSE Plus[sum[i - 1]][s[i]]
    IN  [i \in DOMAIN s |-> IF s[i] = Masked THEN Masked ELSE sum[i]]

Filled(s, v) == [i \in DOMAIN s |-> IF s[i] = Masked THEN v ELSE s[i]]

\* The elements of a call's result; how a hidden element is shown when a call takes
\* the mask away is left open.
Result(c) ==
    LET s == val[c.on[1]]
        t == val[c.on[Len(c.on)]]
        w == c.by
    IN  CASE c.op \in {"copy", "where"} ->
               {[i \in DOMAIN s |-> IF w[i] THEN Masked ELSE s[i]]}
          [] c.op = "wrap" -> {v \in [DOMAIN s -> Value \cup {Masked}] :
                                 \A i \in DOMAIN s : IF w[i] THEN v[i] = Masked
                                                     ELSE v[i] \in IF s[i] = Masked
                                                                   THEN Value ELSE {s[i]}}
          [] c.op = "select" -> {[i \in DOMAIN w |-> s[w[i]]]}
          [] c.op = "unary" -> {Lift(LAMBDA x : w[x], s)}
          [] c.op = "domained" -> {Lift(LAMBDA x : Within(w, x), s)}
          [] c.op = "test" -> {Lift(LAMBDA x : IF w[x] THEN Masked ELSE x, s)}
          [] c.op = "values" -> {[i \in DOMAIN s |-> LET x == Filled(s, w)[i]
                                                     IN  IF Eq[x][w] THEN Masked ELSE x]}
          [] c.op = "filled" -> {Filled(s, w)}
          [] c.op = "cumsum" -> {Sums(s)}
          [] c.op = "binary" -> {Lift2(LAMBDA x, y : w[x][y], s, t)}
          [] c.op = "domained2" -> {Lift2(LAMBDA x, y : Within2(w, x, y), s, t)}
          [] c.op = "mod" -> {Lift2(LAMBDA x, y : IF Rem.dom[x][y] THEN Masked
                                                  ELSE Rem.fn[x][y], s, t)}
          [] c.op = "concat" -> {s \o t}

Init == /\ val = [o \in Objs |-> None]
        /\ kin = [o \in Objs |-> {}]
        /\ last = [op |-> "none", on |-> <<>>, by |-> <<>>]

\* o appears with the elements v; it may share memory with the operands of the call
\* and with their kin.  The other arrays stay as they are.
Appear(o, v) ==
    /\ val' = [val EXCEPT ![o] = v]
    /\ kin'[o] \subseteq {o} \cup UNION {kin[last'.on[i]] : i \in DOMAIN last'.on}
    /\ \A x \in Objs \ {o} : kin'[x] = kin[x] \cup {y \in {o} : x \in kin'[o]}

New(o) == /\ last'.op = "new" /\ ~Exists(o)
          /\ val'[o] \in Seq(Value \cup {Masked})
          /\ Appear(o, val'[o])

Derive(o) ==
    /\ last'.op \notin {"new", "imod", "write"} /\ ~Exists(o)
    /\ \A i \in DOMAIN last'.on : Exists(last'.on[i])
    /\ \E v \in Result(last') : Appear(o, v)

\* a %= b: a changes and so may its kin; the domain is tested on the remainder.
InPlaceRem(a, b) ==
    /\ Exists(a) /\ Exists(b)
    /\ b \notin kin[a] =>
          val'[a] = Lift2(LAMBDA x, y : IF Rem.dom[Rem.fn[x][y]][y] THEN Masked
                                        ELSE Rem.fn[x][y], val[a], val[b])
    /\ \A x \in Objs \ kin[a] : val'[x] = val[x]
    /\ kin'[a] \subseteq kin[a] \cup kin[b]
    /\ \A x, y \in Objs \ {a} : y \in kin'[x] <=> y \in kin[x]
    /\ \A x \in Objs : a \in kin'[x] <=> x \in kin'[a]

\* a.data[i] = v or a.mask[i] = h: that element of a changes, and maybe its kin.
Write(a, i) ==
    /\ Exists(a) /\ i \in DOMAIN val[a]
    /\ Len(val'[a]) = Len(val[a])
    /\ kin[a] = {a} => \A j \in DOMAIN val[a] \ {i} : val'[a][j] = val[a][j]
    /\ \A x \in Objs \ kin[a] : val'[x] = val[x]
    /\ UNCHANGED kin

Next == \/ \E o \in Objs : New(o) \/ Derive(o)
        \/ last'.op = "imod" /\ InPlaceRem(last'.on[1], last'.on[2])
        \/ last'.op = "write" /\ Write(last'.on[1], last'.by)

Spec == Init /\ [][Next]_vars
=============================================================================
