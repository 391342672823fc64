---------------------------- MODULE UfuncTypes ----------------------------
(* The dtype tables of the ufunc engine (ionp-core ufunc.rs, and the tables   *)
(* of the five plain functions in ionp-py lib.rs): which loops a ufunc        *)
(* declares, which dtype it gives, which one it computes in.  The engine      *)
(* keeps them apart, one hand-written match each.  One operation stands for   *)
(* those that share all its rows:                                             *)
(*   sqrt for exp, log, the trigonometric ones and rint; cbrt for fabs,       *)
(*   degrees, radians and spacing; floor for ceil and trunc; isnan for isinf  *)
(*   and isfinite; add for multiply; maximum for minimum; bitwise_and and     *)
(*   logical_and for or and xor; greater for every comparison; left_shift for *)
(*   right_shift; hypot for arctan2, copysign, nextafter, logaddexp,          *)
(*   logaddexp2 and heaviside; fmod for remainder; fmax for fmin; gcd for lcm *)
EXTENDS Dtypes, FiniteSetsExt

PlainUnary == {"negative", "absolute", "invert", "logical_not"}
MathUnary  == {"sqrt", "cbrt", "floor", "square", "sign", "signbit", "reciprocal"}
PureUnary  == {"isnan", "positive", "conjugate", "bitwise_count"}
PlainBinary == {"add", "subtract", "divide", "floor_divide", "maximum", "bitwise_and",
                "left_shift", "greater", "logical_and"}
MathBinary  == {"hypot", "power", "fmod", "fmax", "gcd"}
UnaryOps  == PlainUnary \union MathUnary \union PureUnary
BinaryOps == PlainBinary \union MathBinary \union {"float_power", "ldexp"}
Ops == UnaryOps \union BinaryOps

None == DT("None", 0)

\* Mutation of FloatTier: integers go to the widest float at once.
FloatTierWide(d) == CASE d.kind = "Bool" -> F16 [] IsInteger(d) -> F64 [] OTHER -> d

\* The narrowest float that takes d, for the ufuncs with float loops only.
FloatTier(d) == CASE d.kind = "Bool" -> F16
                  [] IsInteger(d)     -> DT("Float", IntEquivFloatBits(d.bits))
                  [] OTHER            -> d

----------------------------------------------------------------------------
(* The declared loops, in NumPy's order: operands and result.  A table maps    *)
(* the places of its loops in that order to the loops.                        *)

\* The two places between are those of the mixed comparisons.
LoopOrder == << Bool, I8, U8, DT("Int", 16), DT("UInt", 16), DT("Int", 32), DT("UInt", 32),
                I64, U64, None, None, F16, F32, F64, C64, C128 >>

Counting == {"Int", "UInt"}
Ordered  == Counting \union {"Float"}
Inexact  == {"Float", "Complex"}
Numbers  == Counting \union Inexact
Any      == Numbers \union {"Bool"}

Row(ins, out) == [ins |-> ins, out |-> out]

Alike(d, n) == IF n = 1 THEN <<d>> ELSE <<d, d>>

Places(kinds) == {i \in 1..16 : LoopOrder[i].kind \in kinds}

\* A loop for each dtype of these kinds, on n operands, with a result like them.
Loops(kinds, n) == [i \in Places(kinds) |-> Row(Alike(LoopOrder[i], n), LoopOrder[i])]

LoopsTo(out, kinds, n) == [i \in Places(kinds) |-> Row(Alike(LoopOrder[i], n), out)]

\* Mutation of AbsoluteLoops: the complex loops give what they are given.
AbsoluteLoopsAlike == Loops(Any, 1)

\* Complex numbers have a real magnitude.
AbsoluteLoops ==
    [i \in Places(Any) |->
       Row(<<LoopOrder[i]>>, CASE LoopOrder[i] = C64  -> F32
                               [] LoopOrder[i] = C128 -> F64
                               [] OTHER               -> LoopOrder[i])]

\* Comparisons have a loop for each mix of int64 and uint64.
CompareLoops ==
    [i \in 1..16 |-> Row(CASE i = 10 -> <<I64, U64>>
                           [] i = 11 -> <<U64, I64>>
                           [] OTHER  -> Alike(LoopOrder[i], 2), Bool)]

LoopTable == [op \in Ops \ {"float_power", "ldexp"} |->
    CASE op \in {"negative", "square", "reciprocal", "sign", "positive", "conjugate"}
                                           -> Loops(Numbers, 1)
      [] op = "absolute"                   -> AbsoluteLoops
      [] op = "invert"                     -> Loops(Counting \union {"Bool"}, 1)
      [] op \in {"logical_not", "isnan"}   -> LoopsTo(Bool, Any, 1)
      [] op = "sqrt"                       -> Loops(Inexact, 1)
      [] op = "cbrt"                       -> Loops({"Float"}, 1)
      [] op = "floor"                      -> Loops(Ordered \union {"Bool"}, 1)
      [] op = "signbit"                    -> LoopsTo(Bool, {"Float"}, 1)
      [] op = "bitwise_count"              -> LoopsTo(U8, Counting, 1)
      [] op \in {"add", "maximum", "fmax"} -> Loops(Any, 2)
      [] op \in {"subtract", "power"}      -> Loops(Numbers, 2)
      [] op = "divide"                     -> Loops(Inexact, 2)
      [] op \in {"floor_divide", "fmod"}   -> Loops(Ordered, 2)
      [] op = "bitwise_and"                -> Loops(Counting \union {"Bool"}, 2)
      [] op \in {"left_shift", "gcd"}      -> Loops(Counting, 2)
      [] op = "hypot"                      -> Loops({"Float"}, 2)
      [] op = "logical_and"                -> LoopsTo(Bool, Any, 2)
      [] op = "greater"                    -> CompareLoops]

----------------------------------------------------------------------------
(* dtype=: the loop that gives what is asked. *)

\* Mutation of Reachable: within a kind any width goes.
ReachableLoosely(actual, in, out, rule) == actual.kind = in.kind \/ CanCast(actual, in, rule)

\* A complex operand is never narrowed on the way to a real result.
Reachable(actual, in, out, rule) ==
    /\ ~(/\ rule # "unsafe" /\ IsComplex(actual) /\ IsComplex(in)
         /\ in.bits < actual.bits /\ ~IsComplex(out))
    /\ CanCast(actual, in, rule)

AllReachable(from, row, rule) ==
    \A i \in DOMAIN from : Reachable(from[i], row.ins[i], row.out, rule)

\* Of the loops that give `asked`, the first the operands safely reach, else
\* the one on operands of that dtype, else the first.
Selected(table, from, asked) ==
    LET giving == {i \in DOMAIN table : table[i].out = asked}
        safe   == {i \in giving : AllReachable(from, table[i], "safe")}
        same   == {i \in giving : \A k \in DOMAIN from : table[i].ins[k] = asked}
    IN  table[Min(IF safe # {} THEN safe ELSE IF same # {} THEN same ELSE giving)]

\* What the operands are cast to; none when no loop gives `asked`, or the rule
\* forbids the casts.  The last two ufuncs have loops of their own, and no rule.
Resolved(op, from, asked, rule) ==
    IF op = "float_power" THEN
        IF asked = (IF \E i \in 1..2 : IsComplex(from[i]) THEN C128 ELSE F64)
        THEN <<asked, asked>> ELSE <<>>
    ELSE IF op = "ldexp" THEN
        IF asked.kind = "Float" /\ FloatTier(from[1]).kind = "Float"
             /\ asked.bits >= FloatTier(from[1]).bits
        THEN <<asked, from[2]>> ELSE <<>>
    ELSE
        LET table == LoopTable[op]
            row   == Selected(table, from, asked)
        IN  IF \/ \A i \in DOMAIN table : table[i].out # asked
               \/ op = "signbit" /\ IsComplex(from[1])
            THEN <<>>
            ELSE IF AllReachable(from, row, rule) THEN row.ins ELSE <<>>

----------------------------------------------------------------------------
(* The dtype a ufunc gives, None where it raises. *)

BoolTo(d, out) == IF d = Bool THEN out ELSE d

\* Mutation of Only: the check of the operand's kind is missing.
OnlyUnchecked(kinds, d) == d

Only(kinds, d) == IF d.kind \in kinds THEN d ELSE None

UnaryOut(op, a) ==
    CASE op = "logical_not" -> Bool
      [] op = "negative"    -> BoolTo(a, None)
      [] op = "invert"      -> Only({"Bool"} \union Counting, a)
      [] op = "absolute"    -> IF IsComplex(a) THEN DT("Float", a.bits \div 2) ELSE a

MathUnaryOut(op, a) ==
    IF IsComplex(a) THEN (IF op \in {"cbrt", "signbit", "floor"} THEN None ELSE a)
    ELSE CASE op \in {"sqrt", "cbrt"}         -> FloatTier(a)
           [] op = "floor"                    -> a
           [] op \in {"square", "reciprocal"} -> BoolTo(a, I8)
           [] op = "sign"                     -> BoolTo(a, None)
           [] op = "signbit"                  -> Bool

PureOut(op, a) ==
    CASE op = "isnan"         -> Bool
      [] op = "positive"      -> BoolTo(a, None)
      [] op = "conjugate"     -> BoolTo(a, I8)
      [] op = "bitwise_count" -> IF a.kind \in {"Bool"} \union Counting THEN U8 ELSE None

BinaryOut(op, a, b) ==
    LET d == Promote(a, b)
    IN  CASE op \in {"greater", "logical_and"} -> Bool
          [] op = "bitwise_and"                -> Only({"Bool"} \union Counting, d)
          [] op = "left_shift"                 -> Only(Counting, BoolTo(d, I8))
          [] op = "subtract"                   -> BoolTo(d, None)
          [] op = "divide"       -> IF d.kind \in {"Bool"} \union Counting THEN F64 ELSE d
          [] op = "floor_divide"               -> Only(Ordered, BoolTo(d, I8))
          [] op \in {"add", "maximum"}         -> d

\* hypot takes each operand to a float on its own and then the wider one.
MathBinaryOut(op, a, b) ==
    LET d == Promote(a, b)
    IN  CASE op = "gcd"                        -> Only(Counting, d)
          [] op = "fmax"                       -> d
          [] op = "power"                      -> BoolTo(d, I8)
          [] op = "fmod"                       -> Only(Ordered, BoolTo(d, I8))
          [] op = "hypot"        -> IF IsComplex(d) THEN None ELSE
                 DT("Float", Larger(FloatTier(a).bits, FloatTier(b).bits))

FloatPowerOut(a, b) == IF IsComplex(a) \/ IsComplex(b) THEN C128 ELSE F64

LdexpOut(a, b) ==
    IF IsComplex(a) \/ b.kind \in Inexact \/ b = U64 THEN None ELSE FloatTier(a)

OutDtype(op, ins) ==
    CASE op \in PlainUnary  -> UnaryOut(op, ins[1])
      [] op \in MathUnary   -> MathUnaryOut(op, ins[1])
      [] op \in PureUnary   -> PureOut(op, ins[1])
      [] op \in PlainBinary -> BinaryOut(op, ins[1], ins[2])
      [] op \in MathBinary  -> MathBinaryOut(op, ins[1], ins[2])
      [] op = "float_power" -> FloatPowerOut(ins[1], ins[2])
      [] op = "ldexp"       -> LdexpOut(ins[1], ins[2])

----------------------------------------------------------------------------
(* What the engine casts the operands to before it goes over the elements.   *)

\* The functions that work on the operand as it comes.
AsItComes == {"absolute", "isnan", "positive", "conjugate", "bitwise_count", "signbit"}

ComputedIn(op, ins) ==
    CASE op \in {"logical_not", "logical_and"} -> [i \in DOMAIN ins |-> Bool]
      [] op = "greater"                        -> [i \in 1..2 |-> Promote(ins[1], ins[2])]
      [] op = "ldexp"                          -> <<OutDtype(op, ins), I64>>
      [] op \in AsItComes                      -> ins
      [] OTHER                                 -> [i \in DOMAIN ins |-> OutDtype(op, ins)]

\* A comparison of uint64 with a signed type is not held to the common dtype.
CompareCasting(a, b) ==
    LET narrow(d) == d.kind = "Int" /\ d.bits < 64
    IN  IF {a, b} = {I64, U64} THEN <<None, None>>
        ELSE IF a = U64 /\ narrow(b) THEN <<None, I64>>
        ELSE IF b = U64 /\ narrow(a) THEN <<I64, None>>
        ELSE <<Promote(a, b), Promote(a, b)>>

\* The operand dtypes that casting='no' compares with, None for one it lets by.
CastingLoop(op, ins) ==
    LET Each(d) == [i \in DOMAIN ins |-> d]
    IN  CASE op \in {"logical_not", "logical_and", "isnan", "positive",
                     "float_power", "ldexp"}       -> Each(None)
          [] op = "absolute"                       -> ins
          [] op = "signbit"                        -> Each(FloatTier(ins[1]))
          [] op \in {"conjugate", "bitwise_count"} -> Each(IF ins[1] = Bool THEN I8 ELSE None)
          [] op = "greater"                        -> CompareCasting(ins[1], ins[2])
          [] OTHER                                 -> Each(OutDtype(op, ins))

----------------------------------------------------------------------------
(* Folds: reduce and accumulate. *)

FoldOps == PlainBinary \union MathBinary

\* Sums and products of narrow integers are taken at 64 bits.
FoldDtype(op, d) ==
    CASE op \in MathBinary           -> MathBinaryOut(op, d, d)
      [] op = "logical_and"          -> Bool
      [] op = "greater"              -> Only({"Bool"}, d)
      [] op = "bitwise_and"          -> Only({"Bool"} \union Counting, d)
      [] op = "left_shift"           -> Only(Counting, BoolTo(d, I8))
      [] op = "subtract"             -> BoolTo(d, None)
      [] op = "floor_divide"         -> Only(Ordered, BoolTo(d, I8))
      [] op = "divide"               -> IF d.kind \in {"Bool"} \union Counting THEN F64 ELSE d
      [] op = "add"                  -> IF d.kind \in Counting THEN DT(d.kind, 64) ELSE BoolTo(d, I64)
      [] op = "maximum"              -> d

\* The operations that have an arm in the element function of a kind; any
\* other one that gets there is a panic.
Arms == [kind \in Any |->
    CASE kind = "Bool"    -> {"add", "maximum", "bitwise_and", "logical_and", "greater",
                              "power", "fmod", "fmax"}
      [] kind \in Counting -> {"add", "subtract", "maximum", "bitwise_and", "floor_divide",
                              "left_shift", "power", "fmod", "fmax", "gcd"}
      [] kind = "Float"   -> {"add", "subtract", "divide", "floor_divide", "maximum",
                              "power", "fmod", "fmax", "hypot"}
      [] kind = "Complex" -> {"add", "subtract", "divide", "maximum", "power", "fmax"}]

=============================================================================
