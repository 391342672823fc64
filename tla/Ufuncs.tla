------------------------------- MODULE Ufuncs -------------------------------
(* A ufunc call from its arguments to its result, as dtypes (ionp-py lib.rs   *)
(* over ionp-core ufunc.rs), beside result_type, which says in advance what   *)
(* it should give.  A call is extracted (Python scalars take a dtype from the *)
(* array beside them), typed (casting= and dtype= choose what is computed in) *)
(* and computed; out= and the in-place operators cast once more.  Operators   *)
(* and folds come to the same engine by ways of their own.  An exception ends *)
(* a call at any stage.  Text dtypes do not reach the numeric engine.         *)
EXTENDS ResultType, UfuncTypes

CONSTANTS
    Arrays,    \* dtypes of the arrays a caller passes
    Scalars    \* the Python scalars it passes

ASSUME UfuncsAssumption ==
    /\ Arrays \subseteq Numeric
    /\ Scalars \subseteq [scalar : ScalarKinds, neg : BOOLEAN, bits : Nat]

VARIABLE call    \* the call in progress: its stage and what is known by then

vars == <<result_vars, call>>

Idle == [stage |-> "idle"]

IsWeak(x) == "scalar" \in DOMAIN x

----------------------------------------------------------------------------
(* Extraction. *)

ForcesFloat == {"divide", "float_power"}
Tiered      == {"hypot"}
Relaxed     == {"greater", "logical_and", "ldexp"}

\* Mutation of ScalarAgainst: a scalar brings a dtype of its own.
ScalarAgainstStrong(op, d, v) == StrongDefault(v.scalar)

\* The dtype a scalar takes beside an array.
ScalarAgainst(op, d, v) ==
    LET target == WeakTargetSuSafe(d, v.scalar)
        counts == target = Bool \/ IsInteger(target)
    IN  CASE op \in ForcesFloat /\ counts -> F64
          [] op \in Tiered /\ counts      -> FloatTier(target)
          [] /\ op \in Relaxed /\ v.scalar = "Int" /\ IsInteger(target)
             /\ ~IntBounds(v, target)     -> IF v.neg THEN I64 ELSE U64
          [] OTHER                        -> target

\* An exponent keeps a dtype of its own whatever the mantissa is.
LdexpExponent(v) ==
    IF v.scalar = "Int" /\ v.bits > 63 THEN U64 ELSE StrongDefault(v.scalar)

Extracted(op, args) ==
    LET alone(x) == IF IsWeak(x) THEN StrongDefault(x.scalar) ELSE x
        beside(i, j) ==
            CASE ~IsWeak(args[i])  -> args[i]
              [] IsWeak(args[j])   -> alone(args[i])
              [] /\ op = "ldexp" /\ i = 2
                 /\ IsWeak(args[i]) /\ ~IsWeak(args[j]) -> LdexpExponent(args[i])
              [] OTHER             -> ScalarAgainst(op, args[j], args[i])
    IN  IF Len(args) = 1 THEN <<alone(args[1])>> ELSE <<beside(1, 2), beside(2, 1)>>

\* The OverflowError of a scalar that does not fit.
Fits(args, from) ==
    \A i \in DOMAIN args : IsWeak(args[i]) => ScalarFits(args[i], from[i])

\* Mutation of OperatorScalar: division extracts its scalar like the other operators.
OperatorScalarPlain(op, d, v) ==
    IF op = "greater" THEN StrongDefault(v.scalar) ELSE WeakTargetSuSafe(d, v.scalar)

\* What an operator makes of its other operand, on its own.
OperatorScalar(op, d, v) ==
    CASE op = "greater" -> StrongDefault(v.scalar)
      [] op = "divide" /\ v.scalar = "Int" /\ (d = Bool \/ IsInteger(d)) -> F64
      [] OTHER          -> WeakTargetSuSafe(d, v.scalar)

----------------------------------------------------------------------------

Raise == call' = Idle

Typed(op, from, ins, rule, asked, into) ==
    call' = [stage |-> "typed", op |-> op, from |-> from, ins |-> ins,
             rule |-> rule, asked |-> asked, into |-> into]

CallUfunc(op, args) ==
    /\ Len(args) = IF op \in UnaryOps THEN 1 ELSE 2
    /\ LET from == Extracted(op, args)
       IN  IF Fits(args, from)
           THEN call' = [stage |-> "extracted", op |-> op, from |-> from]
           ELSE Raise

\* Without dtype=, only casting='no' is looked at.
CheckCasting(rule) ==
    /\ call.stage = "extracted"
    /\ LET loop == CastingLoop(call.op, call.from)
           passes == \A i \in DOMAIN loop : loop[i] \in {None, call.from[i]}
       IN  IF rule # "no" \/ passes
           THEN Typed(call.op, call.from, call.from, rule, None, None)
           ELSE Raise

\* With dtype=, the operands are cast to the operands of the loop that gives it.
ResolveDtype(rule, asked) ==
    /\ call.stage = "extracted"
    /\ LET ins == Resolved(call.op, call.from, asked, rule)
       IN  IF ins = <<>> THEN Raise
           ELSE Typed(call.op, call.from, ins, rule, asked, None)

Compute ==
    /\ call.stage = "typed"
    /\ LET out == OutDtype(call.op, call.ins)
       IN  IF out = None THEN Raise
           ELSE call' = [stage |-> "computed", rule |-> call.rule, into |-> call.into,
                         out |-> IF call.asked = None THEN out ELSE call.asked]

----------------------------------------------------------------------------
(* Operators.  A reflected one computes with its operands in written order.   *)

BinaryOperators == {"add", "subtract", "divide", "floor_divide", "fmod", "power",
                    "bitwise_and", "left_shift", "greater"}
UnaryOperators  == {"negative", "positive", "absolute", "invert"}

\* self with another operand; a comparison is turned round and never reflected.
Operate(op, d, other, reflected) ==
    /\ reflected => IsWeak(other) /\ op # "greater"
    /\ LET o    == IF IsWeak(other) THEN OperatorScalar(op, d, other) ELSE other
           args == IF reflected THEN <<other, d>> ELSE <<d, other>>
           from == IF reflected THEN <<o, d>> ELSE <<d, o>>
       IN  call' = [stage |-> "coerced", op |-> op, args |-> args, from |-> from, into |-> None]

OperateAlone(op, d) ==
    call' = [stage |-> "coerced", op |-> op, args |-> <<d>>, from |-> <<d>>, into |-> None]

OperateInPlace(op, d, other) ==
    /\ op # "greater"
    /\ LET o == IF IsWeak(other) THEN OperatorScalar(op, d, other) ELSE other
       IN  call' = [stage |-> "coerced", op |-> op, args |-> <<d, other>>,
                    from |-> <<d, o>>, into |-> d]

\* Mutation of Apply: the result is cast back without asking.
ApplyUnasked ==
    /\ call.stage = "coerced"
    /\ LET out == OutDtype(call.op, call.from)
       IN  IF Fits(call.args, call.from) /\ out # None
           THEN Typed(call.op, call.from, call.from, "same_kind", None, call.into)
           ELSE Raise

\* An in-place operator asks whether its result can be stored before it computes.
Apply ==
    /\ call.stage = "coerced"
    /\ LET out == OutDtype(call.op, call.from)
       IN  IF /\ Fits(call.args, call.from)
              /\ out # None
              /\ call.into # None => CanCast(out, call.into, "same_kind")
           THEN Typed(call.op, call.from, call.from, "same_kind", None, call.into)
           ELSE Raise

----------------------------------------------------------------------------
(* Folds.  reduce takes dtype= at its word, after a look at the operands of a *)
(* comparison; accumulate takes it and drops it.                              *)

FoldIn(op, d, asked) ==
    LET own  == FoldDtype(op, d)
        fold == IF asked = None \/ (op = "greater" /\ own = None) THEN own ELSE asked
    IN  IF fold = None THEN Raise
        ELSE IF op \in Arms[fold.kind]
        THEN call' = [stage |-> "folded", out |-> fold]
        ELSE call' = [stage |-> "panicked", op |-> op, asked |-> asked]

Reduce(op, d, asked) == FoldIn(op, d, asked)

Accumulate(op, d) == FoldIn(op, d, None)

----------------------------------------------------------------------------
(* The result. *)

Store(out, to, rule) ==
    IF CanCast(out, to, rule)
    THEN call' = [stage |-> "stored", from |-> out, to |-> to, rule |-> rule]
    ELSE Raise

\* out=, under the rule of the call; a fold has no casting= and takes same_kind.
WriteOut(to) ==
    \/ /\ call.stage = "computed" /\ call.into = None
       /\ Store(call.out, to, call.rule)
    \/ /\ call.stage = "folded"
       /\ Store(call.out, to, "same_kind")

\* An in-place operator has asked already, and casts.
WriteInPlace ==
    /\ call.stage = "computed" /\ call.into # None
    /\ call' = [stage |-> "stored", from |-> call.out, to |-> call.into, rule |-> call.rule]

\* A panic ends a call too: PyO3 hands it to the caller as an exception.
Return ==
    /\ \/ call.stage \in {"stored", "folded", "panicked"}
       \/ call.stage = "computed" /\ call.into = None
    /\ Raise
----------------------------------------------------------------------------

SessionInit == ResultInit /\ call = Idle

Passed == Arrays \union Scalars

Start ==
    \/ \E op \in UnaryOps, x \in Passed : CallUfunc(op, <<x>>)
    \/ \E op \in BinaryOps, x, y \in Passed : CallUfunc(op, <<x, y>>)
    \/ \E op \in BinaryOperators, d \in Arrays, x \in Passed :
         \/ \E reflected \in BOOLEAN : Operate(op, d, x, reflected)
         \/ OperateInPlace(op, d, x)
    \/ \E op \in UnaryOperators, d \in Arrays : OperateAlone(op, d)
    \/ \E op \in FoldOps, d \in Arrays :
         \/ \E asked \in Numeric \union {None} : Reduce(op, d, asked)
         \/ Accumulate(op, d)

Go ==
    \/ \E rule \in Rules :
         \/ CheckCasting(rule)
         \/ \E asked \in Numeric : ResolveDtype(rule, asked)
    \/ Apply
    \/ Compute
    \/ \E to \in Numeric : WriteOut(to)
    \/ WriteInPlace
    \/ Return

\* One call at a time, to result_type or to a ufunc.
SessionNext ==
    \/ call = Idle /\ ResultNext /\ UNCHANGED call
    \/ call = Idle /\ strong = <<>> /\ weak = <<>> /\ Start /\ UNCHANGED result_vars
    \/ call # Idle /\ Go /\ UNCHANGED result_vars

SessionSpec == SessionInit /\ [][SessionNext]_vars

----------------------------------------------------------------------------
(* The way a dtype goes is written down several times in the engine.  The     *)
(* properties hold the ways against each other.                               *)

\* result_type tells what a ufunc does (extract_binary_pair, dtypeinfo.rs):
\* two arguments given in either order come to the dtype that the answer alone
\* would give, when the scalar is small.  The functions with float loops only
\* are left out when both are arrays, since they promote after the float.
AgreesWithResultType ==
    LET args == strong \o [i \in DOMAIN weak |-> Scalar(weak[i], FALSE, 0)]
    IN  Settled /\ Len(args) = 2 /\ (\A i \in DOMAIN strong : ~IsString(strong[i])) =>
          \A op \in BinaryOps \ {"ldexp"} :
            (op \in Tiered => Len(strong) < 2) =>
              \A way \in {args, <<args[2], args[1]>>} :
                  OutDtype(op, Extracted(op, way)) = OutDtype(op, <<base, base>>)

\* An operator and its ufunc, which extract a scalar by code of their own, give
\* one dtype or both raise.  A comparison with a scalar may differ: the ufunc
\* fits the scalar to the array.
OperatorsAgree ==
    LET Outcome(from) == IF Fits(call.args, from) THEN OutDtype(call.op, from) ELSE None
    IN  call.stage = "coerced"
          /\ ~(call.op = "greater" /\ \E i \in DOMAIN call.args : IsWeak(call.args[i]))
        => Outcome(call.from) = Outcome(Extracted(call.op, call.args))

\* Where NumPy refuses what a loop would take.
RefusesBool == {"sign", "gcd", "negative", "subtract", "positive"}

\* The functions that go over the elements, or the truth of them, in no loop
\* declared for such an operand.
Native(op, from) ==
    \/ op \in {"signbit", "logical_not", "logical_and"}
    \/ op \in {"bitwise_count", "conjugate"} /\ from[1] = Bool

\* The loops that the operands reach without loss.
SafeIn(table, from) ==
    {i \in DOMAIN table : \A k \in DOMAIN from : SafeCast(from[k], table[i].ins[k])}

\* Without dtype=, a call computes in a loop the ufunc declares, the operands
\* reach it without loss, and its result is that of the first such loop: the
\* output dtype and the loop table, one match for each, are one rule.  Division
\* of integers has no loop of its own and takes a wider float.  A function that
\* raises has no such loop, but for the bools NumPy refuses; a fold that was
\* given no dtype never comes to a function without an arm for it.  With dtype=,
\* the operands are cast so that the function itself comes to the dtype asked
\* for, and the cast of its result that follows changes nothing.
ComputesInALoop ==
    /\ call.stage = "typed" /\ call.asked = None /\ call.op \in DOMAIN LoopTable =>
         LET table == LoopTable[call.op]
             safe  == SafeIn(table, call.from)
             out   == OutDtype(call.op, call.from)
         IN  IF out = None
             THEN safe = {} \/ (call.op \in RefusesBool /\ call.from[1] = Bool)
             ELSE /\ ~Native(call.op, call.from) =>
                       \E i \in safe : table[i] = Row(ComputedIn(call.op, call.from), out)
                  /\ out = table[Min(safe)].out \/ (call.op = "divide" /\ out = F64)
    /\ call.stage = "typed" /\ call.asked # None =>
         \/ OutDtype(call.op, call.ins) = call.asked
         \/ call.op = "ldexp" /\ OutDtype(call.op, call.ins) = None
    /\ call.stage = "panicked" => call.asked # None

\* Truth is taken of any value; a mixed comparison and the two last ufuncs are
\* not held to casting=.
Excused(op, from) ==
    \/ op \in {"logical_not", "logical_and", "float_power", "ldexp"}
    \/ op = "greater" /\ U64 \in {from[1], from[2]} /\ from[1] # from[2]

OperandsObeyTheRule ==
    call.stage = "typed" /\ ~Excused(call.op, call.from)
      /\ OutDtype(call.op, call.ins) # None =>
        \A i \in DOMAIN call.from :
            CanCast(call.from[i], ComputedIn(call.op, call.ins)[i], call.rule)

ResultsObeyTheRule == call.stage = "stored" => CanCast(call.from, call.to, call.rule)

\* No value is converted against the rule of its call: neither an operand on
\* the way into the loop, which casting='no' and dtype= judge by a description
\* of the loop kept beside it, nor the result on its way out, which an in-place
\* operator judges before it computes.
CastsObeyTheRule == OperandsObeyTheRule /\ ResultsObeyTheRule

=============================================================================
