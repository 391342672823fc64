----------------------------- MODULE ResultType -----------------------------
(* `result_type(...)` (dtypeinfo.rs): the arguments are sorted into dtypes    *)
(* and Python scalars, the dtypes are promoted one after the other, then each *)
(* scalar may raise the kind of what came out.                                *)
EXTENDS Dtypes

CONSTANTS
    Given,       \* dtypes the caller passes
    MaxChars,    \* bound: characters of the text dtypes among them
    MaxArgs      \* bound: arguments of one call

DtypesUpTo(chars) ==
    Numeric \union {S(c) : c \in 0..chars} \union {U(c) : c \in 0..chars}

ASSUME ResultTypeAssumption ==
    MaxChars \in Nat /\ MaxArgs \in Nat /\ Given \subseteq DtypesUpTo(MaxChars)

VARIABLES
    strong,   \* the dtypes among the arguments, in their order
    weak,     \* the kinds of the Python scalars, in their order
    base,     \* what they have come to
    taken     \* how many of strong \o weak are in base; none while arguments come

result_vars == <<strong, weak, base, taken>>

ScalarKinds == {"Bool", "Int", "Float", "Complex"}

ResultInit ==
    /\ strong = <<>> /\ weak = <<>>
    /\ base = Bool
    /\ taken = 0

Room == taken = 0 /\ Len(strong) + Len(weak) < MaxArgs

PassDtype(d) ==
    /\ Room
    /\ strong' = Append(strong, d)
    /\ UNCHANGED <<weak, base, taken>>

\* None stands for the default dtype.
PassNone == PassDtype(F64)

PassScalar(kind) ==
    /\ Room
    /\ weak' = Append(weak, kind)
    /\ UNCHANGED <<strong, base, taken>>

\* The first dtype is the base of the fold; scalars alone start from Bool.
TakeFirst ==
    /\ taken = 0 /\ strong # <<>>
    /\ base' = strong[1]
    /\ taken' = 1
    /\ UNCHANGED <<strong, weak>>

TakeDtype ==
    /\ taken > 0 /\ taken < Len(strong)
    /\ base' = Promote(base, strong[taken + 1])
    /\ taken' = taken + 1
    /\ UNCHANGED <<strong, weak>>

TakeScalar ==
    /\ taken >= Len(strong) /\ taken < Len(strong) + Len(weak)
    /\ base' = WeakTarget(base, weak[taken - Len(strong) + 1])
    /\ taken' = taken + 1
    /\ UNCHANGED <<strong, weak>>

Settled == taken > 0 /\ taken = Len(strong) + Len(weak)

Answer ==
    /\ Settled
    /\ strong' = <<>> /\ weak' = <<>>
    /\ base' = Bool
    /\ taken' = 0

ResultNext ==
    \/ \E d \in Given : PassDtype(d)
    \/ PassNone
    \/ \E kind \in ScalarKinds : PassScalar(kind)
    \/ TakeFirst \/ TakeDtype \/ TakeScalar \/ Answer

ResultSpec == ResultInit /\ [][ResultNext]_result_vars

----------------------------------------------------------------------------
(* Each step of the fold sees the base and one dtype only, and promotion is   *)
(* not associative: what the base has taken in must go on fitting in it.      *)

\* Every dtype taken in casts to the base without loss, and no scalar is of a
\* higher kind; once a text dtype has come, only the text dtypes: a number that
\* was promoted with a number before it may need more characters than its
\* successor does (Bool, I8, S1 give S4, and Bool is written with five).
HoldsEvery ==
    /\ \A i \in 1..Len(strong) :
         i <= taken /\ (IsString(base) => IsString(strong[i]))
            => SafeCast(strong[i], base)
    /\ \A i \in 1..Len(weak) :
         i <= taken - Len(strong) => ScalarRank(weak[i]) <= KindRank(base)
=============================================================================
