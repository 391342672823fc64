------------------------------- MODULE Dtypes -------------------------------
(* Element types: promotion, casting rules and weak Python scalars           *)
(* (ionp-core dtype.rs, ionp-py dtypeinfo.rs).  A dtype is its kind and the   *)
(* bits of one element; the string kinds are one dtype per width.             *)
EXTENDS Naturals, Sequences

Kinds == {"Bool", "Int", "UInt", "Float", "Complex", "Bytes", "Str"}

DT(kind, bits) == [kind |-> kind, bits |-> bits]

Bool == DT("Bool", 8)
I8   == DT("Int", 8)
I64  == DT("Int", 64)
U8   == DT("UInt", 8)
U64  == DT("UInt", 64)
F16  == DT("Float", 16)
F32  == DT("Float", 32)
F64  == DT("Float", 64)
C64  == DT("Complex", 64)
C128 == DT("Complex", 128)

Ints    == {DT("Int", w)   : w \in {8, 16, 32, 64}}
UInts   == {DT("UInt", w)  : w \in {8, 16, 32, 64}}
Floats  == {DT("Float", w) : w \in {16, 32, 64}}
Complexes == {C64, C128}
Numeric == {Bool} \union Ints \union UInts \union Floats \union Complexes

S(chars) == DT("Bytes", 8 * chars)
U(chars) == DT("Str", 32 * chars)

IsString(d)  == d.kind \in {"Bytes", "Str"}
IsInteger(d) == d.kind \in {"Int", "UInt"}
IsComplex(d) == d.kind = "Complex"

Larger(x, y) == IF x < y THEN y ELSE x

----------------------------------------------------------------------------
(* Promotion of two dtypes. *)

\* The float that takes an integer type without cutting it at once.
IntEquivFloatBits(bits) == IF bits <= 8 THEN 16 ELSE IF bits <= 16 THEN 32 ELSE 64

\* The float bits an operand asks of an inexact result.
RealBits(d) == CASE IsInteger(d)      -> IntEquivFloatBits(d.bits)
                 [] d.kind = "Float"   -> d.bits
                 [] d.kind = "Complex" -> d.bits \div 2

\* Mutation of IntUint: the pair with no common integer type stays an integer.
IntUintWraps(ibits, ubits) ==
    DT("Int", IF ubits = 64 THEN 64 ELSE Larger(ibits, 2 * ubits))

\* A signed and an unsigned type: the first signed one above both, if any.
IntUint(ibits, ubits) ==
    IF ubits = 64 THEN F64 ELSE DT("Int", Larger(ibits, 2 * ubits))

PromoteNumeric(a, b) ==
    CASE a.kind = "Bool" -> b
      [] b.kind = "Bool" -> a
      [] a.kind = b.kind -> DT(a.kind, Larger(a.bits, b.bits))
      [] a.kind = "Int" /\ b.kind = "UInt" -> IntUint(a.bits, b.bits)
      [] a.kind = "UInt" /\ b.kind = "Int" -> IntUint(b.bits, a.bits)
      [] OTHER -> LET real == Larger(RealBits(a), RealBits(b))
                  IN  IF IsComplex(a) \/ IsComplex(b)
                      THEN DT("Complex", 2 * real)
                      ELSE DT("Float", real)

Digits(bits) == CASE bits = 8 -> 3 [] bits = 16 -> 5 [] bits = 32 -> 10 [] bits = 64 -> 20

\* Characters that hold every value of a numeric dtype in writing.
StringMinItemsize(d) == CASE d.kind = "Bool"    -> 5
                          [] d.kind = "Int"     -> Digits(d.bits) + 1
                          [] d.kind = "UInt"    -> Digits(d.bits)
                          [] d.kind = "Float"   -> 32
                          [] d.kind = "Complex" -> 64

\* The width of a dtype in characters, once it is text.
Chars(d) == CASE d.kind = "Bytes" -> d.bits \div 8
              [] d.kind = "Str"   -> d.bits \div 32
              [] OTHER            -> StringMinItemsize(d)

PromoteWithString(a, b) ==
    LET chars == Larger(Chars(a), Chars(b))
    IN  IF "Str" \in {a.kind, b.kind} THEN U(chars) ELSE S(chars)

Promote(a, b) ==
    IF a = b THEN a
    ELSE IF IsString(a) \/ IsString(b) THEN PromoteWithString(a, b)
    ELSE PromoteNumeric(a, b)

----------------------------------------------------------------------------
(* Casting rules. *)

\* The value-preserving casts of NumPy's table, by kind.  That of an integer
\* to a float of the same width counts as one, though it may round.
SafeNumeric(a, b) ==
    \/ a.kind = "Bool"
    \/ a.kind = b.kind /\ a.bits <= b.bits
    \/ a.kind = "UInt" /\ b.kind = "Int" /\ a.bits < b.bits
    \/ IsInteger(a) /\ b.kind = "Float" /\ IntEquivFloatBits(a.bits) <= b.bits
    \/ IsInteger(a) /\ b.kind = "Complex" /\ IntEquivFloatBits(a.bits) <= b.bits \div 2
    \/ a.kind = "Float" /\ b.kind = "Complex" /\ a.bits <= b.bits \div 2

\* Text is never cast to a number, nor unicode to bytes.
SafeString(a, b) ==
    /\ IsString(b)
    /\ ~(a.kind = "Str" /\ b.kind = "Bytes")
    /\ Chars(a) <= Chars(b)

SafeCast(a, b) ==
    IF IsString(a) \/ IsString(b) THEN SafeString(a, b) ELSE SafeNumeric(a, b)

\* What 'same_kind' lets pass besides.
SameKindExtra(a, b) ==
    CASE b.kind = "Bool"    -> FALSE
      [] b.kind = "Int"     -> a.kind \in {"Bool", "Int", "UInt"}
      [] b.kind = "UInt"    -> a.kind \in {"Bool", "UInt"}
      [] b.kind = "Float"   -> a.kind \in {"Bool", "Int", "UInt", "Float"}
      [] b.kind = "Complex" -> a.kind \in {"Bool", "Int", "UInt", "Float", "Complex"}
      [] b.kind = "Bytes"   -> a.kind # "Str"
      [] b.kind = "Str"     -> TRUE

Rules == {"no", "safe", "same_kind", "unsafe"}

\* 'equiv' is 'no': there is one byte order.
CanCast(a, b, rule) ==
    CASE rule = "no"        -> a = b
      [] rule = "safe"      -> SafeCast(a, b)
      [] rule = "same_kind" -> SafeCast(a, b) \/ SameKindExtra(a, b)
      [] rule = "unsafe"    -> TRUE

----------------------------------------------------------------------------
(* Weak Python scalars.  An int is its sign and the bits of v, of -v - 1 when *)
(* it is negative, so that what fits a type can be told; the other kinds have *)
(* no more to tell.                                                           *)

Scalar(kind, neg, bits) == [scalar |-> kind, neg |-> neg, bits |-> bits]

ScalarRank(kind) == CASE kind = "Bool" -> 0 [] kind = "Int" -> 1
                      [] kind = "Float" -> 2 [] kind = "Complex" -> 3

KindRank(d) == CASE d.kind = "Bool" -> 0
                 [] IsInteger(d)     -> 1
                 [] d.kind = "Float" -> 2
                 [] OTHER            -> 3

\* What a scalar is when there is no array to follow.
StrongDefault(kind) == CASE kind = "Bool"    -> Bool
                         [] kind = "Int"     -> I64
                         [] kind = "Float"   -> F64
                         [] kind = "Complex" -> C128

WeakTarget(d, kind) ==
    IF ScalarRank(kind) <= KindRank(d) THEN d
    ELSE IF kind = "Complex" /\ d.kind = "Float"
         THEN IF d = F64 THEN C128 ELSE C64
         ELSE StrongDefault(kind)

\* Text has no place for a scalar's value: it takes the scalar's own dtype.
WeakTargetSuSafe(d, kind) ==
    IF IsString(d) THEN StrongDefault(kind) ELSE WeakTarget(d, kind)

\* Whether an int lies in the range of an integer type.
IntBounds(v, d) ==
    IF d.kind = "Int" THEN v.bits <= d.bits - 1 ELSE ~v.neg /\ v.bits <= d.bits

\* An int goes through i64, or through u64 for the wide unsigned types.
WeakIntFits(v, d) ==
    /\ \/ v.bits <= 63
       \/ d.kind = "UInt" /\ d.bits >= 32 /\ ~v.neg /\ v.bits <= 64
    /\ IntBounds(v, d)

\* Whether a scalar can be stored as d: only integer types refuse.
ScalarFits(v, d) == ~(v.scalar = "Int" /\ IsInteger(d)) \/ WeakIntFits(v, d)

=============================================================================
