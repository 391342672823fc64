---------------------------- MODULE UfuncsProofs ----------------------------
(* Proofs about a session of calls: promotion always holds both dtypes, the   *)
(* answer of result_type holds every dtype it was given; to result_type a     *)
(* session is one that only ever calls it; whatever is stored was allowed to  *)
(* be; operators and ufuncs agree with one another and with result_type;      *)
(* every call computes in a loop of its ufunc; every cast obeys the rule.     *)
EXTENDS Ufuncs, WellFoundedInduction, TLAPS

----------------------------------------------------------------------------
(* Promotion of dtypes, and the fold of result_type over its arguments.       *)

\* Every dtype there is, text of any width included.
AnyDtype == Numeric \union {S(c) : c \in Nat} \union {U(c) : c \in Nat}

\* The kinds and widths of the numeric dtypes.
LEMMA NumericShape ==
  ASSUME NEW d \in Numeric
  PROVE  /\ d = DT(d.kind, d.bits)
         /\ \/ d.kind = "Bool" /\ d.bits = 8
            \/ d.kind \in {"Int", "UInt"} /\ d.bits \in {8, 16, 32, 64}
            \/ d.kind = "Float" /\ d.bits \in {16, 32, 64}
            \/ d.kind = "Complex" /\ d.bits \in {64, 128}
         /\ ~IsString(d)
  BY DEF Numeric, Bool, Ints, UInts, Floats, Complexes, C64, C128, DT, IsString

LEMMA NumericFromShape ==
  ASSUME NEW k, NEW b,
         \/ k = "Bool" /\ b = 8
         \/ k \in {"Int", "UInt"} /\ b \in {8, 16, 32, 64}
         \/ k = "Float" /\ b \in {16, 32, 64}
         \/ k = "Complex" /\ b \in {64, 128}
  PROVE  DT(k, b) \in Numeric
  BY DEF Numeric, Bool, Ints, UInts, Floats, Complexes, C64, C128, DT

\* A safe cast after a safe cast is a safe cast.
LEMMA SafeNumericTransitive ==
  ASSUME NEW a \in Numeric, NEW b \in Numeric, NEW c \in Numeric,
         SafeNumeric(a, b), SafeNumeric(b, c)
  PROVE  SafeNumeric(a, c)
  <1>1. \A d \in {a, b, c} :
          /\ d = DT(d.kind, d.bits)
          /\ \/ d.kind = "Bool" /\ d.bits = 8
             \/ d.kind \in {"Int", "UInt"} /\ d.bits \in {8, 16, 32, 64}
             \/ d.kind = "Float" /\ d.bits \in {16, 32, 64}
             \/ d.kind = "Complex" /\ d.bits \in {64, 128}
    BY NumericShape
  <1>2. CASE a.kind = "Bool"
    BY <1>1, <1>2, SMTT(30) DEF SafeNumeric, IsInteger, IntEquivFloatBits
  <1>3. CASE a.kind = b.kind
    BY <1>1, <1>3, SMTT(30) DEF SafeNumeric, IsInteger, IntEquivFloatBits
  <1>4. CASE a.kind = "UInt" /\ b.kind = "Int"
    BY <1>1, <1>4, SMTT(30) DEF SafeNumeric, IsInteger, IntEquivFloatBits
  <1>5. CASE IsInteger(a) /\ b.kind = "Float"
    BY <1>1, <1>5, SMTT(30) DEF SafeNumeric, IsInteger, IntEquivFloatBits
  <1>6. CASE IsInteger(a) /\ b.kind = "Complex"
    BY <1>1, <1>6, SMTT(30) DEF SafeNumeric, IsInteger, IntEquivFloatBits
  <1>7. CASE a.kind = "Float" /\ b.kind = "Complex"
    BY <1>1, <1>7, SMTT(30) DEF SafeNumeric, IsInteger, IntEquivFloatBits
  <1>8. \/ a.kind = "Bool"
        \/ a.kind = b.kind
        \/ a.kind = "UInt" /\ b.kind = "Int"
        \/ IsInteger(a) /\ b.kind = "Float"
        \/ IsInteger(a) /\ b.kind = "Complex"
        \/ a.kind = "Float" /\ b.kind = "Complex"
    BY DEF SafeNumeric
  <1> QED  BY <1>2, <1>3, <1>4, <1>5, <1>6, <1>7, <1>8

LEMMA IntUintHolds ==
  ASSUME NEW i \in {8, 16, 32, 64}, NEW u \in {8, 16, 32, 64}
  PROVE  /\ IntUint(i, u) \in Numeric
         /\ SafeNumeric(DT("Int", i), IntUint(i, u))
         /\ SafeNumeric(DT("UInt", u), IntUint(i, u))
  <1>1. CASE u < i
    BY <1>1, NumericFromShape DEF IntUint, Larger, SafeNumeric, DT
  <1>2. CASE ~(u < i) /\ u # 64
    BY <1>2, NumericFromShape DEF IntUint, Larger, SafeNumeric, DT
  <1>3. CASE u = 64
    <2>1. IntUint(i, u) = F64 /\ F64 \in Numeric
      BY <1>3, NumericFromShape DEF IntUint, F64
    <2> QED  BY <1>3, <2>1 DEF SafeNumeric, IsInteger, IntEquivFloatBits, F64, DT
  <1> QED  BY <1>1, <1>2, <1>3

LEMMA PromoteNumericHolds ==
  ASSUME NEW a \in Numeric, NEW b \in Numeric
  PROVE  /\ PromoteNumeric(a, b) \in Numeric
         /\ SafeNumeric(a, PromoteNumeric(a, b))
         /\ SafeNumeric(b, PromoteNumeric(a, b))
  <1>1. \A d \in {a, b} :
          /\ d = DT(d.kind, d.bits)
          /\ \/ d.kind = "Bool" /\ d.bits = 8
             \/ d.kind \in {"Int", "UInt"} /\ d.bits \in {8, 16, 32, 64}
             \/ d.kind = "Float" /\ d.bits \in {16, 32, 64}
             \/ d.kind = "Complex" /\ d.bits \in {64, 128}
    BY NumericShape
  <1>2. CASE a.kind = "Bool" /\ b.kind = "Bool"
    <2>1. a = b /\ DT(a.kind, Larger(a.bits, b.bits)) = b
      BY <1>1, <1>2 DEF Larger
    <2>2. PromoteNumeric(a, b) = b
      BY <1>2, <2>1 DEF PromoteNumeric
    <2> QED  BY <1>2, <2>1, <2>2 DEF SafeNumeric
  <1>3. CASE a.kind # b.kind /\ (a.kind = "Bool" \/ b.kind = "Bool")
    <2>1. CASE a.kind = "Bool"
      <3>1. PromoteNumeric(a, b) = b
        BY <1>3, <2>1 DEF PromoteNumeric
      <3>2. SafeNumeric(a, b) /\ SafeNumeric(b, b)
        BY <1>1, <2>1 DEF SafeNumeric
      <3> QED  BY <3>1, <3>2
    <2>2. CASE b.kind = "Bool"
      <3>1. PromoteNumeric(a, b) = a
        BY <1>3, <2>2 DEF PromoteNumeric
      <3>2. SafeNumeric(a, a) /\ SafeNumeric(b, a)
        BY <1>1, <2>2 DEF SafeNumeric
      <3> QED  BY <3>1, <3>2
    <2> QED  BY <1>3, <2>1, <2>2
  <1>4. CASE a.kind = b.kind /\ a.kind # "Bool"
    <2>1. PICK p : p = DT(a.kind, Larger(a.bits, b.bits))
      OBVIOUS
    <2>2. PromoteNumeric(a, b) = p
      <3>1. ~(a.kind = "Int" /\ b.kind = "UInt") /\ ~(a.kind = "UInt" /\ b.kind = "Int")
        BY <1>4
      <3> QED  BY <1>4, <2>1, <3>1 DEF PromoteNumeric
    <2>3. /\ p = a \/ p = b
          /\ p.kind = a.kind /\ a.bits <= p.bits /\ b.bits <= p.bits
      <3>1. a.bits \in Nat /\ b.bits \in Nat
        BY <1>1
      <3>2. CASE a.bits >= b.bits
        <4>1. Larger(a.bits, b.bits) = a.bits
          BY <3>1, <3>2 DEF Larger
        <4>2. p = a
          BY <1>1, <2>1, <4>1
        <4> QED  BY <3>1, <3>2, <4>2
      <3>3. CASE a.bits < b.bits
        <4>1. Larger(a.bits, b.bits) = b.bits
          BY <3>1, <3>3 DEF Larger
        <4>2. p = b
          BY <1>1, <1>4, <2>1, <4>1
        <4> QED  BY <1>4, <3>1, <3>3, <4>2
      <3> QED  BY <3>1, <3>2, <3>3
    <2> QED  BY <1>4, <2>2, <2>3 DEF SafeNumeric
  <1>5. CASE a.kind = "Int" /\ b.kind = "UInt"
    <2>1. PromoteNumeric(a, b) = IntUint(a.bits, b.bits)
      BY <1>5 DEF PromoteNumeric
    <2>2. /\ a.bits \in {8, 16, 32, 64} /\ a = DT("Int", a.bits)
          /\ b.bits \in {8, 16, 32, 64} /\ b = DT("UInt", b.bits)
      BY <1>1, <1>5
    <2> QED  BY <2>1, <2>2, IntUintHolds
  <1>6. CASE a.kind = "UInt" /\ b.kind = "Int"
    <2>1. PromoteNumeric(a, b) = IntUint(b.bits, a.bits)
      BY <1>6 DEF PromoteNumeric
    <2>2. /\ b.bits \in {8, 16, 32, 64} /\ b = DT("Int", b.bits)
          /\ a.bits \in {8, 16, 32, 64} /\ a = DT("UInt", a.bits)
      BY <1>1, <1>6
    <2> QED  BY <2>1, <2>2, IntUintHolds
  <1>7. CASE a.kind \in {"Int", "UInt"} /\ b.kind = "Float"
    BY <1>1, <1>7, NumericFromShape, SMTT(30)
    DEF PromoteNumeric, SafeNumeric, IsInteger, IsComplex, IntEquivFloatBits,
        RealBits, IntUint, Larger, DT, F64
  <1>8. CASE a.kind \in {"Int", "UInt"} /\ b.kind = "Complex"
    BY <1>1, <1>8, NumericFromShape, SMTT(30)
    DEF PromoteNumeric, SafeNumeric, IsInteger, IsComplex, IntEquivFloatBits,
        RealBits, IntUint, Larger, DT, F64
  <1>9. CASE a.kind = "Float" /\ b.kind = "Complex"
    BY <1>1, <1>9, NumericFromShape, SMTT(30)
    DEF PromoteNumeric, SafeNumeric, IsInteger, IsComplex, IntEquivFloatBits,
        RealBits, IntUint, Larger, DT, F64
  <1>10. CASE b.kind \in {"Int", "UInt"} /\ a.kind = "Float"
    BY <1>1, <1>10, NumericFromShape, SMTT(30)
    DEF PromoteNumeric, SafeNumeric, IsInteger, IsComplex, IntEquivFloatBits,
        RealBits, IntUint, Larger, DT, F64
  <1>11. CASE b.kind \in {"Int", "UInt"} /\ a.kind = "Complex"
    BY <1>1, <1>11, NumericFromShape, SMTT(30)
    DEF PromoteNumeric, SafeNumeric, IsInteger, IsComplex, IntEquivFloatBits,
        RealBits, IntUint, Larger, DT, F64
  <1>12. CASE b.kind = "Float" /\ a.kind = "Complex"
    BY <1>1, <1>12, NumericFromShape, SMTT(30)
    DEF PromoteNumeric, SafeNumeric, IsInteger, IsComplex, IntEquivFloatBits,
        RealBits, IntUint, Larger, DT, F64
  <1> QED  BY <1>1, <1>2, <1>3, <1>4, <1>5, <1>6, <1>7, <1>8, <1>9, <1>10, <1>11, <1>12

\* Text dtypes and their characters.
LEMMA TextShape ==
  ASSUME NEW n \in Nat
  PROVE  /\ S(n) \in AnyDtype /\ U(n) \in AnyDtype
         /\ S(n).kind = "Bytes" /\ U(n).kind = "Str"
         /\ IsString(S(n)) /\ IsString(U(n))
         /\ Chars(S(n)) = n /\ Chars(U(n)) = n
  BY DEF AnyDtype, S, U, DT, IsString, Chars

LEMMA NumericChars ==
  ASSUME NEW d \in Numeric
  PROVE  Chars(d) \in Nat
  <1>1. Chars(d) = StringMinItemsize(d)
    BY NumericShape DEF Chars
  <1>2. StringMinItemsize(d) \in Nat
    BY NumericShape DEF StringMinItemsize, Digits
  <1> QED  BY <1>1, <1>2

LEMMA AnyShape ==
  ASSUME NEW d \in AnyDtype
  PROVE  /\ Chars(d) \in Nat
         /\ \/ d \in Numeric /\ ~IsString(d)
            \/ d.kind \in {"Bytes", "Str"} /\ IsString(d)
  <1>1. CASE d \in Numeric  BY <1>1, NumericShape, NumericChars
  <1>2. CASE \E n \in Nat : d = S(n)  BY <1>2, TextShape
  <1>3. CASE \E n \in Nat : d = U(n)  BY <1>3, TextShape
  <1> QED  BY <1>1, <1>2, <1>3 DEF AnyDtype

\* A safe cast after a safe cast is a safe cast, unless it turns into text what
\* was cast as a number before (Bool to I8 to S4 loses a character of "False").
LEMMA SafeCastTransitive ==
  ASSUME NEW a \in AnyDtype, NEW b \in AnyDtype, NEW c \in AnyDtype,
         SafeCast(a, b), SafeCast(b, c), IsString(c) => IsString(a)
  PROVE  SafeCast(a, c)
  <1>1. CASE IsString(b)
    <2>1. SafeString(a, b) /\ SafeString(b, c)  BY <1>1 DEF SafeCast
    <2>2. SafeString(a, c)  BY <2>1, AnyShape DEF SafeString, IsString
    <2> QED  BY <2>1, <2>2 DEF SafeCast, SafeString
  <1>2. CASE ~IsString(b)
    <2>1. ~IsString(a)  BY <1>2 DEF SafeCast, SafeString
    <2>2. a \in Numeric /\ b \in Numeric /\ c \in Numeric
      BY <1>2, <2>1, AnyShape
    <2> QED  BY <2>2, NumericShape, SafeNumericTransitive DEF SafeCast
  <1> QED  BY <1>1, <1>2

\* A dtype casts safely to itself.
LEMMA SafeCastReflexive ==
  ASSUME NEW a \in AnyDtype
  PROVE  SafeCast(a, a)
  <1>1. CASE a \in Numeric
    BY <1>1, NumericShape DEF SafeCast, SafeNumeric
  <1>2. CASE IsString(a)
    BY <1>2, AnyShape DEF SafeCast, SafeString
  <1> QED  BY <1>1, <1>2, AnyShape

\* What text and anything else promote to is text that holds both.
LEMMA PromoteTextHolds ==
  ASSUME NEW a \in AnyDtype, NEW b \in AnyDtype, IsString(a) \/ IsString(b)
  PROVE  /\ PromoteWithString(a, b) \in AnyDtype
         /\ IsString(PromoteWithString(a, b))
         /\ SafeCast(a, PromoteWithString(a, b))
         /\ SafeCast(b, PromoteWithString(a, b))
  <1> DEFINE chars == Larger(Chars(a), Chars(b))
  <1>1. /\ chars \in Nat
        /\ Chars(a) <= chars
        /\ Chars(b) <= chars
    BY AnyShape DEF Larger
  <1>2. CASE "Str" \in {a.kind, b.kind}
    <2>1. PromoteWithString(a, b) = U(chars)
      BY <1>2 DEF PromoteWithString
    <2> QED  BY <1>1, <2>1, TextShape DEF SafeCast, SafeString
  <1>3. CASE "Str" \notin {a.kind, b.kind}
    <2>1. PromoteWithString(a, b) = S(chars)
      BY <1>3 DEF PromoteWithString
    <2> QED  BY <1>1, <1>3, <2>1, TextShape DEF SafeCast, SafeString
  <1> QED  BY <1>2, <1>3

\* Promotion loses nothing of either side.
LEMMA PromoteHolds ==
  ASSUME NEW a \in AnyDtype, NEW b \in AnyDtype
  PROVE  /\ Promote(a, b) \in AnyDtype
         /\ SafeCast(a, Promote(a, b))
         /\ SafeCast(b, Promote(a, b))
  <1>1. CASE a = b
    BY <1>1, SafeCastReflexive DEF Promote
  <1>2. CASE a # b /\ (IsString(a) \/ IsString(b))
    BY <1>2, PromoteTextHolds DEF Promote
  <1>3. CASE a # b /\ ~IsString(a) /\ ~IsString(b)
    <2>1. a \in Numeric /\ b \in Numeric
      BY <1>3, AnyShape
    <2>2. Promote(a, b) = PromoteNumeric(a, b)
      BY <1>3 DEF Promote
    <2>3. ~IsString(PromoteNumeric(a, b))
      BY <2>1, PromoteNumericHolds, NumericShape
    <2> QED  BY <1>3, <2>1, <2>2, <2>3, PromoteNumericHolds DEF SafeCast, AnyDtype
  <1> QED  BY <1>1, <1>2, <1>3

\* A safe cast never lowers the kind.
LEMMA SafeCastKeepsKind ==
  ASSUME NEW a \in AnyDtype, NEW b \in AnyDtype, SafeCast(a, b)
  PROVE  KindRank(a) <= KindRank(b)
  <1>1. CASE IsString(b)
    BY <1>1, AnyShape DEF KindRank, IsString, IsInteger
  <1>2. CASE ~IsString(b)
    <2>1. ~IsString(a)  BY <1>2 DEF SafeCast, SafeString
    <2>2. a \in Numeric /\ b \in Numeric  BY <1>2, <2>1, AnyShape
    <2> QED  BY <1>2, <2>1, <2>2, NumericShape DEF KindRank, IsInteger, SafeCast, SafeNumeric
  <1> QED  BY <1>1, <1>2

\* A scalar leaves a dtype as it is or moves it to one of the scalar's kind.
LEMMA WeakTargetHolds ==
  ASSUME NEW d \in AnyDtype, NEW kind \in ScalarKinds
  PROVE  /\ WeakTarget(d, kind) \in AnyDtype
         /\ SafeCast(d, WeakTarget(d, kind))
         /\ ScalarRank(kind) <= KindRank(WeakTarget(d, kind))
  <1>1. CASE ScalarRank(kind) <= KindRank(d)
    BY <1>1, SafeCastReflexive DEF WeakTarget
  <1>2. CASE ~(ScalarRank(kind) <= KindRank(d))
    <2>1. d \in Numeric /\ ~IsString(d)
      BY <1>2, AnyShape DEF ScalarRank, KindRank, ScalarKinds, IsInteger
    <2>2. /\ WeakTarget(d, kind) \in Numeric
          /\ SafeNumeric(d, WeakTarget(d, kind))
          /\ ScalarRank(kind) <= KindRank(WeakTarget(d, kind))
      BY <1>2, <2>1, NumericShape, NumericFromShape, SMTT(60)
      DEF WeakTarget, StrongDefault, ScalarRank, KindRank, ScalarKinds, IsInteger,
          SafeNumeric, IntEquivFloatBits, Bool, I64, F64, C64, C128, DT
    <2> QED  BY <2>1, <2>2, NumericShape DEF SafeCast, AnyDtype
  <1> QED  BY <1>1, <1>2

----------------------------------------------------------------------------
\* The shape of the state.
ResultTypeInv ==
    /\ strong \in Seq(AnyDtype) /\ weak \in Seq(ScalarKinds)
    /\ base \in AnyDtype
    /\ taken \in 0..Len(strong) + Len(weak)

IInv == ResultTypeInv /\ HoldsEvery

\* What held before one more dtype is taken in goes on holding.
LEMMA BaseGrows ==
  ASSUME IInv, NEW wider \in AnyDtype, SafeCast(base, wider),
         NEW i \in 1..Len(strong), i <= taken,
         IsString(wider) => IsString(strong[i])
  PROVE  SafeCast(strong[i], wider)
  <1>1. strong[i] \in AnyDtype
    BY DEF IInv, ResultTypeInv
  <1>2. IsString(base) => IsString(strong[i])
    <2>1. ASSUME IsString(base)  PROVE IsString(wider)
      BY <2>1 DEF SafeCast, SafeString
    <2> QED  BY <2>1
  <1>3. SafeCast(strong[i], base)
    BY <1>2 DEF IInv, HoldsEvery
  <1> QED  BY <1>1, <1>3, SafeCastTransitive DEF IInv, ResultTypeInv

LEMMA KindGrows ==
  ASSUME IInv, NEW wider \in AnyDtype, SafeCast(base, wider),
         NEW i \in 1..Len(weak), i <= taken - Len(strong)
  PROVE  ScalarRank(weak[i]) <= KindRank(wider)
  <1>1. ScalarRank(weak[i]) <= KindRank(base)
    BY DEF IInv, HoldsEvery
  <1>2. KindRank(base) <= KindRank(wider)
    BY SafeCastKeepsKind DEF IInv, ResultTypeInv
  <1>3. /\ ScalarRank(weak[i]) \in Nat
        /\ KindRank(base) \in Nat
        /\ KindRank(wider) \in Nat
    BY DEF IInv, ResultTypeInv, ScalarRank, KindRank, ScalarKinds
  <1> QED  BY <1>1, <1>2, <1>3

LEMMA GivenAreDtypes == Given \subseteq AnyDtype /\ F64 \in AnyDtype /\ Bool \in AnyDtype
  BY ResultTypeAssumption
  DEF DtypesUpTo, AnyDtype, Numeric, F64, Bool, Floats, DT

LEMMA ResultInit_IInv == ResultInit => IInv
  BY GivenAreDtypes DEF ResultInit, IInv, ResultTypeInv, HoldsEvery

LEMMA PassDtype_IInv ==
  ASSUME IInv, NEW d \in AnyDtype, PassDtype(d)
  PROVE  IInv'
  <1>1. ResultTypeInv'
    BY DEF IInv, ResultTypeInv, PassDtype, Room
  <1>2. HoldsEvery'
    BY DEF IInv, ResultTypeInv, HoldsEvery, PassDtype, Room
  <1> QED  BY <1>1, <1>2 DEF IInv

LEMMA PassScalar_IInv ==
  ASSUME IInv, NEW kind \in ScalarKinds, PassScalar(kind)
  PROVE  IInv'
  <1>1. ResultTypeInv'
    BY DEF IInv, ResultTypeInv, PassScalar, Room
  <1>2. HoldsEvery'
    BY DEF IInv, ResultTypeInv, HoldsEvery, PassScalar, Room
  <1> QED  BY <1>1, <1>2 DEF IInv

LEMMA TakeFirst_IInv ==
  ASSUME IInv, TakeFirst
  PROVE  IInv'
  <1>1. strong[1] \in AnyDtype
    BY DEF IInv, ResultTypeInv, TakeFirst
  <1>2. ResultTypeInv'
    BY <1>1 DEF IInv, ResultTypeInv, TakeFirst
  <1>3. HoldsEvery'
    BY <1>1, SafeCastReflexive DEF IInv, ResultTypeInv, HoldsEvery, TakeFirst
  <1> QED  BY <1>2, <1>3 DEF IInv

LEMMA TakeDtype_IInv ==
  ASSUME IInv, TakeDtype
  PROVE  IInv'
  <1> DEFINE next == strong[taken + 1]
  <1>1. /\ next \in AnyDtype
        /\ Promote(base, next) \in AnyDtype
        /\ SafeCast(base, Promote(base, next))
        /\ SafeCast(next, Promote(base, next))
    <2>1. next \in AnyDtype  BY DEF IInv, ResultTypeInv, TakeDtype
    <2> QED  BY <2>1, PromoteHolds DEF IInv, ResultTypeInv
  <1>2. base' = Promote(base, next) /\ strong' = strong /\ weak' = weak
        /\ taken' = taken + 1
    BY DEF TakeDtype
  <1>3. ResultTypeInv'
    BY <1>1, <1>2 DEF IInv, ResultTypeInv, TakeDtype
  <1>4. ASSUME NEW i \in 1..Len(strong), i <= taken + 1,
               IsString(Promote(base, next)) => IsString(strong[i])
        PROVE  SafeCast(strong[i], Promote(base, next))
    <2>1. CASE i <= taken  BY <1>1, <1>4, <2>1, BaseGrows
    <2>2. CASE i = taken + 1  BY <1>1, <2>2
    <2> QED  BY <1>4, <2>1, <2>2 DEF IInv, ResultTypeInv
  <1>5. \A i \in 1..Len(weak) : ~(i <= taken + 1 - Len(strong))
    BY DEF TakeDtype, IInv, ResultTypeInv
  <1>6. HoldsEvery'
    <2>1. \A i \in 1..Len(strong') :
            i <= taken' /\ (IsString(base') => IsString(strong'[i]))
              => SafeCast(strong'[i], base')
      <3> HIDE DEF next
      <3> QED  BY <1>2, <1>4
    <2>2. \A i \in 1..Len(weak') : ~(i <= taken' - Len(strong'))
      <3> HIDE DEF next
      <3>1. taken \in Nat /\ Len(strong) \in Nat
        BY DEF IInv, ResultTypeInv
      <3>2. weak' = weak /\ taken' - Len(strong') = taken + 1 - Len(strong)
        BY <1>2, <3>1
      <3> QED  BY <1>2, <1>5, <3>2, Zenon
    <2> QED  BY <2>1, <2>2 DEF HoldsEvery
  <1> QED  BY <1>3, <1>6 DEF IInv

LEMMA TakeScalar_IInv ==
  ASSUME IInv, TakeScalar
  PROVE  IInv'
  <1> DEFINE next == weak[taken - Len(strong) + 1]
  <1>1. /\ next \in ScalarKinds
        /\ WeakTarget(base, next) \in AnyDtype
        /\ SafeCast(base, WeakTarget(base, next))
        /\ ScalarRank(next) <= KindRank(WeakTarget(base, next))
    <2>1. next \in ScalarKinds  BY DEF IInv, ResultTypeInv, TakeScalar
    <2> QED  BY <2>1, WeakTargetHolds DEF IInv, ResultTypeInv
  <1>2. base' = WeakTarget(base, next) /\ strong' = strong /\ weak' = weak
        /\ taken' = taken + 1
    BY DEF TakeScalar
  <1>3. ResultTypeInv'
    BY <1>1, <1>2 DEF IInv, ResultTypeInv, TakeScalar
  <1>4. ASSUME NEW i \in 1..Len(strong),
               IsString(WeakTarget(base, next)) => IsString(strong[i])
        PROVE  SafeCast(strong[i], WeakTarget(base, next))
    <2>1. i <= taken  BY DEF TakeScalar, IInv, ResultTypeInv
    <2> QED  BY <1>1, <1>4, <2>1, BaseGrows
  <1>5. ASSUME NEW i \in 1..Len(weak), i <= taken + 1 - Len(strong)
        PROVE  ScalarRank(weak[i]) <= KindRank(WeakTarget(base, next))
    <2>1. CASE i <= taken - Len(strong)  BY <1>1, <2>1, KindGrows
    <2>2. CASE i = taken - Len(strong) + 1  BY <1>1, <2>2
    <2> QED  BY <1>5, <2>1, <2>2 DEF IInv, ResultTypeInv
  <1>6. HoldsEvery'
    <2>1. \A i \in 1..Len(strong') :
            i <= taken' /\ (IsString(base') => IsString(strong'[i]))
              => SafeCast(strong'[i], base')
      <3> HIDE DEF next
      <3> QED  BY <1>2, <1>4
    <2>2. \A i \in 1..Len(weak') :
            i <= taken' - Len(strong') => ScalarRank(weak'[i]) <= KindRank(base')
      <3> HIDE DEF next
      <3>1. taken \in Nat /\ Len(strong) \in Nat
        BY DEF IInv, ResultTypeInv
      <3>2. weak' = weak /\ taken' - Len(strong') = taken + 1 - Len(strong)
        BY <1>2, <3>1
      <3> QED  BY <1>2, <1>5, <3>2, Zenon
    <2> QED  BY <2>1, <2>2 DEF HoldsEvery
  <1> QED  BY <1>3, <1>6 DEF IInv

LEMMA Answer_IInv ==
  ASSUME IInv, Answer
  PROVE  IInv'
  BY GivenAreDtypes DEF Answer, IInv, ResultTypeInv, HoldsEvery

LEMMA ResultNext_IInv == IInv /\ [ResultNext]_result_vars => IInv'
  <1> SUFFICES ASSUME IInv, [ResultNext]_result_vars PROVE IInv'
    OBVIOUS
  <1>1. CASE \E d \in Given : PassDtype(d)
    BY <1>1, GivenAreDtypes, PassDtype_IInv
  <1>2. CASE PassNone
    BY <1>2, GivenAreDtypes, PassDtype_IInv DEF PassNone
  <1>3. CASE \E kind \in ScalarKinds : PassScalar(kind)
    BY <1>3, PassScalar_IInv
  <1>4. CASE TakeFirst  BY <1>4, TakeFirst_IInv
  <1>5. CASE TakeDtype  BY <1>5, TakeDtype_IInv
  <1>6. CASE TakeScalar  BY <1>6, TakeScalar_IInv
  <1>7. CASE Answer  BY <1>7, Answer_IInv
  <1>8. CASE UNCHANGED result_vars
    BY <1>8 DEF result_vars, IInv, ResultTypeInv, HoldsEvery
  <1> QED
    BY <1>1, <1>2, <1>3, <1>4, <1>5, <1>6, <1>7, <1>8 DEF ResultNext

\* result_type answers with a dtype that takes every argument, for any dtypes
\* and any number of arguments: the fold never drops below what it has seen.
THEOREM ResultTypeHoldsEvery == ResultSpec => []HoldsEvery
  <1>1. IInv => HoldsEvery  BY DEF IInv
  <1> QED  BY <1>1, ResultInit_IInv, ResultNext_IInv, PTL DEF ResultSpec

----------------------------------------------------------------------------
(* The session as a whole.                                                     *)

\* Whatever ufuncs are called between them, the calls of result_type run as the
\* fold of dtypeinfo.rs runs alone: the engine keeps no state that reaches it.
THEOREM SessionRefinesResult == SessionSpec => ResultSpec
<1>1. SessionInit => ResultInit
  BY DEF SessionInit
<1>2. [SessionNext]_vars => [ResultNext]_result_vars
  BY DEF SessionNext, vars, result_vars
<1> QED
  BY <1>1, <1>2, PTL DEF SessionSpec, ResultSpec

\* So the answer of result_type holds every dtype it was given, however its
\* calls are mixed with calls of ufuncs.
THEOREM SessionHoldsEvery == SessionSpec => []HoldsEvery
BY SessionRefinesResult, ResultTypeHoldsEvery, PTL

----------------------------------------------------------------------------
(* An in-place operator stores two steps after it asked: what it was told     *)
(* must hold until then.                                                      *)

\* What a call on its way to a store has been allowed.
Allowed ==
    /\ call.stage = "typed" /\ call.into # None =>
         /\ call.asked = None
         /\ CanCast(OutDtype(call.op, call.ins), call.into, call.rule)
    /\ call.stage = "computed" /\ call.into # None =>
         CanCast(call.out, call.into, call.rule)
    /\ ResultsObeyTheRule

LEMMA RaiseAllowed == ASSUME Raise PROVE Allowed'
BY DEF Raise, Idle, Allowed, ResultsObeyTheRule

LEMMA StartAllowed == ASSUME Start PROVE Allowed'
<1> USE DEF Allowed, ResultsObeyTheRule
<1>1. ASSUME NEW op, NEW args, CallUfunc(op, args) PROVE Allowed'
  BY <1>1, RaiseAllowed DEF CallUfunc
<1>2. ASSUME NEW op, NEW d, NEW x, NEW reflected, Operate(op, d, x, reflected)
      PROVE Allowed'
  BY <1>2 DEF Operate
<1>3. ASSUME NEW op, NEW d, NEW x, OperateInPlace(op, d, x) PROVE Allowed'
  BY <1>3 DEF OperateInPlace
<1>4. ASSUME NEW op, NEW d, OperateAlone(op, d) PROVE Allowed'
  BY <1>4 DEF OperateAlone
<1>5. ASSUME NEW op, NEW d, NEW asked, FoldIn(op, d, asked) PROVE Allowed'
  BY <1>5, RaiseAllowed DEF FoldIn
<1> QED
  BY <1>1, <1>2, <1>3, <1>4, <1>5 DEF Start, Reduce, Accumulate

LEMMA GoAllowed == ASSUME Allowed, Go PROVE Allowed'
<1>1. ASSUME NEW rule, CheckCasting(rule) PROVE Allowed'
  BY <1>1, RaiseAllowed DEF CheckCasting, Typed, Allowed, ResultsObeyTheRule
<1>2. ASSUME NEW rule, NEW asked, ResolveDtype(rule, asked) PROVE Allowed'
  BY <1>2, RaiseAllowed DEF ResolveDtype, Typed, Allowed, ResultsObeyTheRule
<1>3. CASE Apply
  BY <1>3, RaiseAllowed DEF Apply, Typed, Allowed, ResultsObeyTheRule
<1>4. CASE Compute
  <2>1. CASE Raise  BY <2>1, RaiseAllowed
  <2>2. ASSUME call.stage = "typed", NEW out, out = OutDtype(call.op, call.ins),
               call' = [stage |-> "computed", rule |-> call.rule, into |-> call.into,
                        out |-> IF call.asked = None THEN out ELSE call.asked]
        PROVE  Allowed'
    BY <2>2 DEF Allowed, ResultsObeyTheRule
  <2> QED  BY <1>4, <2>1, <2>2 DEF Compute
<1>5. ASSUME NEW to, WriteOut(to) PROVE Allowed'
  BY <1>5, RaiseAllowed DEF WriteOut, Store, Allowed, ResultsObeyTheRule
<1>6. CASE WriteInPlace
  BY <1>6 DEF WriteInPlace, Allowed, ResultsObeyTheRule
<1>7. CASE Return
  BY <1>7, RaiseAllowed DEF Return
<1> QED
  BY <1>1, <1>2, <1>3, <1>4, <1>5, <1>6, <1>7 DEF Go

\* Whatever is written into an array that was there before, by out= or by an
\* in-place operator, may be cast to its dtype under the rule of the call
\* (write_into_out_ufunc, check_inplace_output).
THEOREM SessionResultsObey == SessionSpec => []ResultsObeyTheRule
<1>1. SessionInit => Allowed
  BY DEF SessionInit, Idle, Allowed, ResultsObeyTheRule
<1>2. Allowed /\ [SessionNext]_vars => Allowed'
  <2> SUFFICES ASSUME Allowed, [SessionNext]_vars PROVE Allowed'
    OBVIOUS
  <2>1. CASE Start  BY <2>1, StartAllowed
  <2>2. CASE Go  BY <2>2, GoAllowed
  <2>3. CASE UNCHANGED call
    BY <2>3 DEF Allowed, ResultsObeyTheRule
  <2> QED  BY <2>1, <2>2, <2>3 DEF SessionNext, vars
<1>3. Allowed => ResultsObeyTheRule
  BY DEF Allowed
<1> QED
  BY <1>1, <1>2, <1>3, PTL DEF SessionSpec

----------------------------------------------------------------------------
(* An operator takes the dtype of its scalar by code of its own.              *)

LEMMA ArraysAreStrong == ASSUME NEW d \in Numeric PROVE ~IsWeak(d)
<1>1. d = DT(d.kind, d.bits)
  BY NumericShape
<1>2. PICK k, b : d = DT(k, b)
  BY <1>1
<1> QED
  BY <1>2 DEF IsWeak, DT

\* A Python bool divides an integer in the integer's own dtype or in float64:
\* the quotient is a float64 in both.
LEMMA BoolDivides ==
  ASSUME NEW d \in Numeric, d = Bool \/ IsInteger(d)
  PROVE  /\ OutDtype("divide", <<d, d>>) = F64
         /\ OutDtype("divide", <<d, F64>>) = F64
         /\ OutDtype("divide", <<F64, d>>) = F64
<1>1. /\ d.kind \in {"Bool"} \union Counting
      /\ d.bits \in {8, 16, 32, 64}
      /\ ~IsString(d)
  BY NumericShape DEF Bool, DT, IsInteger, Counting
<1>2. /\ F64.kind = "Float" /\ F64.bits = 64 /\ ~IsString(F64)
      /\ d # F64
  BY <1>1 DEF F64, DT, IsString, Counting
<1>3. /\ Promote(d, d) = d
      /\ Promote(d, F64) = F64
      /\ Promote(F64, d) = F64
  BY <1>1, <1>2, SMTT(60)
  DEF Promote, PromoteNumeric, Counting, IsComplex, IsInteger, RealBits, Larger,
      IntEquivFloatBits, F64, DT
<1>4. ASSUME NEW a, NEW b
      PROVE  OutDtype("divide", <<a, b>>) = BinaryOut("divide", a, b)
  <2>1. /\ "divide" \notin PlainUnary /\ "divide" \notin MathUnary
        /\ "divide" \notin PureUnary /\ "divide" \notin MathBinary
        /\ "divide" \in PlainBinary
    BY DEF PlainUnary, MathUnary, PureUnary, PlainBinary, MathBinary
  <2>2. PICK ins : ins = <<a, b>>
    OBVIOUS
  <2>3. OutDtype("divide", ins) = BinaryOut("divide", ins[1], ins[2])
    BY <2>1 DEF OutDtype
  <2> QED
    BY <2>2, <2>3
<1>5. F64.kind \notin {"Bool"} \union Counting
  BY <1>2 DEF Counting
<1>6. \A a, b : BinaryOut("divide", a, b) =
                  IF Promote(a, b).kind \in {"Bool"} \union Counting THEN F64
                  ELSE Promote(a, b)
  BY DEF BinaryOut
<1> QED
  BY <1>1, <1>3, <1>4, <1>5, <1>6

\* The two ways give a scalar one dtype, but for that bool.
LEMMA ScalarWays ==
  ASSUME NEW op \in BinaryOperators \ {"greater"}, NEW d \in Numeric,
         NEW v, v.scalar \in ScalarKinds
  PROVE  \/ OperatorScalar(op, d, v) = ScalarAgainst(op, d, v)
         \/ /\ op = "divide" /\ v.scalar = "Bool" /\ (d = Bool \/ IsInteger(d))
            /\ OperatorScalar(op, d, v) = d
            /\ ScalarAgainst(op, d, v) = F64
<1>1. /\ op \notin Tiered /\ op \notin Relaxed
      /\ op \in ForcesFloat <=> op = "divide"
  BY DEF BinaryOperators, Tiered, Relaxed, ForcesFloat
<1>2. PICK target : target = WeakTargetSuSafe(d, v.scalar)
  OBVIOUS
<1>3. target = WeakTarget(d, v.scalar)
  BY <1>2, NumericShape DEF WeakTargetSuSafe
<1>4. ScalarAgainst(op, d, v) =
        IF op = "divide" /\ (target = Bool \/ IsInteger(target)) THEN F64 ELSE target
  BY <1>1, <1>2 DEF ScalarAgainst
<1>5. OperatorScalar(op, d, v) =
        IF op = "divide" /\ v.scalar = "Int" /\ (d = Bool \/ IsInteger(d)) THEN F64
        ELSE target
  BY <1>2 DEF OperatorScalar
<1>6. CASE op # "divide"
  BY <1>4, <1>5, <1>6
<1>7. CASE op = "divide" /\ v.scalar = "Int"
  <2>1. (target = Bool \/ IsInteger(target)) <=> (d = Bool \/ IsInteger(d))
    BY <1>3, <1>7, NumericShape, SMTT(60)
    DEF WeakTarget, ScalarRank, KindRank, StrongDefault, IsInteger, Bool, I64, DT
  <2> QED
    BY <1>4, <1>5, <1>7, <2>1
<1>8. CASE op = "divide" /\ v.scalar = "Bool"
  <2>1. target = d
    BY <1>3, <1>8, NumericShape DEF WeakTarget, ScalarRank, KindRank
  <2> QED
    BY <1>4, <1>5, <1>8, <2>1
<1>9. CASE op = "divide" /\ v.scalar \in {"Float", "Complex"}
  <2>1. ~(target = Bool \/ IsInteger(target))
    BY <1>3, <1>9, NumericShape, SMTT(60)
    DEF WeakTarget, ScalarRank, KindRank, StrongDefault, IsInteger,
        Bool, I64, F64, C64, C128, DT
  <2> QED
    BY <1>4, <1>5, <1>9, <2>1
<1> QED
  BY <1>6, <1>7, <1>8, <1>9 DEF ScalarKinds

\* What a call comes to: a dtype, or none where it raises.
Outcome(op, args, from) == IF Fits(args, from) THEN OutDtype(op, from) ELSE None

\* The operands of an operator beside those its ufunc would extract.
LEMMA OneOutcome ==
  ASSUME NEW op \in BinaryOperators \ {"greater"}, NEW d \in Numeric,
         NEW v, v.scalar \in ScalarKinds,
         NEW o, o = OperatorScalar(op, d, v),
         NEW s, s = ScalarAgainst(op, d, v)
  PROVE  /\ Outcome(op, <<d, v>>, <<d, o>>) = Outcome(op, <<d, v>>, <<d, s>>)
         /\ Outcome(op, <<v, d>>, <<o, d>>) = Outcome(op, <<v, d>>, <<s, d>>)
<1>1. CASE o = s
  BY <1>1
<1>2. CASE /\ op = "divide" /\ v.scalar = "Bool" /\ (d = Bool \/ IsInteger(d))
           /\ o = d
           /\ s = F64
  <2>1. ~IsWeak(d)
    BY ArraysAreStrong
  <2>2. ScalarFits(v, o) /\ ScalarFits(v, s)
    BY <1>2 DEF ScalarFits
  <2>3. /\ Fits(<<d, v>>, <<d, o>>) /\ Fits(<<d, v>>, <<d, s>>)
        /\ Fits(<<v, d>>, <<o, d>>) /\ Fits(<<v, d>>, <<s, d>>)
    BY <2>1, <2>2 DEF Fits
  <2> QED
    BY <1>2, <2>3, BoolDivides DEF Outcome
<1> QED
  BY <1>1, <1>2, ScalarWays

LEMMA ExtractedPair ==
  ASSUME NEW op, op # "ldexp", NEW d, ~IsWeak(d), NEW x
  PROVE  /\ Extracted(op, <<d, x>>) =
               <<d, IF IsWeak(x) THEN ScalarAgainst(op, d, x) ELSE x>>
         /\ Extracted(op, <<x, d>>) =
               <<IF IsWeak(x) THEN ScalarAgainst(op, d, x) ELSE x, d>>
BY DEF Extracted

LEMMA ExtractedAlone ==
  ASSUME NEW op, NEW d, ~IsWeak(d)
  PROVE  Extracted(op, <<d>>) = <<d>>
BY DEF Extracted

\* The operands an operator brings, with their mate a scalar or an array.
LEMMA OperandsAgree ==
  ASSUME NEW op \in BinaryOperators, NEW d \in Arrays, NEW x \in Passed,
         op = "greater" => ~IsWeak(x),
         NEW o, o = IF IsWeak(x) THEN OperatorScalar(op, d, x) ELSE x
  PROVE  /\ Outcome(op, <<d, x>>, <<d, o>>)
              = Outcome(op, <<d, x>>, Extracted(op, <<d, x>>))
         /\ Outcome(op, <<x, d>>, <<o, d>>)
              = Outcome(op, <<x, d>>, Extracted(op, <<x, d>>))
<1>1. d \in Numeric /\ ~IsWeak(d)
  BY UfuncsAssumption, ArraysAreStrong
<1>2. op # "ldexp"
  BY DEF BinaryOperators
<1>3. CASE ~IsWeak(x)
  <2>1. Extracted(op, <<d, x>>) = <<d, o>> /\ Extracted(op, <<x, d>>) = <<o, d>>
    BY <1>1, <1>2, <1>3, ExtractedPair
  <2> QED
    BY <2>1
<1>4. CASE IsWeak(x)
  <2>1. x \in Scalars
    BY <1>4, UfuncsAssumption, ArraysAreStrong DEF Passed
  <2>2. x.scalar \in ScalarKinds /\ op \in BinaryOperators \ {"greater"}
    BY <1>4, <2>1, UfuncsAssumption
  <2>3. PICK s : s = ScalarAgainst(op, d, x)
    OBVIOUS
  <2>4. Extracted(op, <<d, x>>) = <<d, s>> /\ Extracted(op, <<x, d>>) = <<s, d>>
    BY <1>1, <1>2, <1>4, <2>3, ExtractedPair
  <2>5. o = OperatorScalar(op, d, x)
    BY <1>4
  <2> QED
    BY <1>1, <2>2, <2>3, <2>4, <2>5, OneOutcome
<1> QED
  BY <1>3, <1>4

\* A call of an operator, and the one it stands for.
Coerced(c) ==
    c.stage = "coerced"
      /\ ~(c.op = "greater" /\ \E i \in DOMAIN c.args : IsWeak(c.args[i]))
    => Outcome(c.op, c.args, c.from) = Outcome(c.op, c.args, Extracted(c.op, c.args))

LEMMA CoercedBinary ==
  ASSUME NEW op \in BinaryOperators, NEW d \in Arrays, NEW x \in Passed,
         NEW o, o = IF IsWeak(x) THEN OperatorScalar(op, d, x) ELSE x,
         NEW into
  PROVE  /\ Coerced([stage |-> "coerced", op |-> op, args |-> <<d, x>>,
                     from |-> <<d, o>>, into |-> into])
         /\ Coerced([stage |-> "coerced", op |-> op, args |-> <<x, d>>,
                     from |-> <<o, d>>, into |-> into])
<1>1. CASE op = "greater" /\ IsWeak(x)
  BY <1>1 DEF Coerced
<1>2. CASE op = "greater" => ~IsWeak(x)
  BY <1>2, OperandsAgree DEF Coerced
<1> QED
  BY <1>1, <1>2

LEMMA StartCoerced == ASSUME Start PROVE Coerced(call)'
<1>0. ASSUME Raise PROVE Coerced(call)'
  BY <1>0 DEF Raise, Idle, Coerced
<1>1. ASSUME NEW op, NEW args, CallUfunc(op, args) PROVE Coerced(call)'
  BY <1>0, <1>1 DEF CallUfunc, Coerced
<1>2. ASSUME NEW op \in BinaryOperators, NEW d \in Arrays, NEW x \in Passed,
             NEW reflected \in BOOLEAN, Operate(op, d, x, reflected)
      PROVE  Coerced(call)'
  <2>1. PICK o : o = IF IsWeak(x) THEN OperatorScalar(op, d, x) ELSE x
    OBVIOUS
  <2>2. CASE reflected
    <3>1. call' = [stage |-> "coerced", op |-> op, args |-> <<x, d>>,
                   from |-> <<o, d>>, into |-> None]
      BY <1>2, <2>1, <2>2 DEF Operate
    <3> QED
      BY <2>1, <3>1, CoercedBinary
  <2>3. CASE ~reflected
    <3>1. call' = [stage |-> "coerced", op |-> op, args |-> <<d, x>>,
                   from |-> <<d, o>>, into |-> None]
      BY <1>2, <2>1, <2>3 DEF Operate
    <3> QED
      BY <2>1, <3>1, CoercedBinary
  <2> QED
    BY <2>2, <2>3
<1>3. ASSUME NEW op \in BinaryOperators, NEW d \in Arrays, NEW x \in Passed,
             OperateInPlace(op, d, x)
      PROVE  Coerced(call)'
  <2>1. PICK o : o = IF IsWeak(x) THEN OperatorScalar(op, d, x) ELSE x
    OBVIOUS
  <2>2. call' = [stage |-> "coerced", op |-> op, args |-> <<d, x>>,
                 from |-> <<d, o>>, into |-> d]
    BY <1>3, <2>1 DEF OperateInPlace
  <2> QED
    BY <2>1, <2>2, CoercedBinary
<1>4. ASSUME NEW op, NEW d \in Arrays, OperateAlone(op, d) PROVE Coerced(call)'
  <2>1. call' = [stage |-> "coerced", op |-> op, args |-> <<d>>, from |-> <<d>>,
                 into |-> None]
    BY <1>4 DEF OperateAlone
  <2>2. Extracted(op, <<d>>) = <<d>>
    BY UfuncsAssumption, ArraysAreStrong, ExtractedAlone
  <2> QED
    BY <2>1, <2>2 DEF Coerced
<1>5. ASSUME NEW op, NEW d, NEW asked, FoldIn(op, d, asked) PROVE Coerced(call)'
  <2>1. CASE Raise  BY <1>0, <2>1
  <2>2. ASSUME NEW c, call' = c, c.stage # "coerced" PROVE Coerced(call)'
    BY <2>2 DEF Coerced
  <2> QED
    BY <1>5, <2>1, <2>2 DEF FoldIn
<1> QED
  BY <1>1, <1>2, <1>3, <1>4, <1>5 DEF Start, Reduce, Accumulate

\* Only Start brings an operator on its way.
LEMMA GoCoerced == ASSUME Go PROVE Coerced(call)'
<1>0. ASSUME Raise PROVE call'.stage # "coerced"
  BY <1>0 DEF Raise, Idle
<1>1. call'.stage # "coerced"
  <2>1. ASSUME NEW rule, CheckCasting(rule) PROVE call'.stage # "coerced"
    BY <1>0, <2>1 DEF CheckCasting, Typed
  <2>2. ASSUME NEW rule, NEW asked, ResolveDtype(rule, asked)
        PROVE  call'.stage # "coerced"
    BY <1>0, <2>2 DEF ResolveDtype, Typed
  <2>3. CASE Apply
    BY <1>0, <2>3 DEF Apply, Typed
  <2>4. CASE Compute
    <3>1. \A out : call' = [stage |-> "computed", rule |-> call.rule,
                            into |-> call.into, out |-> out]
                     => call'.stage # "coerced"
      OBVIOUS
    <3> QED
      BY <1>0, <2>4, <3>1 DEF Compute
  <2>5. ASSUME NEW to, WriteOut(to) PROVE call'.stage # "coerced"
    BY <1>0, <2>5 DEF WriteOut, Store
  <2>6. CASE WriteInPlace
    BY <2>6 DEF WriteInPlace
  <2>7. CASE Return
    BY <1>0, <2>7 DEF Return
  <2> QED
    BY <2>1, <2>2, <2>3, <2>4, <2>5, <2>6, <2>7 DEF Go
<1> QED
  BY <1>1 DEF Coerced

\* An operator and its ufunc give one dtype or both raise, for any arrays and
\* any Python scalars: the operators of pyarray (lib.rs), which extract a scalar
\* by code of their own, and extract_binary_pair never part.
THEOREM SessionOperatorsAgree == SessionSpec => []OperatorsAgree
<1>1. SessionInit => Coerced(call)
  BY DEF SessionInit, Idle, Coerced
<1>2. Coerced(call) /\ [SessionNext]_vars => Coerced(call)'
  <2> SUFFICES ASSUME Coerced(call), [SessionNext]_vars PROVE Coerced(call)'
    OBVIOUS
  <2>1. CASE Start  BY <2>1, StartCoerced
  <2>2. CASE Go  BY <2>2, GoCoerced
  <2>3. CASE UNCHANGED call
    BY <2>3 DEF Coerced
  <2> QED  BY <2>1, <2>2, <2>3 DEF SessionNext, vars
<1>3. Coerced(call) => OperatorsAgree
  BY DEF Coerced, OperatorsAgree, Outcome
<1> QED
  BY <1>1, <1>2, <1>3, PTL DEF SessionSpec

----------------------------------------------------------------------------
(* result_type of two arguments, and what the ufuncs take them to.            *)

\* What the first two arguments have come to.
BaseOfTwo ==
    /\ taken = 0 => base = Bool
    /\ taken = 1 => base = IF strong # <<>> THEN strong[1] ELSE WeakTarget(Bool, weak[1])
    /\ taken = 2 /\ Len(strong) >= 2 => base = Promote(strong[1], strong[2])
    /\ taken = 2 /\ Len(strong) = 1 => base = WeakTarget(strong[1], weak[1])
    /\ taken = 2 /\ Len(strong) = 0 => base = WeakTarget(WeakTarget(Bool, weak[1]), weak[2])

LEMMA BaseOfTwoHolds == ResultSpec => [](IInv /\ BaseOfTwo)
<1>1. ResultInit => BaseOfTwo
  BY DEF ResultInit, BaseOfTwo
<1>2. IInv /\ BaseOfTwo /\ [ResultNext]_result_vars => BaseOfTwo'
  <2> SUFFICES ASSUME IInv, BaseOfTwo, [ResultNext]_result_vars PROVE BaseOfTwo'
    OBVIOUS
  <2>0. /\ taken \in Nat /\ Len(strong) \in Nat /\ Len(weak) \in Nat
        /\ strong \in Seq(AnyDtype)
    BY DEF IInv, ResultTypeInv
  <2>1. ASSUME NEW d, PassDtype(d) PROVE BaseOfTwo'
    BY <2>1 DEF PassDtype, Room, BaseOfTwo
  <2>2. ASSUME NEW kind, PassScalar(kind) PROVE BaseOfTwo'
    BY <2>2 DEF PassScalar, Room, BaseOfTwo
  <2>3. CASE TakeFirst
    BY <2>0, <2>3 DEF TakeFirst, BaseOfTwo
  <2>4. CASE TakeDtype
    BY <2>0, <2>4 DEF TakeDtype, BaseOfTwo
  <2>5. CASE TakeScalar
    BY <2>0, <2>5 DEF TakeScalar, BaseOfTwo
  <2>6. CASE Answer
    BY <2>6 DEF Answer, BaseOfTwo
  <2>7. CASE UNCHANGED result_vars
    BY <2>7 DEF result_vars, BaseOfTwo
  <2> QED
    BY <2>1, <2>2, <2>3, <2>4, <2>5, <2>6, <2>7 DEF ResultNext, PassNone
<1> QED
  BY <1>1, <1>2, ResultInit_IInv, ResultNext_IInv, PTL DEF ResultSpec

\* The dtype tables of two operands, apart from ldexp's.
LEMMA PairDtype ==
  ASSUME NEW op \in BinaryOps \ {"ldexp"}, NEW ins
  PROVE  OutDtype(op, ins) =
           IF op \in PlainBinary THEN BinaryOut(op, ins[1], ins[2])
           ELSE IF op \in MathBinary THEN MathBinaryOut(op, ins[1], ins[2])
           ELSE FloatPowerOut(ins[1], ins[2])
<1>1. /\ op \notin PlainUnary /\ op \notin MathUnary /\ op \notin PureUnary
      /\ op # "ldexp"
  BY DEF BinaryOps, PlainBinary, MathBinary, PlainUnary, MathUnary, PureUnary
<1>2. CASE op \in PlainBinary
  <2>1. op \notin MathBinary /\ op # "float_power"
    BY <1>2 DEF PlainBinary, MathBinary
  <2> QED
    BY <1>1, <1>2, <2>1 DEF OutDtype
<1>3. CASE op \in MathBinary
  <2>1. op \notin PlainBinary /\ op # "float_power"
    BY <1>3 DEF PlainBinary, MathBinary
  <2> QED
    BY <1>1, <1>3, <2>1 DEF OutDtype
<1>4. CASE op = "float_power"
  <2>1. op \notin PlainBinary /\ op \notin MathBinary
    BY <1>4 DEF PlainBinary, MathBinary
  <2> QED
    BY <1>1, <1>4, <2>1 DEF OutDtype
<1> QED
  BY <1>2, <1>3, <1>4 DEF BinaryOps

LEMMA PromoteNumerics ==
  ASSUME NEW a \in Numeric, NEW b \in Numeric
  PROVE  /\ Promote(a, b) \in Numeric
         /\ Promote(a, b) = Promote(b, a)
         /\ Promote(a, a) = a
         /\ IsComplex(Promote(a, b)) <=> IsComplex(a) \/ IsComplex(b)
<1>1. /\ Promote(a, b) = IF a = b THEN a ELSE PromoteNumeric(a, b)
      /\ Promote(b, a) = IF a = b THEN a ELSE PromoteNumeric(b, a)
      /\ Promote(a, a) = a
  BY NumericShape DEF Promote
<1>2. PromoteNumeric(a, b) = PromoteNumeric(b, a)
  <2>0. /\ a = DT(a.kind, a.bits) /\ b = DT(b.kind, b.bits)
        /\ a.bits \in Nat /\ b.bits \in Nat
        /\ a.kind \in {"Bool", "Int", "UInt", "Float", "Complex"}
        /\ b.kind \in {"Bool", "Int", "UInt", "Float", "Complex"}
        /\ a.kind = "Bool" => a.bits = 8
        /\ b.kind = "Bool" => b.bits = 8
    BY NumericShape
  <2>1. CASE a.kind = "Bool" \/ b.kind = "Bool"
    BY <2>0, <2>1 DEF PromoteNumeric
  <2>2. CASE a.kind # "Bool" /\ a.kind = b.kind
    BY <2>0, <2>2 DEF PromoteNumeric, Larger
  <2>3. CASE {a.kind, b.kind} = {"Int", "UInt"}
    BY <2>0, <2>3 DEF PromoteNumeric, IntUint
  <2>4. CASE /\ a.kind # "Bool" /\ b.kind # "Bool" /\ a.kind # b.kind
             /\ {a.kind, b.kind} # {"Int", "UInt"}
    <3>1. RealBits(a) \in Nat /\ RealBits(b) \in Nat
      BY <2>0, <2>4 DEF RealBits, IsInteger, IntEquivFloatBits
    <3>2. Larger(RealBits(a), RealBits(b)) = Larger(RealBits(b), RealBits(a))
      BY <3>1 DEF Larger
    <3> QED
      BY <2>0, <2>4, <3>2 DEF PromoteNumeric
  <2> QED
    BY <2>1, <2>2, <2>3, <2>4
<1>3. IsComplex(PromoteNumeric(a, b)) <=> IsComplex(a) \/ IsComplex(b)
  BY NumericShape, SMTT(60)
  DEF PromoteNumeric, IsInteger, IsComplex, RealBits, IntUint, Larger, DT, F64
<1> QED
  BY <1>1, <1>2, <1>3, PromoteNumericHolds

\* But for hypot, a ufunc goes by the promotion of its operands.
LEMMA GoesByPromotion ==
  ASSUME NEW op \in BinaryOps \ {"ldexp", "hypot"}, NEW a \in Numeric, NEW b \in Numeric
  PROVE  OutDtype(op, <<a, b>>) = OutDtype(op, <<Promote(a, b), Promote(a, b)>>)
<1>1. PICK d : d = Promote(a, b)
  OBVIOUS
<1>2. d \in Numeric /\ Promote(d, d) = d
  BY <1>1, PromoteNumerics
<1>3. BinaryOut(op, a, b) = BinaryOut(op, d, d)
  BY <1>1, <1>2 DEF BinaryOut
<1>4. op \in MathBinary => MathBinaryOut(op, a, b) = MathBinaryOut(op, d, d)
  <2>1. SUFFICES ASSUME op \in MathBinary
                 PROVE  MathBinaryOut(op, a, b) = MathBinaryOut(op, d, d)
    OBVIOUS
  <2>2. op # "hypot"
    OBVIOUS
  <2>3. op \in {"gcd", "fmax", "power", "fmod"}
    BY <2>1 DEF MathBinary
  <2> QED
    BY <1>1, <1>2, <2>2, <2>3 DEF MathBinaryOut
<1>5. FloatPowerOut(a, b) = FloatPowerOut(d, d)
  BY <1>1, PromoteNumerics DEF FloatPowerOut
<1>6. PICK ins, both : ins = <<a, b>> /\ both = <<d, d>>
  OBVIOUS
<1>7. ins[1] = a /\ ins[2] = b /\ both[1] = d /\ both[2] = d
  BY <1>6
<1>8. OutDtype(op, ins) = OutDtype(op, both)
  BY <1>3, <1>4, <1>5, <1>7, PairDtype
<1> QED
  BY <1>1, <1>6, <1>8

LEMMA HypotDtype ==
  ASSUME NEW a, NEW b
  PROVE  OutDtype("hypot", <<a, b>>) =
           IF IsComplex(Promote(a, b)) THEN None
           ELSE DT("Float", Larger(FloatTier(a).bits, FloatTier(b).bits))
<1>1. /\ "hypot" \in BinaryOps \ {"ldexp"} /\ "hypot" \notin PlainBinary
      /\ "hypot" \in MathBinary
  BY DEF BinaryOps, PlainBinary, MathBinary
<1>2. PICK ins : ins = <<a, b>>
  OBVIOUS
<1>3. OutDtype("hypot", ins) = MathBinaryOut("hypot", ins[1], ins[2])
  BY <1>1, PairDtype
<1>4. MathBinaryOut("hypot", a, b) =
        IF IsComplex(Promote(a, b)) THEN None
        ELSE DT("Float", Larger(FloatTier(a).bits, FloatTier(b).bits))
  BY DEF MathBinaryOut
<1> QED
  BY <1>2, <1>3, <1>4

\* Operands that go together as c alone goes.
GoTogether(op, a, b, c) == OutDtype(op, <<a, b>>) = OutDtype(op, <<c, c>>)

\* Two arrays.
LEMMA ArraysGo ==
  ASSUME NEW op \in BinaryOps \ {"ldexp", "hypot"}, NEW a \in Numeric, NEW b \in Numeric
  PROVE  /\ GoTogether(op, a, b, Promote(a, b))
         /\ GoTogether(op, b, a, Promote(a, b))
BY GoesByPromotion, PromoteNumerics DEF GoTogether

LEMMA TargetHolds ==
  ASSUME NEW d \in Numeric, NEW kind \in ScalarKinds
  PROVE  /\ WeakTarget(d, kind) \in Numeric
         /\ Promote(d, WeakTarget(d, kind)) = WeakTarget(d, kind)
         /\ WeakTargetSuSafe(d, kind) = WeakTarget(d, kind)
<1>1. WeakTargetSuSafe(d, kind) = WeakTarget(d, kind)
  BY NumericShape DEF WeakTargetSuSafe
<1>2. PICK c : c = WeakTarget(d, kind)
  OBVIOUS
<1>3. CASE c = d
  BY <1>1, <1>2, <1>3, PromoteNumerics
<1>4. CASE c # d
  <2>1. \/ c = C64 /\ d.kind = "Float" /\ d # F64
        \/ c = C128 /\ d = F64
        \/ c = StrongDefault(kind) /\ ScalarRank(kind) > KindRank(d)
             /\ ~(kind = "Complex" /\ d.kind = "Float")
    BY <1>2, <1>4, NumericShape
    DEF WeakTarget, ScalarRank, KindRank, ScalarKinds, IsInteger
  <2>2. c \in Numeric
    BY <2>1 DEF StrongDefault, ScalarKinds, Numeric, Bool, Ints, Floats, Complexes,
                I64, F64, C64, C128, DT
  <2>3. PromoteNumeric(d, c) = c
    BY <2>1, NumericShape, SMTT(60)
    DEF PromoteNumeric, StrongDefault, ScalarRank, KindRank, ScalarKinds, IsInteger,
        IsComplex, RealBits, IntUint, IntEquivFloatBits, Larger, Bool, I64, F64, C64,
        C128, DT
  <2>4. Promote(d, c) = c
    BY <1>4, <2>2, <2>3, NumericShape DEF Promote
  <2> QED
    BY <1>1, <1>2, <2>2, <2>4
<1> QED
  BY <1>3, <1>4

\* A Python scalar that fits any dtype.
Small(kind) == Scalar(kind, FALSE, 0)

LEMMA SmallShape ==
  ASSUME NEW kind
  PROVE  /\ IsWeak(Small(kind))
         /\ Small(kind).scalar = kind
         /\ Small(kind).bits = 0
         /\ ~Small(kind).neg
<1>1. PICK v : v = Small(kind)
  OBVIOUS
<1>2. v = [scalar |-> kind, neg |-> FALSE, bits |-> 0]
  BY <1>1 DEF Small, Scalar
<1>3. IsWeak(v) /\ v.scalar = kind /\ v.bits = 0
  BY <1>2 DEF IsWeak
<1>4. v.neg = FALSE
  BY <1>2
<1> QED
  BY <1>1, <1>3, <1>4, Zenon

\* An array and a Python scalar, on either side.
LEMMA ScalarGoes ==
  ASSUME NEW op \in BinaryOps \ {"ldexp"}, NEW d \in Numeric, NEW kind \in ScalarKinds,
         NEW v, v = Small(kind),
         NEW s, s = ScalarAgainst(op, d, v)
  PROVE  /\ GoTogether(op, d, s, WeakTarget(d, kind))
         /\ GoTogether(op, s, d, WeakTarget(d, kind))
<1>1. PICK c : c = WeakTarget(d, kind)
  OBVIOUS
<1>2. /\ c \in Numeric /\ Promote(d, c) = c /\ Promote(c, d) = c
      /\ WeakTargetSuSafe(d, kind) = c
  BY <1>1, TargetHolds, PromoteNumerics
<1>3. v.scalar = kind /\ v.bits = 0
  BY SmallShape
<1>n. ~v.neg
  BY SmallShape, Zenon
<1> DEFINE counts == c = Bool \/ IsInteger(c)
<1>4. /\ c.bits \in Nat /\ c.bits > 0
      /\ c.kind \in {"Bool", "Int", "UInt", "Float", "Complex"}
      /\ counts <=> c.kind \in {"Bool", "Int", "UInt"}
  <2>1. /\ c.bits \in Nat /\ c.bits > 0
        /\ c.kind \in {"Bool", "Int", "UInt", "Float", "Complex"}
        /\ c = DT(c.kind, c.bits)
        /\ c.kind = "Bool" => c.bits = 8
    BY <1>2, NumericShape
  <2>2. c = Bool <=> c.kind = "Bool"
    BY <2>1 DEF Bool, DT
  <2> QED
    BY <2>1, <2>2 DEF IsInteger
<1>5. IsInteger(c) => IntBounds(v, c)
  <2>1. v.bits <= c.bits - 1 /\ v.bits <= c.bits
    BY <1>3, <1>4
  <2> QED
    BY <1>n, <2>1, Zenon DEF IntBounds
<1>d. /\ d.bits \in Nat
      /\ d.kind \in {"Bool", "Int", "UInt", "Float", "Complex"}
      /\ (d = Bool \/ IsInteger(d)) <=> d.kind \in {"Bool", "Int", "UInt"}
  <2>1. /\ d.bits \in Nat
        /\ d.kind \in {"Bool", "Int", "UInt", "Float", "Complex"}
        /\ d = DT(d.kind, d.bits)
        /\ d.kind = "Bool" => d.bits = 8
    BY NumericShape
  <2>2. d = Bool <=> d.kind = "Bool"
    BY <2>1 DEF Bool, DT
  <2> QED
    BY <2>1, <2>2 DEF IsInteger
<1>e. c = d \/ ScalarRank(kind) > KindRank(d)
  <2>1. ScalarRank(kind) \in Nat /\ KindRank(d) \in Nat
    BY DEF ScalarRank, KindRank, ScalarKinds
  <2> QED
    BY <1>1, <2>1 DEF WeakTarget
<1>f. /\ ScalarRank("Bool") = 0 /\ ScalarRank("Int") = 1
      /\ ScalarRank("Float") = 2 /\ ScalarRank("Complex") = 3
  BY DEF ScalarRank
<1>g. /\ KindRank(d) \in 0..3
      /\ KindRank(d) = 2 <=> d.kind = "Float"
      /\ KindRank(d) = 3 <=> d.kind = "Complex"
      /\ KindRank(d) = 0 <=> d.kind = "Bool"
  BY <1>d DEF KindRank, IsInteger
<1>h. c = d \/ c \in {C64, C128} \/ c = StrongDefault(kind)
  BY <1>1 DEF WeakTarget
<1>6. s = IF op \in ForcesFloat /\ counts THEN F64
          ELSE IF op \in Tiered /\ counts THEN FloatTier(c)
          ELSE c
  BY <1>2, <1>3, <1>5 DEF ScalarAgainst, ForcesFloat, Tiered, Relaxed
<1>7. CASE s = c /\ op # "hypot"
  BY <1>1, <1>2, <1>7, ArraysGo
<1>8. CASE op \in ForcesFloat /\ counts
  <2>1. s = F64 /\ F64 \in Numeric /\ ~IsComplex(F64)
    BY <1>6, <1>8 DEF Numeric, Floats, F64, DT, IsComplex
  <2>2. d = Bool \/ IsInteger(d)
    <3>1. c.kind \in {"Bool", "Int", "UInt"}
      BY <1>4, <1>8
    <3>2. CASE c = d
      BY <1>d, <3>1, <3>2
    <3>3. CASE ScalarRank(kind) > KindRank(d) /\ c = StrongDefault(kind)
      <4>1. kind \in {"Bool", "Int"}
        BY <3>1, <3>3 DEF StrongDefault, ScalarKinds, F64, C128, DT
      <4>2. KindRank(d) = 0
        BY <1>f, <1>g, <3>3, <4>1
      <4> QED
        BY <1>d, <1>g, <4>2
    <3>4. c \notin {C64, C128}
      BY <3>1 DEF C64, C128, DT
    <3> QED
      BY <1>e, <1>h, <3>2, <3>3, <3>4
  <2>3. CASE op = "divide"
    BY <1>1, <1>2, <1>4, <1>8, <2>1, <2>2, <2>3, BoolDivides DEF GoTogether
  <2>4. CASE op = "float_power"
    <3>1. \A a, b : OutDtype("float_power", <<a, b>>) = FloatPowerOut(a, b)
      <4>1. TAKE a, b
      <4>2. /\ "float_power" \in BinaryOps \ {"ldexp"}
            /\ "float_power" \notin PlainBinary /\ "float_power" \notin MathBinary
        BY DEF BinaryOps, PlainBinary, MathBinary
      <4>3. PICK ins : ins = <<a, b>>
        OBVIOUS
      <4>4. OutDtype("float_power", ins) = FloatPowerOut(ins[1], ins[2])
        BY <4>2, PairDtype
      <4> QED
        BY <4>3, <4>4
    <3>2. ~IsComplex(d) /\ ~IsComplex(c)
      BY <1>4, <1>8, <1>d, <2>2 DEF IsComplex
    <3> QED
      BY <1>1, <2>1, <2>4, <3>1, <3>2 DEF GoTogether, FloatPowerOut
  <2> QED
    BY <1>8, <2>3, <2>4 DEF ForcesFloat
<1>9. CASE op = "hypot"
  <2>1. s = IF counts THEN FloatTier(c) ELSE c
    BY <1>6, <1>9 DEF ForcesFloat, Tiered
  <2>2. s \in Numeric /\ (IsComplex(s) <=> IsComplex(c)) /\ FloatTier(s) = FloatTier(c)
    <3>1. CASE ~counts
      BY <1>2, <2>1, <3>1
    <3>2. CASE counts
      <4>1. PICK w \in {16, 32, 64} : FloatTier(c) = DT("Float", w)
        BY <1>4, <3>2 DEF FloatTier, IntEquivFloatBits, IsInteger, F16
      <4>2. s = DT("Float", w)
        BY <2>1, <3>2, <4>1
      <4>a. DT("Float", w) \in Numeric
        BY NumericFromShape
      <4>b. s.kind = "Float"
        BY <4>2 DEF DT
      <4>3. s \in Numeric /\ s.kind = "Float"
        <5>1. s \in Numeric
          BY <4>2, <4>a
        <5> QED  BY <4>b, <5>1
      <4>4. FloatTier(s) = s
        BY <4>3 DEF FloatTier, IsInteger
      <4> QED
        BY <1>4, <3>2, <4>1, <4>2, <4>3, <4>4 DEF IsComplex
    <3> QED
      BY <3>1, <3>2
  <2>3. IsComplex(c) <=> IsComplex(d) \/ IsComplex(c)
    BY <1>2, PromoteNumerics
  <2>4. /\ IsComplex(Promote(d, s)) <=> IsComplex(c)
        /\ IsComplex(Promote(s, d)) <=> IsComplex(c)
        /\ IsComplex(Promote(c, c)) <=> IsComplex(c)
    <3>1. IsComplex(Promote(d, s)) <=> IsComplex(d) \/ IsComplex(s)
      BY <2>2, PromoteNumerics
    <3>2. Promote(s, d) = Promote(d, s)
      BY <2>2, PromoteNumerics
    <3>3. Promote(c, c) = c
      BY <1>2, PromoteNumerics
    <3> QED
      BY <2>2, <2>3, <3>1, <3>2, <3>3
  <2>5. ~IsComplex(c) =>
          /\ FloatTier(d).bits \in Nat /\ FloatTier(c).bits \in Nat
          /\ FloatTier(d).bits <= FloatTier(c).bits
    <3>1. SUFFICES ASSUME ~IsComplex(c)
                   PROVE  /\ FloatTier(d).bits \in Nat /\ FloatTier(c).bits \in Nat
                          /\ FloatTier(d).bits <= FloatTier(c).bits
      OBVIOUS
    <3>2. ~IsComplex(d)
      BY <2>3, <3>1
    <3>3. ASSUME NEW x, x.bits \in Nat,
                 x.kind \in {"Bool", "Int", "UInt", "Float", "Complex"}
          PROVE  /\ FloatTier(x).bits \in Nat
                 /\ x.kind = "Bool" => FloatTier(x).bits = 16
                 /\ x.kind \in {"Int", "UInt"} => FloatTier(x).bits <= 64
                                             /\ FloatTier(x).bits >= 16
      BY <3>3 DEF FloatTier, IntEquivFloatBits, IsInteger, F16, DT
    <3>4. CASE c = d
      BY <1>d, <3>3, <3>4
    <3>5. CASE c = StrongDefault(kind) /\ ScalarRank(kind) > KindRank(d)
      <4>1. kind \in {"Int", "Float"}
        BY <1>f, <1>g, <3>1, <3>5
        DEF StrongDefault, ScalarKinds, IsComplex, C128, DT
      <4>2. FloatTier(c).bits = 64
        BY <3>5, <4>1
        DEF StrongDefault, FloatTier, IntEquivFloatBits, IsInteger, I64, F64, DT
      <4>3. d.kind \in {"Bool", "Int", "UInt"}
        BY <1>d, <1>f, <1>g, <3>5, <4>1
      <4> QED
        BY <1>d, <3>3, <4>2, <4>3
    <3>6. c \notin {C64, C128}
      BY <3>1 DEF C64, C128, DT, IsComplex
    <3> QED
      BY <1>e, <1>h, <3>4, <3>5, <3>6
  <2>6. ~IsComplex(c) =>
          /\ Larger(FloatTier(d).bits, FloatTier(s).bits) = FloatTier(c).bits
          /\ Larger(FloatTier(s).bits, FloatTier(d).bits) = FloatTier(c).bits
          /\ Larger(FloatTier(c).bits, FloatTier(c).bits) = FloatTier(c).bits
    <3>1. ASSUME NEW x \in Nat, NEW y \in Nat, x <= y
          PROVE  Larger(x, y) = y /\ Larger(y, x) = y /\ Larger(y, y) = y
      BY <3>1 DEF Larger
    <3> QED
      BY <2>2, <2>5, <3>1
  <2>7. /\ OutDtype(op, <<d, s>>) = OutDtype(op, <<c, c>>)
        /\ OutDtype(op, <<s, d>>) = OutDtype(op, <<c, c>>)
    BY <1>9, <2>4, <2>6, HypotDtype
  <2> QED
    BY <1>1, <2>7 DEF GoTogether
<1> QED
  BY <1>6, <1>7, <1>8, <1>9 DEF Tiered

LEMMA DefaultsAreNumeric ==
  ASSUME NEW kind \in ScalarKinds
  PROVE  StrongDefault(kind) \in Numeric
<1>1. Bool \in Numeric /\ I64 \in Numeric /\ F64 \in Numeric /\ C128 \in Numeric
  BY DEF Numeric, Ints, Floats, Complexes, I64, F64, DT
<1> QED
  BY <1>1 DEF StrongDefault, ScalarKinds

\* The kinds of scalars, in order, and what they promote to.
Higher(j, k) == IF ScalarRank(j) <= ScalarRank(k) THEN k ELSE j

LEMMA DefaultsPromote ==
  ASSUME NEW j \in ScalarKinds, NEW k \in ScalarKinds
  PROVE  /\ Promote(StrongDefault(j), StrongDefault(k)) = StrongDefault(Higher(j, k))
         /\ WeakTarget(WeakTarget(Bool, j), k) = StrongDefault(Higher(j, k))
         /\ Higher(j, k) \in {j, k}
<1>1. WeakTarget(Bool, j) = StrongDefault(j)
  BY DEF WeakTarget, StrongDefault, ScalarKinds, ScalarRank, KindRank, IsInteger,
         Bool, DT
<1>2. WeakTarget(StrongDefault(j), k) = StrongDefault(Higher(j, k))
  BY SMTT(60) DEF WeakTarget, StrongDefault, ScalarKinds, ScalarRank, KindRank, Higher,
         IsInteger, Bool, I64, F64, C64, C128, DT
<1>3. Promote(StrongDefault(j), StrongDefault(k)) = StrongDefault(Higher(j, k))
  BY SMTT(60) DEF Promote, PromoteNumeric, IsString, StrongDefault, ScalarKinds,
         ScalarRank, Higher, IsInteger, IsComplex, RealBits, IntEquivFloatBits, Larger,
         Bool, I64, F64, C128, DT
<1> QED
  BY <1>1, <1>2, <1>3 DEF Higher

\* Two Python scalars.
LEMMA ScalarsGo ==
  ASSUME NEW op \in BinaryOps \ {"ldexp"}, NEW j \in ScalarKinds, NEW k \in ScalarKinds
  PROVE  GoTogether(op, StrongDefault(j), StrongDefault(k),
                    WeakTarget(WeakTarget(Bool, j), k))
<1>1. PICK a, b, c : /\ a = StrongDefault(j) /\ b = StrongDefault(k)
                     /\ c = StrongDefault(Higher(j, k))
  OBVIOUS
<1>2. /\ a \in Numeric /\ b \in Numeric /\ Promote(a, b) = c
      /\ WeakTarget(WeakTarget(Bool, j), k) = c
      /\ c \in {a, b}
  BY <1>1, DefaultsAreNumeric, DefaultsPromote
<1>3. CASE op # "hypot"
  <2>1. GoTogether(op, a, b, Promote(a, b))
    BY <1>2, <1>3, ArraysGo
  <2> QED
    BY <1>1, <1>2, <2>1, Zenon
<1>4. CASE op = "hypot"
  <2>1. /\ IsComplex(Promote(a, b)) <=> IsComplex(c)
        /\ IsComplex(Promote(c, c)) <=> IsComplex(c)
    BY <1>2, PromoteNumerics
  <2>2. ~IsComplex(c) => Larger(FloatTier(a).bits, FloatTier(b).bits)
                           = Larger(FloatTier(c).bits, FloatTier(c).bits)
    BY <1>1, SMTT(60)
    DEF StrongDefault, Higher, ScalarRank, ScalarKinds, FloatTier, IntEquivFloatBits,
        IsInteger, IsComplex, Larger, Bool, I64, F64, F16, C128, DT
  <2>3. OutDtype(op, <<a, b>>) = OutDtype(op, <<c, c>>)
    BY <1>4, <2>1, <2>2, HypotDtype
  <2>4. GoTogether(op, a, b, c)
    BY <2>3 DEF GoTogether
  <2> QED
    BY <1>1, <1>2, <2>4, Zenon
<1> QED
  BY <1>3, <1>4

LEMMA ExtractedArrays ==
  ASSUME NEW op, NEW a, NEW b, ~IsWeak(a), ~IsWeak(b)
  PROVE  Extracted(op, <<a, b>>) = <<a, b>>
BY DEF Extracted

LEMMA ExtractedScalars ==
  ASSUME NEW op \in BinaryOps \ {"ldexp"}, NEW v, NEW w, IsWeak(v), IsWeak(w)
  PROVE  Extracted(op, <<v, w>>) = <<StrongDefault(v.scalar), StrongDefault(w.scalar)>>
BY DEF Extracted

\* The arguments as they were passed.
Both(dtypes, kinds) == dtypes \o [i \in DOMAIN kinds |-> Small(kinds[i])]

LEMMA TwoOf ==
  ASSUME NEW T, NEW all \in Seq(T), Len(all) = 2
  PROVE  all = <<all[1], all[2]>>
<1>1. PICK a, b : a = all[1] /\ b = all[2]
  OBVIOUS
<1>2. PICK pair : pair = <<a, b>>
  OBVIOUS
<1>3. /\ DOMAIN all = {1, 2} /\ DOMAIN pair = {1, 2}
      /\ pair[1] = a /\ pair[2] = b
      /\ all = [i \in DOMAIN all |-> all[i]] /\ pair = [i \in DOMAIN pair |-> pair[i]]
  BY <1>2
<1>4. all = pair
  BY <1>1, <1>3
<1> QED
  BY <1>1, <1>2, <1>4

LEMMA BothAre ==
  ASSUME NEW dtypes \in Seq(AnyDtype), NEW kinds \in Seq(ScalarKinds)
  PROVE  /\ Len(Both(dtypes, kinds)) = Len(dtypes) + Len(kinds)
         /\ Len(dtypes) = 2 /\ Len(kinds) = 0 =>
              Both(dtypes, kinds) = <<dtypes[1], dtypes[2]>>
         /\ Len(dtypes) = 1 /\ Len(kinds) = 1 =>
              Both(dtypes, kinds) = <<dtypes[1], Small(kinds[1])>>
         /\ Len(dtypes) = 0 /\ Len(kinds) = 2 =>
              Both(dtypes, kinds) = <<Small(kinds[1]), Small(kinds[2])>>
<1>1. PICK more : more = [i \in DOMAIN kinds |-> Small(kinds[i])]
  OBVIOUS
<1>2. /\ more \in Seq({Small(k) : k \in ScalarKinds}) /\ Len(more) = Len(kinds)
      /\ \A i \in 1..Len(kinds) : more[i] = Small(kinds[i])
  BY <1>1
<1>3. Both(dtypes, kinds) = dtypes \o more
  BY <1>1 DEF Both
<1>4. PICK T : T = AnyDtype \union {Small(k) : k \in ScalarKinds}
  OBVIOUS
<1>5. dtypes \in Seq(T) /\ more \in Seq(T)
  BY <1>2, <1>4
<1>6. PICK all : all = dtypes \o more
  OBVIOUS
<1>7. /\ all \in Seq(T)
      /\ Len(all) = Len(dtypes) + Len(more)
      /\ Len(dtypes) \in Nat /\ Len(more) \in Nat
      /\ \A i \in 1..Len(dtypes) : all[i] = dtypes[i]
      /\ \A i \in 1..Len(more) : all[Len(dtypes) + i] = more[i]
  BY <1>5, <1>6
<1>8. Len(all) = 2 => all = <<all[1], all[2]>>
  BY <1>7, TwoOf
<1>9. Len(dtypes) = 2 /\ Len(more) = 0 => all = <<dtypes[1], dtypes[2]>>
  BY <1>7, <1>8
<1>10. Len(dtypes) = 1 /\ Len(more) = 1 => all = <<dtypes[1], Small(kinds[1])>>
  <2>1. SUFFICES ASSUME Len(dtypes) = 1, Len(more) = 1
                 PROVE  all = <<dtypes[1], Small(kinds[1])>>
    OBVIOUS
  <2>2. 1 \in 1..Len(dtypes) /\ 1 \in 1..Len(more) /\ Len(all) = 2
        /\ Len(dtypes) + 1 = 2
    BY <1>7, <2>1
  <2>3. all[1] = dtypes[1] /\ all[2] = more[1] /\ more[1] = Small(kinds[1])
    BY <1>2, <1>7, <2>2
  <2> QED
    BY <1>8, <2>2, <2>3
<1>11. Len(dtypes) = 0 /\ Len(more) = 2 =>
         all = <<Small(kinds[1]), Small(kinds[2])>>
  <2>1. SUFFICES ASSUME Len(dtypes) = 0, Len(more) = 2
                 PROVE  all = <<Small(kinds[1]), Small(kinds[2])>>
    OBVIOUS
  <2>2. 1 \in 1..Len(more) /\ 2 \in 1..Len(more) /\ Len(all) = 2
        /\ Len(dtypes) + 1 = 1 /\ Len(dtypes) + 2 = 2
    BY <1>7, <2>1
  <2>3. /\ all[1] = more[1] /\ all[2] = more[2]
        /\ more[1] = Small(kinds[1]) /\ more[2] = Small(kinds[2])
    BY <1>2, <1>7, <2>2
  <2> QED
    BY <1>8, <2>2, <2>3
<1>12. Both(dtypes, kinds) = all /\ Len(all) = Len(dtypes) + Len(kinds)
  BY <1>2, <1>3, <1>6, <1>7
<1> QED
  BY <1>2, <1>9, <1>10, <1>11, <1>12

\* Every way two arguments are extracted goes as the base alone goes.
LEMMA TwoAgree ==
  ASSUME IInv, BaseOfTwo, Settled, Len(strong) + Len(weak) = 2,
         \A i \in DOMAIN strong : ~IsString(strong[i]),
         NEW op \in BinaryOps \ {"ldexp"}, op \in Tiered => Len(strong) < 2,
         NEW args, args = Both(strong, weak),
         NEW way \in {args, <<args[2], args[1]>>}
  PROVE  OutDtype(op, Extracted(op, way)) = OutDtype(op, <<base, base>>)
<1>1. /\ strong \in Seq(AnyDtype) /\ weak \in Seq(ScalarKinds) /\ taken = 2
      /\ Len(strong) \in Nat /\ Len(weak) \in Nat
  BY DEF IInv, ResultTypeInv, Settled
<1>2. ASSUME NEW i \in DOMAIN strong PROVE strong[i] \in Numeric /\ ~IsWeak(strong[i])
  <2>1. strong[i] \in AnyDtype /\ ~IsString(strong[i])
    BY <1>1
  <2> QED
    BY <2>1, AnyShape, ArraysAreStrong DEF IsString
<1>3. CASE Len(strong) = 2
  <2>1. PICK a, b : a = strong[1] /\ b = strong[2]
    OBVIOUS
  <2>2. Len(weak) = 0
    BY <1>1, <1>3
  <2>3. args = <<a, b>> /\ (way = <<a, b>> \/ way = <<b, a>>)
    <3>1. args = <<a, b>>
      BY <1>1, <1>3, <2>1, <2>2, BothAre
    <3>2. way \in {<<a, b>>, <<b, a>>}
      BY <3>1
    <3> QED
      BY <3>1, <3>2
  <2>4. a \in Numeric /\ b \in Numeric /\ ~IsWeak(a) /\ ~IsWeak(b)
    BY <1>1, <1>2, <1>3, <2>1
  <2>5. base = Promote(a, b)
    BY <1>1, <1>3, <2>1 DEF BaseOfTwo
  <2>6. /\ Extracted(op, <<a, b>>) = <<a, b>>
        /\ Extracted(op, <<b, a>>) = <<b, a>>
    BY <2>4, ExtractedArrays
  <2>7. op # "hypot"
    BY <1>3 DEF Tiered
  <2>8. GoTogether(op, a, b, base) /\ GoTogether(op, b, a, base)
    BY <2>4, <2>5, <2>7, ArraysGo
  <2> QED
    BY <2>3, <2>6, <2>8 DEF GoTogether
<1>4. CASE Len(strong) = 1
  <2>1. PICK d, k : d = strong[1] /\ k = weak[1]
    OBVIOUS
  <2>2. PICK v : v = Small(k)
    OBVIOUS
  <2>3. Len(weak) = 1
    BY <1>1, <1>4
  <2>4. args = <<d, v>> /\ (way = <<d, v>> \/ way = <<v, d>>)
    BY <1>1, <1>4, <2>1, <2>2, <2>3, BothAre
  <2>5. /\ d \in Numeric /\ ~IsWeak(d) /\ k \in ScalarKinds /\ IsWeak(v)
        /\ v.scalar = k
    BY <1>1, <1>2, <1>4, <2>1, <2>2, <2>3, SmallShape
  <2>6. base = WeakTarget(d, k)
    BY <1>1, <1>4, <2>1 DEF BaseOfTwo
  <2>7. PICK s : s = ScalarAgainst(op, d, v)
    OBVIOUS
  <2>8. /\ Extracted(op, <<d, v>>) = <<d, s>>
        /\ Extracted(op, <<v, d>>) = <<s, d>>
    BY <2>5, <2>7, ExtractedPair
  <2>9. GoTogether(op, d, s, base) /\ GoTogether(op, s, d, base)
    BY <2>2, <2>5, <2>6, <2>7, ScalarGoes
  <2> QED
    BY <2>4, <2>8, <2>9 DEF GoTogether
<1>5. CASE Len(strong) = 0
  <2>1. PICK j, k : j = weak[1] /\ k = weak[2]
    OBVIOUS
  <2>2. PICK v, w : v = Small(j) /\ w = Small(k)
    OBVIOUS
  <2>3. Len(weak) = 2
    BY <1>1, <1>5
  <2>4. args = <<v, w>> /\ (way = <<v, w>> \/ way = <<w, v>>)
    <3>1. args = <<v, w>>
      BY <1>1, <1>5, <2>1, <2>2, <2>3, BothAre
    <3>2. way \in {<<v, w>>, <<w, v>>}
      BY <3>1
    <3> QED
      BY <3>1, <3>2
  <2>5. /\ j \in ScalarKinds /\ k \in ScalarKinds /\ IsWeak(v) /\ IsWeak(w)
        /\ v.scalar = j /\ w.scalar = k
    BY <1>1, <2>1, <2>2, <2>3, SmallShape
  <2>6. base = WeakTarget(WeakTarget(Bool, j), k)
    BY <1>1, <1>5, <2>1 DEF BaseOfTwo
  <2>7. /\ Extracted(op, <<v, w>>) = <<StrongDefault(j), StrongDefault(k)>>
        /\ Extracted(op, <<w, v>>) = <<StrongDefault(k), StrongDefault(j)>>
    BY <2>5, ExtractedScalars
  <2>8. base = WeakTarget(WeakTarget(Bool, k), j)
    <3>1. /\ StrongDefault(j) \in Numeric /\ StrongDefault(k) \in Numeric
          /\ Promote(StrongDefault(j), StrongDefault(k)) = base
          /\ Promote(StrongDefault(k), StrongDefault(j)) = WeakTarget(WeakTarget(Bool, k), j)
      BY <2>5, <2>6, DefaultsAreNumeric, DefaultsPromote
    <3> QED
      BY <3>1, PromoteNumerics
  <2>9. /\ GoTogether(op, StrongDefault(j), StrongDefault(k), base)
        /\ GoTogether(op, StrongDefault(k), StrongDefault(j), base)
    BY <2>5, <2>6, <2>8, ScalarsGo
  <2> QED
    BY <2>4, <2>7, <2>9 DEF GoTogether
<1>6. Len(strong) \in {0, 1, 2}
  <2>1. ASSUME NEW m \in Nat, NEW n \in Nat, m + n = 2 PROVE m \in {0, 1, 2}
    BY <2>1
  <2> QED
    BY <1>1, <2>1
<1> QED
  BY <1>3, <1>4, <1>5, <1>6, Zenon

\* result_type tells what a ufunc does: whatever two arguments settled, arrays
\* of any numeric dtype or Python scalars, in either order, the ufuncs give the
\* dtype that the answer alone would (dtypeinfo.rs against extract_binary_pair
\* and the output tables of ufunc.rs).
THEOREM SessionAgreesWithResultType == SessionSpec => []AgreesWithResultType
<1>1. IInv /\ BaseOfTwo => AgreesWithResultType
  <2> SUFFICES ASSUME IInv, BaseOfTwo PROVE AgreesWithResultType
    OBVIOUS
  <2>1. /\ strong \in Seq(AnyDtype) /\ weak \in Seq(ScalarKinds)
    BY DEF IInv, ResultTypeInv
  <2>2. PICK args : args = Both(strong, weak)
    OBVIOUS
  <2>3. Len(args) = Len(strong) + Len(weak)
    BY <2>1, <2>2, BothAre
  <2>4. ASSUME Settled, Len(args) = 2, \A i \in DOMAIN strong : ~IsString(strong[i]),
               NEW op \in BinaryOps \ {"ldexp"}, op \in Tiered => Len(strong) < 2,
               NEW way \in {args, <<args[2], args[1]>>}
        PROVE  OutDtype(op, Extracted(op, way)) = OutDtype(op, <<base, base>>)
    BY <2>2, <2>3, <2>4, TwoAgree
  <2> QED
    BY <2>2, <2>4, Zenon DEF AgreesWithResultType, Both, Small
<1> QED
  BY <1>1, SessionRefinesResult, BaseOfTwoHolds, PTL

----------------------------------------------------------------------------
(* The loop tables: the first loop that holds the operands.                   *)

\* The place of a dtype in the order of the loops.
Place(d) == CASE d.kind = "Bool"    -> 1
              [] d.kind = "Int"     -> IF d.bits = 8 THEN 2 ELSE IF d.bits = 16 THEN 4
                                       ELSE IF d.bits = 32 THEN 6 ELSE 8
              [] d.kind = "UInt"    -> IF d.bits = 8 THEN 3 ELSE IF d.bits = 16 THEN 5
                                       ELSE IF d.bits = 32 THEN 7 ELSE 9
              [] d.kind = "Float"   -> IF d.bits = 16 THEN 12 ELSE IF d.bits = 32 THEN 13
                                       ELSE 14
              [] d.kind = "Complex" -> IF d.bits = 64 THEN 15 ELSE 16

LEMMA OrderIs ==
  /\ DOMAIN LoopOrder = 1..16
  /\ LoopOrder[1] = Bool /\ LoopOrder[2] = DT("Int", 8) /\ LoopOrder[3] = DT("UInt", 8)
  /\ LoopOrder[4] = DT("Int", 16) /\ LoopOrder[5] = DT("UInt", 16)
  /\ LoopOrder[6] = DT("Int", 32) /\ LoopOrder[7] = DT("UInt", 32)
  /\ LoopOrder[8] = DT("Int", 64) /\ LoopOrder[9] = DT("UInt", 64)
  /\ LoopOrder[10] = None /\ LoopOrder[11] = None
  /\ LoopOrder[12] = DT("Float", 16) /\ LoopOrder[13] = DT("Float", 32)
  /\ LoopOrder[14] = DT("Float", 64)
  /\ LoopOrder[15] = DT("Complex", 64) /\ LoopOrder[16] = DT("Complex", 128)
BY DEF LoopOrder, I8, U8, I64, U64, F16, F32, F64, C64, C128

LEMMA LoopAtPlace ==
  ASSUME NEW d \in Numeric
  PROVE  Place(d) \in 1..16 /\ LoopOrder[Place(d)] = d
<1>1. PICK k, b : k = d.kind /\ b = d.bits
  OBVIOUS
<1>2. /\ d = DT(k, b)
      /\ \/ k = "Bool" /\ b = 8
         \/ k \in {"Int", "UInt"} /\ b \in {8, 16, 32, 64}
         \/ k = "Float" /\ b \in {16, 32, 64}
         \/ k = "Complex" /\ b \in {64, 128}
  BY <1>1, NumericShape
<1>3. CASE k = "Bool" /\ b = 8
  BY <1>1, <1>2, <1>3, OrderIs DEF Place, Bool
<1>4. CASE k = "Int" /\ b \in {8, 16, 32, 64}
  BY <1>1, <1>2, <1>4, OrderIs DEF Place
<1>5. CASE k = "UInt" /\ b \in {8, 16, 32, 64}
  BY <1>1, <1>2, <1>5, OrderIs DEF Place
<1>6. CASE k = "Float" /\ b \in {16, 32, 64}
  BY <1>1, <1>2, <1>6, OrderIs DEF Place
<1>7. CASE k = "Complex" /\ b \in {64, 128}
  BY <1>1, <1>2, <1>7, OrderIs DEF Place
<1> QED
  BY <1>2, <1>3, <1>4, <1>5, <1>6, <1>7

LEMMA LoopsAreNumeric ==
  ASSUME NEW i \in 1..16, LoopOrder[i].kind \in Any
  PROVE  LoopOrder[i] \in Numeric /\ Place(LoopOrder[i]) = i
<1>1. i \notin {10, 11}
  BY OrderIs DEF None, DT, Any, Numbers, Counting, Inexact
<1>2. PICK d : d = LoopOrder[i]
  OBVIOUS
<1>3. CASE i = 1
  BY <1>2, <1>3, OrderIs, NumericFromShape DEF Place, Bool, DT
<1>4. CASE i \in {2, 4, 6, 8}
  <2>1. PICK b \in {8, 16, 32, 64} :
          d = DT("Int", b) /\ i = (IF b = 8 THEN 2 ELSE IF b = 16 THEN 4
                                   ELSE IF b = 32 THEN 6 ELSE 8)
    BY <1>2, <1>4, OrderIs
  <2>2. d \in Numeric
    BY <2>1, NumericFromShape
  <2>3. d.kind = "Int" /\ d.bits = b
    BY <2>1 DEF DT
  <2> QED
    BY <1>2, <2>1, <2>2, <2>3 DEF Place
<1>5. CASE i \in {3, 5, 7, 9}
  <2>1. PICK b \in {8, 16, 32, 64} :
          d = DT("UInt", b) /\ i = (IF b = 8 THEN 3 ELSE IF b = 16 THEN 5
                                    ELSE IF b = 32 THEN 7 ELSE 9)
    BY <1>2, <1>5, OrderIs
  <2>2. d \in Numeric
    BY <2>1, NumericFromShape
  <2>3. d.kind = "UInt" /\ d.bits = b
    BY <2>1 DEF DT
  <2> QED
    BY <1>2, <2>1, <2>2, <2>3 DEF Place
<1>6. CASE i \in {12, 13, 14}
  <2>1. PICK b \in {16, 32, 64} :
          d = DT("Float", b) /\ i = (IF b = 16 THEN 12 ELSE IF b = 32 THEN 13 ELSE 14)
    BY <1>2, <1>6, OrderIs
  <2>2. d \in Numeric
    BY <2>1, NumericFromShape
  <2>3. d.kind = "Float" /\ d.bits = b
    BY <2>1 DEF DT
  <2> QED
    BY <1>2, <2>1, <2>2, <2>3 DEF Place
<1>7. CASE i \in {15, 16}
  <2>1. PICK b \in {64, 128} :
          d = DT("Complex", b) /\ i = (IF b = 64 THEN 15 ELSE 16)
    BY <1>2, <1>7, OrderIs
  <2>2. d \in Numeric
    BY <2>1, NumericFromShape
  <2>3. d.kind = "Complex" /\ d.bits = b
    BY <2>1 DEF DT
  <2> QED
    BY <1>2, <2>1, <2>2, <2>3 DEF Place
<1> QED
  BY <1>1, <1>3, <1>4, <1>5, <1>6, <1>7

\* A safe cast goes up in the order of the loops.
LEMMA SafeRises ==
  ASSUME NEW a \in Numeric, NEW b \in Numeric, SafeNumeric(a, b)
  PROVE  Place(a) <= Place(b)
BY NumericShape, SMTT(60) DEF Place, SafeNumeric, IsInteger, IntEquivFloatBits

LEMMA IntUintComesFirst ==
  ASSUME NEW a \in Numeric, NEW b \in Numeric, NEW x \in Numeric,
         SafeNumeric(a, x), SafeNumeric(b, x), a.kind = "Int", b.kind = "UInt"
  PROVE  Place(IntUint(a.bits, b.bits)) <= Place(x)
<1>1. \A d \in {a, b, x} :
        /\ d = DT(d.kind, d.bits)
        /\ \/ d.kind = "Bool" /\ d.bits = 8
           \/ d.kind \in {"Int", "UInt"} /\ d.bits \in {8, 16, 32, 64}
           \/ d.kind = "Float" /\ d.bits \in {16, 32, 64}
           \/ d.kind = "Complex" /\ d.bits \in {64, 128}
  BY NumericShape
<1>2. x.kind \in {"Int", "Float", "Complex"}
  BY <1>1 DEF SafeNumeric, IsInteger
<1>3. CASE b.bits = 64
  <2>1. IntUint(a.bits, b.bits) = DT("Float", 64)
    BY <1>3 DEF IntUint, F64
  <2>2. Place(DT("Float", 64)) = 14
    BY DEF Place, DT
  <2>3. x.kind # "Int"
    BY <1>1, <1>3 DEF SafeNumeric, IsInteger
  <2>4. CASE x.kind = "Float"
    <3>1. x.bits = 64
      BY <1>1, <1>3, <2>4 DEF SafeNumeric, IsInteger, IntEquivFloatBits
    <3>2. Place(x) = 14
      BY <2>4, <3>1 DEF Place
    <3> QED  BY <2>1, <2>2, <3>2
  <2>5. CASE x.kind = "Complex"
    <3>1. Place(x) >= 15 /\ Place(x) \in 1..16
      BY <2>5, LoopAtPlace DEF Place
    <3> QED  BY <2>1, <2>2, <3>1
  <2> QED  BY <1>2, <2>3, <2>4, <2>5
<1>4. CASE b.bits # 64
  <2>1. PICK w \in {16, 32, 64} : w = Larger(a.bits, 2 * b.bits)
    BY <1>1, <1>4 DEF Larger
  <2>2. IntUint(a.bits, b.bits) = DT("Int", w)
    BY <1>4, <2>1 DEF IntUint
  <2>3. Place(DT("Int", w)) = (IF w = 16 THEN 4 ELSE IF w = 32 THEN 6 ELSE 8)
    BY <2>1 DEF Place, DT
  <2>4. CASE x.kind = "Int"
    <3>1. a.bits <= x.bits /\ b.bits < x.bits
      BY <2>4 DEF SafeNumeric, IsInteger
    <3>2. w <= x.bits /\ x.bits \in {8, 16, 32, 64}
      BY <1>1, <1>4, <2>1, <2>4, <3>1 DEF Larger
    <3>3. Place(x) = (IF x.bits = 8 THEN 2 ELSE IF x.bits = 16 THEN 4
                      ELSE IF x.bits = 32 THEN 6 ELSE 8)
      BY <2>4 DEF Place
    <3> QED  BY <2>2, <2>3, <3>2, <3>3
  <2>5. CASE x.kind \in {"Float", "Complex"}
    <3>1. Place(x) >= 12 /\ Place(x) \in 1..16
      BY <2>5, LoopAtPlace DEF Place
    <3> QED  BY <2>2, <2>3, <3>1
  <2> QED  BY <1>2, <2>4, <2>5
<1> QED  BY <1>3, <1>4

\* Promotion is the first dtype in that order that holds both.
LEMMA PromoteComesFirst ==
  ASSUME NEW a \in Numeric, NEW b \in Numeric, NEW x \in Numeric,
         SafeNumeric(a, x), SafeNumeric(b, x)
  PROVE  Place(Promote(a, b)) <= Place(x)
<1>1. CASE a = b
  BY <1>1, SafeRises, PromoteNumerics
<1>2. CASE a # b
  <2>1. Promote(a, b) = PromoteNumeric(a, b)
    BY <1>2, NumericShape DEF Promote
  <2>2. CASE a.kind = "Bool" \/ b.kind = "Bool"
    <3>1. PromoteNumeric(a, b) \in {a, b}
      <4>1. ~(a.kind = "Bool" /\ b.kind = "Bool")
        BY <1>2, NumericShape
      <4>2. a.kind # b.kind
        BY <2>2, <4>1
      <4>3. CASE a.kind = "Bool"
        <5>1. PromoteNumeric(a, b) = b
          BY <4>2, <4>3 DEF PromoteNumeric
        <5> QED  BY <5>1
      <4>4. CASE b.kind = "Bool"
        <5>1. PromoteNumeric(a, b) = a
          BY <4>2, <4>4 DEF PromoteNumeric
        <5> QED  BY <5>1
      <4> QED  BY <2>2, <4>3, <4>4
    <3>2. Place(a) <= Place(x) /\ Place(b) <= Place(x)
      BY SafeRises
    <3> QED
      BY <2>1, <3>1, <3>2
  <2>3. CASE a.kind # "Bool" /\ b.kind # "Bool"
    <3>1. \A d \in {a, b, x} :
            /\ d = DT(d.kind, d.bits)
            /\ \/ d.kind = "Bool" /\ d.bits = 8
               \/ d.kind \in {"Int", "UInt"} /\ d.bits \in {8, 16, 32, 64}
               \/ d.kind = "Float" /\ d.bits \in {16, 32, 64}
               \/ d.kind = "Complex" /\ d.bits \in {64, 128}
      BY NumericShape
    <3>2. CASE a.kind = b.kind
      <4>1. PromoteNumeric(a, b) = DT(a.kind, Larger(a.bits, b.bits))
        <5>1. ~(a.kind = "Int" /\ b.kind = "UInt") /\ ~(a.kind = "UInt" /\ b.kind = "Int")
          BY <3>2
        <5> QED  BY <2>3, <3>2, <5>1 DEF PromoteNumeric
      <4>2. Larger(a.bits, b.bits) \in {a.bits, b.bits}
        BY DEF Larger
      <4>3. PromoteNumeric(a, b) \in {a, b}
        BY <3>1, <3>2, <4>1, <4>2
      <4>4. Place(a) <= Place(x) /\ Place(b) <= Place(x)
        BY SafeRises
      <4> QED  BY <2>1, <4>3, <4>4
    <3>3. CASE a.kind = "Int" /\ b.kind = "UInt"
      <4>1. PromoteNumeric(a, b) = IntUint(a.bits, b.bits)
        BY <3>3 DEF PromoteNumeric
      <4> QED  BY <2>1, <3>1, <3>3, <4>1, IntUintComesFirst
    <3>4. CASE a.kind = "UInt" /\ b.kind = "Int"
      <4>1. PromoteNumeric(a, b) = IntUint(b.bits, a.bits)
        BY <3>4 DEF PromoteNumeric
      <4> QED  BY <2>1, <3>1, <3>4, <4>1, IntUintComesFirst
    <3>5. CASE a.kind # b.kind /\ {a.kind, b.kind} # {"Int", "UInt"}
      <4>1. PICK real : real = Larger(RealBits(a), RealBits(b))
        OBVIOUS
      <4>2. PromoteNumeric(a, b) = IF IsComplex(a) \/ IsComplex(b)
                                   THEN DT("Complex", 2 * real) ELSE DT("Float", real)
        <5>1. ~(a.kind = "Int" /\ b.kind = "UInt") /\ ~(a.kind = "UInt" /\ b.kind = "Int")
          BY <3>5
        <5> QED  BY <2>3, <3>5, <4>1, <5>1 DEF PromoteNumeric
      <4>3. real = RealBits(a) \/ real = RealBits(b)
        BY <4>1 DEF Larger
      <4>4. ~IsComplex(a) /\ ~IsComplex(b) => a.kind = "Float" \/ b.kind = "Float"
        BY <2>3, <3>1, <3>5 DEF IsComplex
      <4>5. CASE IsComplex(a) \/ IsComplex(b)
        <5>1. IsComplex(x)
          BY <4>5 DEF SafeNumeric, IsComplex, IsInteger
        <5>2. RealBits(a) <= x.bits \div 2 /\ RealBits(b) <= x.bits \div 2
          BY <2>3, <3>1, <5>1, SMTT(30)
          DEF SafeNumeric, IsComplex, IsInteger, RealBits, IntEquivFloatBits
        <5>3. x.bits = 64 \/ x.bits = 128
          BY <3>1, <5>1 DEF IsComplex
        <5>4. real \in {16, 32, 64}
          BY <2>3, <3>1, <4>3 DEF RealBits, IsInteger, IntEquivFloatBits, IsComplex
        <5>5. 2 * real <= x.bits
          BY <4>3, <5>2, <5>3, <5>4
        <5>6. Place(DT("Complex", 2 * real)) = (IF 2 * real = 64 THEN 15 ELSE 16)
          BY DEF Place, DT
        <5>7. Place(x) = (IF x.bits = 64 THEN 15 ELSE 16)
          BY <5>1 DEF Place, IsComplex
        <5>8. 2 * real = 64 \/ x.bits = 128
          <6>1. real # 16
            BY <2>3, <3>1, <3>5, <4>1, <4>5, SMTT(30)
            DEF RealBits, IsComplex, Larger, IsInteger, IntEquivFloatBits
          <6> QED  BY <5>3, <5>4, <5>5, <6>1
        <5> QED  BY <2>1, <4>2, <4>5, <5>3, <5>6, <5>7, <5>8
      <4>6. CASE ~(IsComplex(a) \/ IsComplex(b))
        <5>1. x.kind \in {"Float", "Complex"}
          BY <3>1, <4>4, <4>6 DEF SafeNumeric, IsComplex, IsInteger
        <5>2. real \in {16, 32, 64}
          BY <2>3, <3>1, <4>3, <4>6 DEF RealBits, IsInteger, IntEquivFloatBits, IsComplex
        <5>3. Place(DT("Float", real)) = (IF real = 16 THEN 12 ELSE IF real = 32 THEN 13 ELSE 14)
          BY DEF Place, DT
        <5>4. CASE x.kind = "Complex"
          <6>1. Place(x) >= 15 /\ Place(x) \in 1..16
            BY <5>4, LoopAtPlace DEF Place
          <6> QED  BY <2>1, <4>2, <4>6, <5>2, <5>3, <6>1
        <5>5. CASE x.kind = "Float"
          <6>1. RealBits(a) <= x.bits /\ RealBits(b) <= x.bits
            BY <2>3, <3>1, <4>6, <5>5, SMTT(30)
            DEF SafeNumeric, IsComplex, IsInteger, RealBits, IntEquivFloatBits
          <6>2. real <= x.bits /\ x.bits \in {16, 32, 64}
            BY <3>1, <4>3, <5>5, <6>1
          <6>3. Place(x) = (IF x.bits = 16 THEN 12 ELSE IF x.bits = 32 THEN 13 ELSE 14)
            BY <5>5 DEF Place
          <6> QED  BY <2>1, <4>2, <4>6, <5>2, <5>3, <6>2, <6>3
        <5> QED  BY <5>1, <5>4, <5>5
      <4> QED  BY <4>5, <4>6
    <3> QED  BY <3>2, <3>3, <3>4, <3>5
  <2> QED
    BY <2>2, <2>3
<1> QED
  BY <1>1, <1>2

\* The operands of a call: one, or two.
Operands(n, a, b) == IF n = 1 THEN <<a>> ELSE <<a, b>>

\* The places of the dtypes of these kinds that hold a and b.
Holding(kinds, a, b) ==
    {i \in Places(kinds) : SafeNumeric(a, LoopOrder[i]) /\ SafeNumeric(b, LoopOrder[i])}

\* t is the first of these kinds that holds a and b.
ComesFirst(kinds, a, b, t) ==
    /\ t \in Numeric /\ t.kind \in kinds
    /\ SafeNumeric(a, t) /\ SafeNumeric(b, t)
    /\ \A x \in Numeric : x.kind \in kinds /\ SafeNumeric(a, x) /\ SafeNumeric(b, x)
                            => Place(t) <= Place(x)

LEMMA FirstIsLeast ==
  ASSUME NEW kinds \in SUBSET Any, NEW a, NEW b, NEW t, ComesFirst(kinds, a, b, t)
  PROVE  /\ Place(t) \in Holding(kinds, a, b)
         /\ Min(Holding(kinds, a, b)) = Place(t)
<1>1. t \in Numeric /\ t.kind \in kinds /\ SafeNumeric(a, t) /\ SafeNumeric(b, t)
  BY DEF ComesFirst
<1>2. Place(t) \in 1..16 /\ LoopOrder[Place(t)] = t
  BY <1>1, LoopAtPlace
<1>3. Place(t) \in Holding(kinds, a, b)
  BY <1>1, <1>2 DEF Holding, Places
<1>4. ASSUME NEW i \in Holding(kinds, a, b) PROVE i \in 1..16 /\ Place(t) <= i
  <2>1. /\ i \in 1..16 /\ LoopOrder[i].kind \in kinds
        /\ SafeNumeric(a, LoopOrder[i]) /\ SafeNumeric(b, LoopOrder[i])
    BY DEF Holding, Places
  <2>2. LoopOrder[i].kind \in Any
    BY <2>1
  <2>3. LoopOrder[i] \in Numeric /\ Place(LoopOrder[i]) = i
    BY <2>1, <2>2, LoopsAreNumeric
  <2>4. Place(t) <= Place(LoopOrder[i])
    BY <2>1, <2>3 DEF ComesFirst
  <2> QED
    BY <2>1, <2>3, <2>4
<1>5. PICK p : p = Place(t)
  OBVIOUS
<1>6. PICK held : held = Holding(kinds, a, b)
  OBVIOUS
<1>7. p \in held /\ \A i \in held : i \in Int /\ p \in Int /\ p <= i
  BY <1>2, <1>3, <1>4, <1>5, <1>6
<1>8. Min(held) = p
  BY <1>7 DEF Min
<1> QED
  BY <1>3, <1>5, <1>6, <1>8

\* A table whose loops take n operands of one dtype, of these kinds.
TableOf(table, kinds, n) ==
    /\ DOMAIN table = Places(kinds)
    /\ \A i \in Places(kinds) : table[i].ins = Alike(LoopOrder[i], n)

LEMMA SafeInIs ==
  ASSUME NEW kinds \in SUBSET Any, NEW n \in {1, 2}, NEW table, TableOf(table, kinds, n),
         NEW a \in Numeric, NEW b \in Numeric, n = 1 => a = b
  PROVE  SafeIn(table, Operands(n, a, b)) = Holding(kinds, a, b)
<1>1. DOMAIN table = Places(kinds)
  BY DEF TableOf
<1>2. PICK from : from = Operands(n, a, b)
  OBVIOUS
<1>3. ASSUME NEW i \in Places(kinds)
      PROVE  (\A k \in DOMAIN from : SafeCast(from[k], table[i].ins[k]))
               <=> SafeNumeric(a, LoopOrder[i]) /\ SafeNumeric(b, LoopOrder[i])
  <2>1. PICK d : d = LoopOrder[i]
    OBVIOUS
  <2>2. i \in 1..16 /\ d.kind \in Any
    BY <2>1 DEF Places
  <2>3. d \in Numeric
    BY <2>1, <2>2, LoopsAreNumeric
  <2>4. ASSUME NEW x \in Numeric PROVE SafeCast(x, d) <=> SafeNumeric(x, d)
    <3>1. ~IsString(x) /\ ~IsString(d)
      BY <2>3, NumericShape
    <3> QED
      BY <3>1 DEF SafeCast
  <2>5. PICK ins : ins = table[i].ins
    OBVIOUS
  <2>6. ins = Alike(d, n)
    BY <2>1, <2>5 DEF TableOf
  <2>7. CASE n = 1
    <3>1. DOMAIN from = {1} /\ from[1] = a /\ ins[1] = d
      BY <1>2, <2>6, <2>7 DEF Operands, Alike
    <3> QED
      BY <2>1, <2>4, <2>5, <2>7, <3>1
  <2>8. CASE n = 2
    <3>1. DOMAIN from = {1, 2} /\ from[1] = a /\ from[2] = b /\ ins[1] = d /\ ins[2] = d
      BY <1>2, <2>6, <2>8 DEF Operands, Alike
    <3> QED
      BY <2>1, <2>4, <2>5, <3>1
  <2> QED
    BY <2>7, <2>8
<1>4. SafeIn(table, from) = Holding(kinds, a, b)
  BY <1>1, <1>3 DEF SafeIn, Holding
<1> QED
  BY <1>2, <1>4

\* A call that was given no dtype computes in a loop of its ufunc.
InALoop(op, from) ==
    LET table == LoopTable[op]
        safe  == SafeIn(table, from)
        out   == OutDtype(op, from)
    IN  IF out = None
        THEN safe = {} \/ (op \in RefusesBool /\ from[1] = Bool)
        ELSE /\ ~Native(op, from) => \E i \in safe : table[i] = Row(ComputedIn(op, from), out)
             /\ out = table[Min(safe)].out \/ (op = "divide" /\ out = F64)

LEMMA GivesTheFirst ==
  ASSUME NEW op, NEW kinds \in SUBSET Any, NEW n \in {1, 2},
         TableOf(LoopTable[op], kinds, n),
         NEW a \in Numeric, NEW b \in Numeric, n = 1 => a = b,
         NEW from, from = Operands(n, a, b),
         NEW t, ComesFirst(kinds, a, b, t),
         NEW out, out = OutDtype(op, from), out # None,
         LoopTable[op][Place(t)] = Row(Alike(t, n), out),
         ~Native(op, from) => ComputedIn(op, from) = Alike(t, n)
  PROVE  InALoop(op, from)
<1>1. PICK table : table = LoopTable[op]
  OBVIOUS
<1>2. PICK safe : safe = SafeIn(table, from)
  OBVIOUS
<1>3. safe = Holding(kinds, a, b)
  BY <1>1, <1>2, SafeInIs
<1>4. Place(t) \in safe /\ Min(safe) = Place(t)
  BY <1>3, FirstIsLeast
<1>5. table[Min(safe)] = Row(Alike(t, n), out)
  BY <1>1, <1>4
<1>6. table[Min(safe)].out = out
  BY <1>5 DEF Row
<1>7. ~Native(op, from) => \E i \in safe : table[i] = Row(ComputedIn(op, from), out)
  BY <1>1, <1>4
<1> QED
  BY <1>1, <1>2, <1>6, <1>7 DEF InALoop

LEMMA RefusesAll ==
  ASSUME NEW op, NEW kinds \in SUBSET Any, NEW n \in {1, 2},
         TableOf(LoopTable[op], kinds, n),
         NEW a \in Numeric, NEW b \in Numeric, n = 1 => a = b,
         NEW from, from = Operands(n, a, b),
         OutDtype(op, from) = None,
         Holding(kinds, a, b) = {}
  PROVE  InALoop(op, from)
<1>1. SafeIn(LoopTable[op], from) = {}
  BY SafeInIs
<1> QED
  BY <1>1 DEF InALoop

----------------------------------------------------------------------------
(* Which dtype comes first, for the kinds the tables have.                    *)

LEMMA PromoteFirst ==
  ASSUME NEW kinds \in SUBSET Any, NEW a \in Numeric, NEW b \in Numeric,
         Promote(a, b).kind \in kinds
  PROVE  ComesFirst(kinds, a, b, Promote(a, b))
<1>1. Promote(a, b) \in Numeric
  BY PromoteNumerics
<1>2. SafeNumeric(a, Promote(a, b)) /\ SafeNumeric(b, Promote(a, b))
  <2>1. CASE a = b
    <3>1. Promote(a, b) = a
      BY <2>1, PromoteNumerics
    <3>2. SafeNumeric(a, a)
      BY NumericShape DEF SafeNumeric
    <3> QED  BY <2>1, <3>1, <3>2
  <2>2. CASE a # b
    <3>1. Promote(a, b) = PromoteNumeric(a, b)
      BY <2>2, NumericShape DEF Promote
    <3> QED  BY <3>1, PromoteNumericHolds
  <2> QED  BY <2>1, <2>2
<1>3. \A x \in Numeric : x.kind \in kinds /\ SafeNumeric(a, x) /\ SafeNumeric(b, x)
                            => Place(Promote(a, b)) <= Place(x)
  BY PromoteComesFirst
<1> QED
  BY <1>1, <1>2, <1>3 DEF ComesFirst

\* Without a loop on bools, they are taken as int8.
LEMMA BoolsFirst ==
  ASSUME NEW kinds \in SUBSET Any, "Int" \in kinds, "Bool" \notin kinds
  PROVE  ComesFirst(kinds, Bool, Bool, I8)
<1>1. I8 \in Numeric /\ I8.kind = "Int" /\ Place(I8) = 2
  BY NumericFromShape DEF I8, DT, Place
<1>2. SafeNumeric(Bool, I8)
  BY DEF SafeNumeric, Bool, DT
<1>3. ASSUME NEW x \in Numeric, x.kind \in kinds PROVE 2 <= Place(x)
  <2>1. Place(x) \in 1..16 /\ LoopOrder[Place(x)] = x
    BY LoopAtPlace
  <2>2. LoopOrder[1].kind = "Bool"
    BY OrderIs DEF Bool, DT
  <2>3. Place(x) # 1
    BY <1>3, <2>1, <2>2
  <2> QED
    BY <2>1, <2>3
<1> QED
  BY <1>1, <1>2, <1>3 DEF ComesFirst

LEMMA TierShape ==
  ASSUME NEW a \in Numeric, ~IsComplex(a)
  PROVE  /\ FloatTier(a) = DT("Float", FloatTier(a).bits) /\ FloatTier(a) \in Numeric
         /\ FloatTier(a).kind = "Float" /\ FloatTier(a).bits \in {16, 32, 64}
         /\ \A w \in {16, 32, 64} : SafeNumeric(a, DT("Float", w)) <=> FloatTier(a).bits <= w
         /\ \A w \in {64, 128} :
              SafeNumeric(a, DT("Complex", w)) <=> FloatTier(a).bits <= w \div 2
<1>1. PICK k, n : k = a.kind /\ n = a.bits
  OBVIOUS
<1>2. /\ a = DT(k, n)
      /\ \/ k = "Bool" /\ n = 8
         \/ k \in {"Int", "UInt"} /\ n \in {8, 16, 32, 64}
         \/ k = "Float" /\ n \in {16, 32, 64}
  BY <1>1, NumericShape DEF IsComplex
<1>3. PICK m \in {16, 32, 64} :
         FloatTier(a) = DT("Float", m)
         /\ m = (IF k = "Bool" THEN 16 ELSE IF k = "Float" THEN n ELSE IntEquivFloatBits(n))
  <2>1. CASE k = "Bool"
    BY <1>1, <2>1 DEF FloatTier, F16, IsInteger
  <2>2. CASE k \in {"Int", "UInt"}
    BY <1>1, <1>2, <2>2 DEF FloatTier, IsInteger, IntEquivFloatBits
  <2>3. CASE k = "Float"
    <3>1. FloatTier(a) = a
      BY <1>1, <2>3 DEF FloatTier, IsInteger
    <3> QED  BY <1>2, <2>3, <3>1
  <2> QED  BY <1>2, <2>1, <2>2, <2>3
<1>4. DT("Float", m).kind = "Float" /\ DT("Float", m).bits = m /\ DT("Float", m) \in Numeric
  BY NumericFromShape DEF DT
<1>5. ASSUME NEW w \in {16, 32, 64} PROVE SafeNumeric(a, DT("Float", w)) <=> m <= w
  <2>1. PICK t : t = DT("Float", w)
    OBVIOUS
  <2>2. t.kind = "Float" /\ t.bits = w
    BY <2>1 DEF DT
  <2>3. CASE k = "Bool"
    BY <1>1, <1>3, <2>1, <2>3 DEF SafeNumeric
  <2>4. CASE k \in {"Int", "UInt"}
    <3>1. SafeNumeric(a, t) <=> IntEquivFloatBits(n) <= w
      BY <1>1, <2>2, <2>4 DEF SafeNumeric, IsInteger
    <3> QED  BY <1>3, <2>1, <2>4, <3>1
  <2>5. CASE k = "Float"
    <3>1. SafeNumeric(a, t) <=> n <= w
      BY <1>1, <2>2, <2>5 DEF SafeNumeric, IsInteger
    <3> QED  BY <1>3, <2>1, <2>5, <3>1
  <2> QED
    BY <1>2, <2>3, <2>4, <2>5
<1>6. ASSUME NEW w \in {64, 128} PROVE SafeNumeric(a, DT("Complex", w)) <=> m <= w \div 2
  <2>1. PICK t : t = DT("Complex", w)
    OBVIOUS
  <2>2. t.kind = "Complex" /\ t.bits = w
    BY <2>1 DEF DT
  <2>3. CASE k = "Bool"
    BY <1>1, <1>3, <2>1, <2>3 DEF SafeNumeric
  <2>4. CASE k \in {"Int", "UInt"}
    <3>1. SafeNumeric(a, t) <=> IntEquivFloatBits(n) <= w \div 2
      BY <1>1, <2>2, <2>4 DEF SafeNumeric, IsInteger
    <3> QED  BY <1>3, <2>1, <2>4, <3>1
  <2>5. CASE k = "Float"
    <3>1. SafeNumeric(a, t) <=> n <= w \div 2
      BY <1>1, <2>2, <2>5 DEF SafeNumeric, IsInteger
    <3> QED  BY <1>3, <2>1, <2>5, <3>1
  <2> QED
    BY <1>2, <2>3, <2>4, <2>5
<1> QED
  BY <1>3, <1>4, <1>5, <1>6

\* The float loops: the wider of the floats that take the operands.
LEMMA FloatsFirst ==
  ASSUME NEW kinds \in {{"Float"}, Inexact},
         NEW a \in Numeric, ~IsComplex(a), NEW b \in Numeric, ~IsComplex(b)
  PROVE  ComesFirst(kinds, a, b, DT("Float", Larger(FloatTier(a).bits, FloatTier(b).bits)))
<1>1. PICK m \in {16, 32, 64}, n \in {16, 32, 64} :
        m = FloatTier(a).bits /\ n = FloatTier(b).bits
  BY TierShape
<1>2. PICK w \in {16, 32, 64} : w = Larger(m, n) /\ m <= w /\ n <= w /\ w \in {m, n}
  BY DEF Larger
<1>3. PICK t : t = DT("Float", w)
  OBVIOUS
<1>4. t \in Numeric /\ t.kind = "Float" /\ t.kind \in kinds
  BY <1>3, NumericFromShape DEF DT, Inexact
<1>5. SafeNumeric(a, t) /\ SafeNumeric(b, t)
  BY <1>1, <1>2, <1>3, TierShape
<1>6. Place(t) = IF w = 16 THEN 12 ELSE IF w = 32 THEN 13 ELSE 14
  BY <1>3 DEF Place, DT
<1>7. ASSUME NEW x \in Numeric, x.kind \in kinds, SafeNumeric(a, x), SafeNumeric(b, x)
      PROVE  Place(t) <= Place(x)
  <2>1. x.kind \in {"Float", "Complex"}
    BY <1>7 DEF Inexact
  <2>2. CASE x.kind = "Complex"
    <3>1. Place(x) >= 15 /\ Place(x) \in 1..16
      BY <2>2, LoopAtPlace DEF Place
    <3> QED  BY <1>6, <3>1
  <2>3. CASE x.kind = "Float"
    <3>1. PICK v \in {16, 32, 64} : v = x.bits /\ x = DT("Float", v)
      BY <2>3, NumericShape
    <3>2. m <= v /\ n <= v
      BY <1>1, <1>7, <3>1, TierShape
    <3>3. Place(x) = IF v = 16 THEN 12 ELSE IF v = 32 THEN 13 ELSE 14
      BY <2>3, <3>1 DEF Place
    <3> QED  BY <1>2, <1>6, <3>2, <3>3
  <2> QED  BY <2>1, <2>2, <2>3
<1>8. ComesFirst(kinds, a, b, t)
  BY <1>4, <1>5, <1>7 DEF ComesFirst
<1> QED
  BY <1>1, <1>2, <1>3, <1>8

\* No integer holds what is promoted to a float, no float a complex number.
LEMMA NothingHolds ==
  ASSUME NEW kinds \in SUBSET Any, NEW a \in Numeric, NEW b \in Numeric,
         \/ Promote(a, b).kind \in Inexact /\ kinds \subseteq Counting \union {"Bool"}
         \/ IsComplex(Promote(a, b)) /\ "Complex" \notin kinds
  PROVE  Holding(kinds, a, b) = {}
<1>1. SUFFICES ASSUME NEW i \in Holding(kinds, a, b) PROVE FALSE
  OBVIOUS
<1>2. PICK x : x = LoopOrder[i]
  OBVIOUS
<1>3. /\ i \in 1..16 /\ x.kind \in kinds /\ SafeNumeric(a, x) /\ SafeNumeric(b, x)
  BY <1>2 DEF Holding, Places
<1>4. x \in Numeric /\ Place(x) = i
  <2>1. x.kind \in Any
    BY <1>3
  <2> QED  BY <1>2, <1>3, <2>1, LoopsAreNumeric
<1>5. PICK p \in Numeric : p = Promote(a, b) /\ Place(p) <= Place(x)
  BY <1>3, <1>4, PromoteNumerics, PromoteComesFirst
<1>6. CASE p.kind \in Inexact /\ kinds \subseteq Counting \union {"Bool"}
  <2>1. Place(p) >= 12 /\ Place(p) \in 1..16
    BY <1>6, LoopAtPlace DEF Place, Inexact
  <2>2. x.kind \in {"Bool", "Int", "UInt"}
    BY <1>3, <1>6 DEF Counting
  <2>3. Place(x) <= 9 /\ Place(x) \in 1..16
    BY <1>4, <2>2, LoopAtPlace DEF Place
  <2> QED  BY <1>5, <2>1, <2>3
<1>7. CASE IsComplex(p) /\ "Complex" \notin kinds
  <2>1. IsComplex(a) \/ IsComplex(b)
    BY <1>5, <1>7, PromoteNumerics
  <2>2. IsComplex(x)
    BY <1>3, <2>1 DEF SafeNumeric, IsComplex, IsInteger
  <2> QED  BY <1>3, <1>7, <2>2 DEF IsComplex
<1> QED
  BY <1>5, <1>6, <1>7

----------------------------------------------------------------------------
(* The tables.                                                                *)

LEMMA LoopsAre ==
  ASSUME NEW kinds \in SUBSET Any, NEW n \in {1, 2}
  PROVE  /\ TableOf(Loops(kinds, n), kinds, n)
         /\ \A t \in Numeric : t.kind \in kinds =>
              Loops(kinds, n)[Place(t)] = Row(Alike(t, n), t)
<1>1. TableOf(Loops(kinds, n), kinds, n)
  BY DEF TableOf, Loops, Row
<1>2. ASSUME NEW t \in Numeric, t.kind \in kinds
      PROVE  Loops(kinds, n)[Place(t)] = Row(Alike(t, n), t)
  <2>1. Place(t) \in Places(kinds) /\ LoopOrder[Place(t)] = t
    BY <1>2, LoopAtPlace DEF Places
  <2> QED
    BY <2>1 DEF Loops
<1> QED
  BY <1>1, <1>2

LEMMA LoopsToAre ==
  ASSUME NEW kinds \in SUBSET Any, NEW n \in {1, 2}, NEW out
  PROVE  /\ TableOf(LoopsTo(out, kinds, n), kinds, n)
         /\ \A t \in Numeric : t.kind \in kinds =>
              LoopsTo(out, kinds, n)[Place(t)] = Row(Alike(t, n), out)
<1>1. TableOf(LoopsTo(out, kinds, n), kinds, n)
  BY DEF TableOf, LoopsTo, Row
<1>2. ASSUME NEW t \in Numeric, t.kind \in kinds
      PROVE  LoopsTo(out, kinds, n)[Place(t)] = Row(Alike(t, n), out)
  <2>1. Place(t) \in Places(kinds) /\ LoopOrder[Place(t)] = t
    BY <1>2, LoopAtPlace DEF Places
  <2> QED
    BY <2>1 DEF LoopsTo
<1> QED
  BY <1>1, <1>2

\* The magnitude of a complex number is the half of it.
Magnitude(d) == IF IsComplex(d) THEN DT("Float", d.bits \div 2) ELSE d

LEMMA MagnitudeIs ==
  ASSUME NEW d \in Numeric
  PROVE  (CASE d = C64 -> F32 [] d = C128 -> F64 [] OTHER -> d) = Magnitude(d)
<1>1. /\ d = DT(d.kind, d.bits)
      /\ d.kind = "Complex" => d.bits \in {64, 128}
  BY NumericShape
<1>2. CASE d = C64
  <2>1. d # C128
    BY <1>2 DEF C64, C128, DT
  <2> QED  BY <1>2, <2>1 DEF Magnitude, IsComplex, C64, F32, DT
<1>3. CASE d = C128
  <2>1. d # C64
    BY <1>3 DEF C64, C128, DT
  <2> QED  BY <1>3, <2>1 DEF Magnitude, IsComplex, C128, F64, DT
<1>4. CASE d # C64 /\ d # C128
  <2>1. ~IsComplex(d)
    BY <1>1, <1>4 DEF IsComplex, C64, C128
  <2> QED  BY <1>4, <2>1 DEF Magnitude
<1> QED
  BY <1>2, <1>3, <1>4

LEMMA AbsoluteLoopsAre ==
  /\ TableOf(AbsoluteLoops, Any, 1)
  /\ \A t \in Numeric : AbsoluteLoops[Place(t)] = Row(Alike(t, 1), Magnitude(t))
<1>1. TableOf(AbsoluteLoops, Any, 1)
  BY DEF TableOf, AbsoluteLoops, Row, Alike
<1>2. ASSUME NEW t \in Numeric
      PROVE  AbsoluteLoops[Place(t)] = Row(Alike(t, 1), Magnitude(t))
  <2>1. Place(t) \in Places(Any) /\ LoopOrder[Place(t)] = t
    <3>1. t.kind \in Any
      BY NumericShape DEF Any, Numbers, Counting, Inexact
    <3> QED  BY <3>1, LoopAtPlace DEF Places
  <2>2. AbsoluteLoops[Place(t)] =
          Row(<<t>>, CASE t = C64 -> F32 [] t = C128 -> F64 [] OTHER -> t)
    BY <2>1 DEF AbsoluteLoops
  <2> QED
    BY <2>2, MagnitudeIs DEF Alike
<1> QED
  BY <1>1, <1>2

TableFor(op) ==
    CASE op \in {"negative", "square", "reciprocal", "sign", "positive", "conjugate"}
                                           -> Loops(Numbers, 1)
      [] op = "absolute"                   -> AbsoluteLoops
      [] op = "invert"                     -> Loops(Counting \union {"Bool"}, 1)
      [] op \in {"logical_not", "isnan"}   -> LoopsTo(Bool, Any, 1)
      [] op = "sqrt"                       -> Loops(Inexact, 1)
      [] op = "cbrt"                       -> Loops({"Float"}, 1)
      [] op = "floor"                      -> Loops(Ordered \union {"Bool"}, 1)
      [] op = "signbit"                    -> LoopsTo(Bool, {"Float"}, 1)
      [] op = "bitwise_count"              -> LoopsTo(U8, Counting, 1)
      [] op \in {"add", "maximum", "fmax"} -> Loops(Any, 2)
      [] op \in {"subtract", "power"}      -> Loops(Numbers, 2)
      [] op = "divide"                     -> Loops(Inexact, 2)
      [] op \in {"floor_divide", "fmod"}   -> Loops(Ordered, 2)
      [] op = "bitwise_and"                -> Loops(Counting \union {"Bool"}, 2)
      [] op \in {"left_shift", "gcd"}      -> Loops(Counting, 2)
      [] op = "hypot"                      -> Loops({"Float"}, 2)
      [] op = "logical_and"                -> LoopsTo(Bool, Any, 2)
      [] op = "greater"                    -> CompareLoops

LEMMA TableIs ==
  ASSUME NEW op \in DOMAIN LoopTable
  PROVE  LoopTable[op] = TableFor(op)
<1>1. op \in Ops \ {"float_power", "ldexp"}
  BY DEF LoopTable
<1> QED
  BY <1>1 DEF LoopTable, TableFor

LEMMA HasTable ==
  /\ DOMAIN LoopTable = Ops \ {"float_power", "ldexp"}
  /\ UnaryOps \subseteq DOMAIN LoopTable
BY DEF LoopTable, Ops, UnaryOps, PlainUnary, MathUnary, PureUnary

LEMMA UnaryTables ==
  /\ \A op \in {"negative", "square", "reciprocal", "sign", "positive", "conjugate"} :
       TableFor(op) = Loops(Numbers, 1)
  /\ TableFor("absolute") = AbsoluteLoops
  /\ TableFor("invert") = Loops(Counting \union {"Bool"}, 1)
  /\ \A op \in {"logical_not", "isnan"} : TableFor(op) = LoopsTo(Bool, Any, 1)
  /\ TableFor("sqrt") = Loops(Inexact, 1)
  /\ TableFor("cbrt") = Loops({"Float"}, 1)
  /\ TableFor("floor") = Loops(Ordered \union {"Bool"}, 1)
  /\ TableFor("signbit") = LoopsTo(Bool, {"Float"}, 1)
  /\ TableFor("bitwise_count") = LoopsTo(U8, Counting, 1)
<1>1. \A op \in {"negative", "square", "reciprocal", "sign", "positive", "conjugate"} :
        TableFor(op) = Loops(Numbers, 1)
  BY DEF TableFor
<1>2. \A op \in {"logical_not", "isnan"} : TableFor(op) = LoopsTo(Bool, Any, 1)
  BY DEF TableFor
<1>3. TableFor("absolute") = AbsoluteLoops
  BY DEF TableFor
<1>4. TableFor("invert") = Loops(Counting \union {"Bool"}, 1)
  BY DEF TableFor
<1>5. TableFor("sqrt") = Loops(Inexact, 1) /\ TableFor("cbrt") = Loops({"Float"}, 1)
  BY DEF TableFor
<1>6. TableFor("floor") = Loops(Ordered \union {"Bool"}, 1)
  BY DEF TableFor
<1>7. TableFor("signbit") = LoopsTo(Bool, {"Float"}, 1)
      /\ TableFor("bitwise_count") = LoopsTo(U8, Counting, 1)
  BY DEF TableFor
<1> QED
  BY <1>1, <1>2, <1>3, <1>4, <1>5, <1>6, <1>7

LEMMA BinaryTables ==
  /\ \A op \in {"add", "maximum", "fmax"} : TableFor(op) = Loops(Any, 2)
  /\ \A op \in {"subtract", "power"} : TableFor(op) = Loops(Numbers, 2)
  /\ TableFor("divide") = Loops(Inexact, 2)
  /\ \A op \in {"floor_divide", "fmod"} : TableFor(op) = Loops(Ordered, 2)
  /\ TableFor("bitwise_and") = Loops(Counting \union {"Bool"}, 2)
  /\ \A op \in {"left_shift", "gcd"} : TableFor(op) = Loops(Counting, 2)
  /\ TableFor("hypot") = Loops({"Float"}, 2)
  /\ TableFor("logical_and") = LoopsTo(Bool, Any, 2)
  /\ TableFor("greater") = CompareLoops
<1>1. \A op \in {"add", "maximum", "fmax"} : TableFor(op) = Loops(Any, 2)
  BY DEF TableFor
<1>2. \A op \in {"subtract", "power"} : TableFor(op) = Loops(Numbers, 2)
  BY DEF TableFor
<1>3. TableFor("divide") = Loops(Inexact, 2)
  BY DEF TableFor
<1>4. \A op \in {"floor_divide", "fmod"} : TableFor(op) = Loops(Ordered, 2)
  BY DEF TableFor
<1>5. TableFor("bitwise_and") = Loops(Counting \union {"Bool"}, 2)
  BY DEF TableFor
<1>6. \A op \in {"left_shift", "gcd"} : TableFor(op) = Loops(Counting, 2)
  BY DEF TableFor
<1>7. TableFor("hypot") = Loops({"Float"}, 2)
  BY DEF TableFor
<1>8. TableFor("logical_and") = LoopsTo(Bool, Any, 2)
  BY DEF TableFor
<1>9. TableFor("greater") = CompareLoops
  BY DEF TableFor
<1> QED
  BY <1>1, <1>2, <1>3, <1>4, <1>5, <1>6, <1>7, <1>8, <1>9

----------------------------------------------------------------------------
(* What each ufunc gives, and what it computes in.                            *)

LEMMA NumericIsSome == ASSUME NEW d \in Numeric PROVE d # None
<1>1. None.kind = "None"
  BY DEF None, DT
<1>2. d.kind # "None"
  BY NumericShape
<1> QED
  BY <1>1, <1>2

LEMMA UnaryDtype ==
  ASSUME NEW op \in UnaryOps, NEW ins
  PROVE  OutDtype(op, ins) =
           IF op \in PlainUnary THEN UnaryOut(op, ins[1])
           ELSE IF op \in MathUnary THEN MathUnaryOut(op, ins[1])
           ELSE PureOut(op, ins[1])
<1>1. /\ op \notin PlainBinary /\ op \notin MathBinary
      /\ op # "float_power" /\ op # "ldexp"
  BY DEF UnaryOps, PlainBinary, MathBinary, PlainUnary, MathUnary, PureUnary
<1>2. CASE op \in PlainUnary
  <2>1. op \notin MathUnary /\ op \notin PureUnary
    BY <1>2 DEF PlainUnary, MathUnary, PureUnary
  <2> QED
    BY <1>1, <1>2, <2>1 DEF OutDtype
<1>3. CASE op \in MathUnary
  <2>1. op \notin PlainUnary /\ op \notin PureUnary
    BY <1>3 DEF PlainUnary, MathUnary, PureUnary
  <2> QED
    BY <1>1, <1>3, <2>1 DEF OutDtype
<1>4. CASE op \in PureUnary
  <2>1. op \notin PlainUnary /\ op \notin MathUnary
    BY <1>4 DEF PlainUnary, MathUnary, PureUnary
  <2> QED
    BY <1>1, <1>4, <2>1 DEF OutDtype
<1> QED
  BY <1>2, <1>3, <1>4 DEF UnaryOps

\* What a unary ufunc gives, operation by operation.
UnaryGives(op, a) ==
    CASE op \in {"logical_not", "isnan"}       -> Bool
      [] op \in {"negative", "sign", "positive"} -> BoolTo(a, None)
      [] op = "invert"                         -> Only({"Bool"} \union Counting, a)
      [] op = "absolute"                       -> Magnitude(a)
      [] op = "sqrt"                           -> IF IsComplex(a) THEN a ELSE FloatTier(a)
      [] op = "cbrt"                           -> IF IsComplex(a) THEN None ELSE FloatTier(a)
      [] op = "floor"                          -> IF IsComplex(a) THEN None ELSE a
      [] op = "signbit"                        -> IF IsComplex(a) THEN None ELSE Bool
      [] op \in {"square", "reciprocal", "conjugate"} -> BoolTo(a, I8)
      [] op = "bitwise_count" ->
           IF a.kind \in {"Bool"} \union Counting THEN U8 ELSE None

LEMMA UnaryGive ==
  ASSUME NEW op \in UnaryOps, NEW a, NEW ins, ins[1] = a
  PROVE  OutDtype(op, ins) = UnaryGives(op, a)
<1>1. CASE op \in PlainUnary
  <2>1. OutDtype(op, ins) = UnaryOut(op, a)
    BY <1>1, UnaryDtype
  <2>2. UnaryOut(op, a) = UnaryGives(op, a)
    BY <1>1 DEF PlainUnary, UnaryOut, UnaryGives, Magnitude
  <2> QED
    BY <2>1, <2>2
<1>2. CASE op \in MathUnary
  <2>1. OutDtype(op, ins) = MathUnaryOut(op, a)
    <3>1. op \notin PlainUnary
      BY <1>2 DEF PlainUnary, MathUnary
    <3> QED
      BY <1>2, <3>1, UnaryDtype
  <2>2. CASE IsComplex(a)
    <3>1. a # Bool
      BY <2>2 DEF IsComplex, Bool, DT
    <3>2. UnaryGives(op, a) = IF op \in {"cbrt", "signbit", "floor"} THEN None ELSE a
      BY <1>2, <2>2, <3>1 DEF MathUnary, UnaryGives, BoolTo
    <3> QED
      BY <2>1, <2>2, <3>2 DEF MathUnaryOut
  <2>3. CASE ~IsComplex(a)
    <3>1. MathUnaryOut(op, a) = UnaryGives(op, a)
      BY <1>2, <2>3 DEF MathUnary, MathUnaryOut, UnaryGives
    <3> QED
      BY <2>1, <3>1
  <2> QED
    BY <2>2, <2>3
<1>3. CASE op \in PureUnary
  <2>1. OutDtype(op, ins) = PureOut(op, a)
    <3>1. op \notin PlainUnary /\ op \notin MathUnary
      BY <1>3 DEF PlainUnary, MathUnary, PureUnary
    <3> QED
      BY <1>3, <3>1, UnaryDtype
  <2>2. PureOut(op, a) = UnaryGives(op, a)
    BY <1>3 DEF PureUnary, PureOut, UnaryGives
  <2> QED
    BY <2>1, <2>2
<1> QED
  BY <1>1, <1>2, <1>3 DEF UnaryOps

\* What a binary ufunc gives, of the promotion of its operands; hypot promotes
\* after the float.
BinaryGives(op, p) ==
    CASE op \in {"greater", "logical_and"}     -> Bool
      [] op \in {"add", "maximum", "fmax"}     -> p
      [] op = "subtract"                       -> BoolTo(p, None)
      [] op = "power"                          -> BoolTo(p, I8)
      [] op = "divide"      -> IF p.kind \in {"Bool"} \union Counting THEN F64 ELSE p
      [] op \in {"floor_divide", "fmod"}       -> Only(Ordered, BoolTo(p, I8))
      [] op = "bitwise_and"                    -> Only({"Bool"} \union Counting, p)
      [] op = "left_shift"                     -> Only(Counting, BoolTo(p, I8))
      [] op = "gcd"                            -> Only(Counting, p)

Promoting == BinaryOps \ {"hypot", "float_power", "ldexp"}

LEMMA BinaryGive ==
  ASSUME NEW op \in Promoting, NEW a, NEW b, NEW ins, ins[1] = a, ins[2] = b
  PROVE  OutDtype(op, ins) = BinaryGives(op, Promote(a, b))
<1>1. CASE op \in PlainBinary
  <2>1. OutDtype(op, ins) = BinaryOut(op, a, b)
    BY <1>1, PairDtype DEF Promoting
  <2>2. BinaryOut(op, a, b) = BinaryGives(op, Promote(a, b))
    BY <1>1 DEF PlainBinary, BinaryOut, BinaryGives
  <2> QED
    BY <2>1, <2>2
<1>2. CASE op \in MathBinary
  <2>1. OutDtype(op, ins) = MathBinaryOut(op, a, b)
    <3>1. op \notin PlainBinary
      BY <1>2 DEF PlainBinary, MathBinary
    <3> QED
      BY <1>2, <3>1, PairDtype DEF Promoting
  <2>2. op \in {"power", "fmod", "fmax", "gcd"}
    BY <1>2 DEF MathBinary, Promoting
  <2>3. MathBinaryOut(op, a, b) = BinaryGives(op, Promote(a, b))
    BY <2>2 DEF MathBinaryOut, BinaryGives
  <2> QED
    BY <2>1, <2>3
<1> QED
  BY <1>1, <1>2 DEF Promoting, BinaryOps

\* The functions that cast every operand to what they give.
Casting == {"negative", "invert", "sqrt", "cbrt", "floor", "square", "sign", "reciprocal",
            "add", "subtract", "divide", "floor_divide", "maximum", "bitwise_and",
            "left_shift", "hypot", "power", "fmod", "fmax", "gcd"}

LEMMA CastingIn ==
  ASSUME NEW op \in Casting, NEW ins, NEW out, out = OutDtype(op, ins)
  PROVE  /\ ComputedIn(op, ins) = [i \in DOMAIN ins |-> out]
         /\ CastingLoop(op, ins) = [i \in DOMAIN ins |-> out]
<1>1. ComputedIn(op, ins) = [i \in DOMAIN ins |-> out]
  <2>1. /\ op \notin {"logical_not", "logical_and"} /\ op # "greater" /\ op # "ldexp"
        /\ op \notin AsItComes
    BY DEF Casting, AsItComes
  <2> QED
    BY <2>1 DEF ComputedIn
<1>2. CastingLoop(op, ins) = [i \in DOMAIN ins |-> out]
  <2>1. /\ op \notin {"logical_not", "logical_and", "isnan", "positive",
                      "float_power", "ldexp"}
        /\ op # "absolute" /\ op # "signbit" /\ op \notin {"conjugate", "bitwise_count"}
        /\ op # "greater"
    BY DEF Casting
  <2> QED
    BY <2>1 DEF CastingLoop
<1> QED
  BY <1>1, <1>2

LEMMA CastingOperands ==
  ASSUME NEW op \in Casting, NEW n \in {1, 2}, NEW a, NEW b,
         NEW ins, ins = Operands(n, a, b), NEW out, out = OutDtype(op, ins)
  PROVE  ComputedIn(op, ins) = Alike(out, n)
<1>1. ComputedIn(op, ins) = [i \in DOMAIN ins |-> out]
  BY CastingIn
<1>2. CASE n = 1
  BY <1>1, <1>2 DEF Operands, Alike
<1>3. CASE n = 2
  BY <1>1, <1>3 DEF Operands, Alike
<1> QED
  BY <1>2, <1>3

LEMMA AsItComesIn ==
  ASSUME NEW op \in AsItComes, NEW ins
  PROVE  ComputedIn(op, ins) = ins
<1>1. op \notin {"logical_not", "logical_and"} /\ op # "greater" /\ op # "ldexp"
  BY DEF AsItComes
<1> QED
  BY <1>1 DEF ComputedIn

----------------------------------------------------------------------------
(* Every unary ufunc computes in a loop.                                      *)

LEMMA CastsToTheFirst ==
  ASSUME NEW op \in Casting, NEW kinds \in SUBSET Any, NEW n \in {1, 2},
         LoopTable[op] = Loops(kinds, n),
         NEW a \in Numeric, NEW b \in Numeric, n = 1 => a = b,
         NEW from, from = Operands(n, a, b),
         NEW t, ComesFirst(kinds, a, b, t), OutDtype(op, from) = t
  PROVE  InALoop(op, from)
<1>1. t \in Numeric /\ t.kind \in kinds
  BY DEF ComesFirst
<1>2. t # None
  BY <1>1, NumericIsSome
<1>3. PICK table : table = Loops(kinds, n)
  OBVIOUS
<1>4. TableOf(table, kinds, n) /\ table[Place(t)] = Row(Alike(t, n), t)
  BY <1>1, <1>3, LoopsAre
<1>5. ComputedIn(op, from) = Alike(t, n)
  BY CastingOperands
<1> QED
  BY <1>2, <1>3, <1>4, <1>5, GivesTheFirst

LEMMA CastsToNone ==
  ASSUME NEW op, NEW kinds \in SUBSET Any, NEW n \in {1, 2},
         LoopTable[op] = Loops(kinds, n),
         NEW a \in Numeric, NEW b \in Numeric, n = 1 => a = b,
         NEW from, from = Operands(n, a, b), OutDtype(op, from) = None,
         Holding(kinds, a, b) = {}
  PROVE  InALoop(op, from)
<1>1. PICK table : table = Loops(kinds, n)
  OBVIOUS
<1>2. TableOf(table, kinds, n)
  BY <1>1, LoopsAre
<1> QED
  BY <1>1, <1>2, RefusesAll

LEMMA RefusedBools ==
  ASSUME NEW op \in RefusesBool, NEW from, from[1] = Bool, OutDtype(op, from) = None
  PROVE  InALoop(op, from)
BY DEF InALoop

LEMMA AloneFirst ==
  ASSUME NEW kinds \in SUBSET Any, NEW a \in Numeric, a.kind \in kinds
  PROVE  ComesFirst(kinds, a, a, a)
BY PromoteFirst, PromoteNumerics

LEMMA TierFirst ==
  ASSUME NEW kinds \in {{"Float"}, Inexact}, NEW a \in Numeric, ~IsComplex(a)
  PROVE  ComesFirst(kinds, a, a, FloatTier(a))
<1>1. PICK t : t = FloatTier(a)
  OBVIOUS
<1>2. t = DT("Float", t.bits) /\ t.bits \in Nat
  BY <1>1, TierShape
<1>3. Larger(t.bits, t.bits) = t.bits
  BY <1>2 DEF Larger
<1>4. ComesFirst(kinds, a, a, DT("Float", Larger(t.bits, t.bits)))
  BY <1>1, FloatsFirst
<1> QED
  BY <1>1, <1>2, <1>3, <1>4

LEMMA KindsOfBool ==
  ASSUME NEW a \in Numeric
  PROVE  /\ a.kind \in Any
         /\ a = Bool <=> a.kind = "Bool"
         /\ a # Bool => a.kind \in Numbers
         /\ ~IsComplex(a) <=> a.kind \in Ordered \union {"Bool"}
BY NumericShape DEF Any, Numbers, Ordered, Counting, Inexact, Bool, DT, IsComplex

\* The functions of one operand that cast it to what they give.
LEMMA UnaryCastingInALoop ==
  ASSUME NEW op \in UnaryOps \cap Casting, NEW a \in Numeric, NEW from, from = <<a>>
  PROVE  InALoop(op, from)
<1>1. from = Operands(1, a, a) /\ from[1] = a
  BY DEF Operands
<1>2. OutDtype(op, from) = UnaryGives(op, a)
  BY <1>1, UnaryGive
<1>3. LoopTable[op] = TableFor(op)
  BY HasTable, TableIs
<1>4. /\ a.kind \in Any /\ (a = Bool <=> a.kind = "Bool") /\ (a # Bool => a.kind \in Numbers)
      /\ (~IsComplex(a) <=> a.kind \in Ordered \union {"Bool"})
      /\ Promote(a, a) = a
  BY KindsOfBool, PromoteNumerics
<1>5. CASE op \in {"square", "reciprocal"}
  <2>1. LoopTable[op] = Loops(Numbers, 1) /\ Numbers \in SUBSET Any
    BY <1>3, <1>5, UnaryTables DEF Any
  <2>2. OutDtype(op, from) = BoolTo(a, I8)
    BY <1>2, <1>5 DEF UnaryGives
  <2>3. CASE a = Bool
    <3>1. ComesFirst(Numbers, a, a, I8)
      BY <2>1, <2>3, BoolsFirst DEF Numbers, Counting, Inexact
    <3> QED  BY <1>1, <2>1, <2>2, <2>3, <3>1, CastsToTheFirst DEF BoolTo
  <2>4. CASE a # Bool
    <3>1. ComesFirst(Numbers, a, a, a)
      BY <1>4, <2>1, <2>4, AloneFirst
    <3> QED  BY <1>1, <2>1, <2>2, <2>4, <3>1, CastsToTheFirst DEF BoolTo
  <2> QED  BY <2>3, <2>4
<1>6. CASE op \in {"negative", "sign"}
  <2>1. LoopTable[op] = Loops(Numbers, 1) /\ Numbers \in SUBSET Any
    BY <1>3, <1>6, UnaryTables DEF Any
  <2>2. OutDtype(op, from) = BoolTo(a, None)
    BY <1>2, <1>6 DEF UnaryGives
  <2>3. CASE a = Bool
    <3>1. op \in RefusesBool /\ OutDtype(op, from) = None
      BY <1>6, <2>2, <2>3 DEF RefusesBool, BoolTo
    <3> QED  BY <1>1, <2>3, <3>1, RefusedBools
  <2>4. CASE a # Bool
    <3>1. ComesFirst(Numbers, a, a, a)
      BY <1>4, <2>1, <2>4, AloneFirst
    <3> QED  BY <1>1, <2>1, <2>2, <2>4, <3>1, CastsToTheFirst DEF BoolTo
  <2> QED  BY <2>3, <2>4
<1>7. CASE op = "invert"
  <2>1. PICK kinds \in SUBSET Any : kinds = Counting \union {"Bool"}
    BY DEF Any, Numbers
  <2>2. LoopTable[op] = Loops(kinds, 1)
    BY <1>3, <1>7, <2>1, UnaryTables
  <2>3. OutDtype(op, from) = IF a.kind \in kinds THEN a ELSE None
    BY <1>2, <1>7, <2>1 DEF UnaryGives, Only
  <2>4. CASE a.kind \in kinds
    <3>1. ComesFirst(kinds, a, a, a)
      BY <2>4, AloneFirst
    <3> QED  BY <1>1, <2>2, <2>3, <2>4, <3>1, CastsToTheFirst
  <2>5. CASE a.kind \notin kinds
    <3>1. Holding(kinds, a, a) = {}
      BY <1>4, <2>1, <2>5, NothingHolds DEF Any, Numbers
    <3> QED  BY <1>1, <2>2, <2>3, <2>5, <3>1, CastsToNone
  <2> QED  BY <2>4, <2>5
<1>8. CASE op = "sqrt"
  <2>1. LoopTable[op] = Loops(Inexact, 1) /\ Inexact \in SUBSET Any
    BY <1>3, <1>8, UnaryTables DEF Any, Numbers
  <2>2. OutDtype(op, from) = IF IsComplex(a) THEN a ELSE FloatTier(a)
    BY <1>2, <1>8 DEF UnaryGives
  <2>3. CASE IsComplex(a)
    <3>1. ComesFirst(Inexact, a, a, a)
      BY <2>1, <2>3, AloneFirst DEF IsComplex, Inexact
    <3> QED  BY <1>1, <2>1, <2>2, <2>3, <3>1, CastsToTheFirst
  <2>4. CASE ~IsComplex(a)
    <3>1. ComesFirst(Inexact, a, a, FloatTier(a))
      BY <2>4, TierFirst
    <3> QED  BY <1>1, <2>1, <2>2, <2>4, <3>1, CastsToTheFirst
  <2> QED  BY <2>3, <2>4
<1>9. CASE op = "cbrt"
  <2>1. LoopTable[op] = Loops({"Float"}, 1) /\ {"Float"} \in SUBSET Any
    BY <1>3, <1>9, UnaryTables DEF Any, Numbers, Inexact
  <2>2. OutDtype(op, from) = IF IsComplex(a) THEN None ELSE FloatTier(a)
    BY <1>2, <1>9 DEF UnaryGives
  <2>3. CASE IsComplex(a)
    <3>1. Holding({"Float"}, a, a) = {}
      BY <1>4, <2>1, <2>3, NothingHolds
    <3> QED  BY <1>1, <2>1, <2>2, <2>3, <3>1, CastsToNone
  <2>4. CASE ~IsComplex(a)
    <3>1. ComesFirst({"Float"}, a, a, FloatTier(a))
      BY <2>4, TierFirst
    <3> QED  BY <1>1, <2>1, <2>2, <2>4, <3>1, CastsToTheFirst
  <2> QED  BY <2>3, <2>4
<1>10. CASE op = "floor"
  <2>1. PICK kinds \in SUBSET Any : kinds = Ordered \union {"Bool"}
    BY DEF Any, Numbers, Ordered, Inexact
  <2>2. LoopTable[op] = Loops(kinds, 1)
    BY <1>3, <1>10, <2>1, UnaryTables
  <2>3. OutDtype(op, from) = IF IsComplex(a) THEN None ELSE a
    BY <1>2, <1>10 DEF UnaryGives
  <2>4. CASE IsComplex(a)
    <3>1. "Complex" \notin kinds
      BY <2>1 DEF Ordered, Counting
    <3>2. Holding(kinds, a, a) = {}
      BY <1>4, <2>4, <3>1, NothingHolds
    <3> QED  BY <1>1, <2>2, <2>3, <2>4, <3>2, CastsToNone
  <2>5. CASE ~IsComplex(a)
    <3>1. ComesFirst(kinds, a, a, a)
      BY <1>4, <2>1, <2>5, AloneFirst
    <3> QED  BY <1>1, <2>2, <2>3, <2>5, <3>1, CastsToTheFirst
  <2> QED  BY <2>4, <2>5
<1> QED
  BY <1>5, <1>6, <1>7, <1>8, <1>9, <1>10
  DEF Casting, UnaryOps, PlainUnary, MathUnary, PureUnary

\* The functions of one operand that take it as it comes.
LEMMA ComingToTheFirst ==
  ASSUME NEW op \in AsItComes, NEW kinds \in SUBSET Any,
         TableOf(LoopTable[op], kinds, 1),
         NEW a \in Numeric, NEW from, from = <<a>>, a.kind \in kinds,
         NEW out, out = OutDtype(op, from), out # None,
         LoopTable[op][Place(a)] = Row(Alike(a, 1), out)
  PROVE  InALoop(op, from)
<1>1. from = Operands(1, a, a)
  BY DEF Operands
<1>2. ComputedIn(op, from) = Alike(a, 1)
  BY AsItComesIn DEF Alike
<1>3. ComesFirst(kinds, a, a, a)
  BY AloneFirst
<1> QED
  BY <1>1, <1>2, <1>3, GivesTheFirst

\* The functions that go over the operand itself, or its truth.
LEMMA NativeToTheFirst ==
  ASSUME NEW op, NEW kinds \in SUBSET Any, TableOf(LoopTable[op], kinds, 1),
         NEW a \in Numeric, NEW from, from = <<a>>, Native(op, from),
         NEW t, ComesFirst(kinds, a, a, t),
         NEW out, out = OutDtype(op, from), out # None,
         LoopTable[op][Place(t)] = Row(Alike(t, 1), out)
  PROVE  InALoop(op, from)
<1>1. from = Operands(1, a, a)
  BY DEF Operands
<1> QED
  BY <1>1, GivesTheFirst

LEMMA UnaryPlainInALoop ==
  ASSUME NEW op \in UnaryOps \ Casting, NEW a \in Numeric, NEW from, from = <<a>>
  PROVE  InALoop(op, from)
<1>1. from = Operands(1, a, a) /\ from[1] = a
  BY DEF Operands
<1>2. OutDtype(op, from) = UnaryGives(op, a)
  BY <1>1, UnaryGive
<1>3. LoopTable[op] = TableFor(op)
  BY HasTable, TableIs
<1>4. /\ a.kind \in Any /\ (a = Bool <=> a.kind = "Bool") /\ (a # Bool => a.kind \in Numbers)
      /\ (~IsComplex(a) <=> a.kind \in Ordered \union {"Bool"})
      /\ Promote(a, a) = a /\ a # None
  BY KindsOfBool, PromoteNumerics, NumericIsSome
<1>5. Bool \in Numeric /\ U8 \in Numeric /\ I8 \in Numeric
  BY NumericFromShape DEF Bool, U8, I8
<1>6. Bool # None /\ U8 # None /\ I8 # None
  BY <1>5, NumericIsSome
<1>7. CASE op = "absolute"
  <2>1. TableOf(LoopTable[op], Any, 1) /\ LoopTable[op][Place(a)] = Row(Alike(a, 1), Magnitude(a))
    BY <1>3, <1>7, UnaryTables, AbsoluteLoopsAre
  <2>2. OutDtype(op, from) = Magnitude(a)
    BY <1>2, <1>7 DEF UnaryGives
  <2>3. Magnitude(a) # None
    BY <1>4 DEF Magnitude, None, DT
  <2>4. op \in AsItComes /\ Any \in SUBSET Any
    BY <1>7 DEF AsItComes
  <2> QED
    BY <1>4, <2>1, <2>2, <2>3, <2>4, ComingToTheFirst
<1>8. CASE op = "isnan"
  <2>1. LoopTable[op] = LoopsTo(Bool, Any, 1) /\ Any \in SUBSET Any
    BY <1>3, <1>8, UnaryTables
  <2>2. TableOf(LoopTable[op], Any, 1) /\ LoopTable[op][Place(a)] = Row(Alike(a, 1), Bool)
    BY <1>4, <2>1, LoopsToAre
  <2>3. OutDtype(op, from) = Bool
    BY <1>2, <1>8 DEF UnaryGives
  <2>4. op \in AsItComes
    BY <1>8 DEF AsItComes
  <2> QED
    BY <1>4, <1>6, <2>1, <2>2, <2>3, <2>4, ComingToTheFirst
<1>9. CASE op \in {"positive", "conjugate"} /\ a # Bool
  <2>1. LoopTable[op] = Loops(Numbers, 1) /\ Numbers \in SUBSET Any
    BY <1>3, <1>9, UnaryTables DEF Any
  <2>2. TableOf(LoopTable[op], Numbers, 1) /\ LoopTable[op][Place(a)] = Row(Alike(a, 1), a)
    BY <1>4, <1>9, <2>1, LoopsAre
  <2>3. OutDtype(op, from) = a
    BY <1>2, <1>9 DEF UnaryGives, BoolTo
  <2>4. op \in AsItComes
    BY <1>9 DEF AsItComes
  <2> QED
    BY <1>4, <1>9, <2>1, <2>2, <2>3, <2>4, ComingToTheFirst
<1>10. CASE op = "positive" /\ a = Bool
  <2>1. OutDtype(op, from) = None
    BY <1>2, <1>10 DEF UnaryGives, BoolTo
  <2> QED
    BY <1>1, <1>10, <2>1, RefusedBools DEF RefusesBool
<1>11. CASE op = "conjugate" /\ a = Bool
  <2>1. LoopTable[op] = Loops(Numbers, 1) /\ Numbers \in SUBSET Any
    BY <1>3, <1>11, UnaryTables DEF Any
  <2>2. ComesFirst(Numbers, a, a, I8)
    BY <1>11, <2>1, BoolsFirst DEF Numbers, Counting, Inexact
  <2>3. TableOf(LoopTable[op], Numbers, 1) /\ LoopTable[op][Place(I8)] = Row(Alike(I8, 1), I8)
    <3>1. I8.kind \in Numbers
      BY <2>2 DEF ComesFirst
    <3> QED  BY <1>5, <2>1, <3>1, LoopsAre
  <2>4. OutDtype(op, from) = I8
    BY <1>2, <1>11 DEF UnaryGives, BoolTo
  <2>5. Native(op, from)
    BY <1>1, <1>11 DEF Native
  <2> QED
    BY <1>6, <2>1, <2>2, <2>3, <2>4, <2>5, NativeToTheFirst
<1>12. CASE op = "bitwise_count"
  <2>1. LoopTable[op] = LoopsTo(U8, Counting, 1) /\ Counting \in SUBSET Any
    BY <1>3, <1>12, UnaryTables DEF Any, Numbers
  <2>2. OutDtype(op, from) = IF a.kind \in {"Bool"} \union Counting THEN U8 ELSE None
    BY <1>2, <1>12 DEF UnaryGives
  <2>3. TableOf(LoopTable[op], Counting, 1)
    BY <2>1, LoopsToAre
  <2>4. CASE a = Bool
    <3>1. ComesFirst(Counting, a, a, I8)
      BY <2>1, <2>4, BoolsFirst DEF Counting
    <3>2. LoopTable[op][Place(I8)] = Row(Alike(I8, 1), U8)
      <4>1. I8.kind \in Counting
        BY <3>1 DEF ComesFirst
      <4> QED  BY <1>5, <2>1, <4>1, LoopsToAre
    <3>3. Native(op, from) /\ OutDtype(op, from) = U8
      BY <1>1, <1>4, <1>12, <2>2, <2>4 DEF Native
    <3> QED
      BY <1>6, <2>1, <2>3, <3>1, <3>2, <3>3, NativeToTheFirst
  <2>5. CASE a.kind \in Counting
    <3>1. LoopTable[op][Place(a)] = Row(Alike(a, 1), U8)
      BY <2>1, <2>5, LoopsToAre
    <3>2. op \in AsItComes /\ OutDtype(op, from) = U8
      BY <1>12, <2>2, <2>5 DEF AsItComes
    <3> QED
      BY <1>6, <2>1, <2>3, <2>5, <3>1, <3>2, ComingToTheFirst
  <2>6. CASE a # Bool /\ a.kind \notin Counting
    <3>1. a.kind \in Inexact
      BY <1>4, <2>6 DEF Any, Numbers
    <3>2. Holding(Counting, a, a) = {}
      BY <1>4, <2>1, <3>1, NothingHolds
    <3>3. OutDtype(op, from) = None
      BY <1>4, <2>2, <2>6
    <3> QED
      BY <1>1, <2>1, <2>3, <3>2, <3>3, RefusesAll
  <2> QED  BY <2>4, <2>5, <2>6
<1>13. CASE op = "signbit"
  <2>1. LoopTable[op] = LoopsTo(Bool, {"Float"}, 1) /\ {"Float"} \in SUBSET Any
    BY <1>3, <1>13, UnaryTables DEF Any, Numbers, Inexact
  <2>2. OutDtype(op, from) = IF IsComplex(a) THEN None ELSE Bool
    BY <1>2, <1>13 DEF UnaryGives
  <2>3. TableOf(LoopTable[op], {"Float"}, 1)
    BY <2>1, LoopsToAre
  <2>4. CASE IsComplex(a)
    <3>1. Holding({"Float"}, a, a) = {}
      BY <1>4, <2>1, <2>4, NothingHolds
    <3> QED  BY <1>1, <2>1, <2>2, <2>3, <2>4, <3>1, RefusesAll
  <2>5. CASE ~IsComplex(a)
    <3>1. PICK t : t = FloatTier(a) /\ ComesFirst({"Float"}, a, a, t)
      BY <2>5, TierFirst
    <3>2. t \in Numeric /\ t.kind \in {"Float"}
      BY <3>1 DEF ComesFirst
    <3>3. LoopTable[op][Place(t)] = Row(Alike(t, 1), Bool)
      BY <2>1, <3>2, LoopsToAre
    <3>4. Native(op, from)
      BY <1>13 DEF Native
    <3> QED
      BY <1>6, <2>1, <2>2, <2>3, <2>5, <3>1, <3>3, <3>4, NativeToTheFirst
  <2> QED  BY <2>4, <2>5
<1>14. CASE op = "logical_not"
  <2>1. LoopTable[op] = LoopsTo(Bool, Any, 1) /\ Any \in SUBSET Any
    BY <1>3, <1>14, UnaryTables
  <2>2. TableOf(LoopTable[op], Any, 1) /\ LoopTable[op][Place(a)] = Row(Alike(a, 1), Bool)
    BY <1>4, <2>1, LoopsToAre
  <2>3. OutDtype(op, from) = Bool
    BY <1>2, <1>14 DEF UnaryGives
  <2>4. ComesFirst(Any, a, a, a)
    BY <1>4, AloneFirst
  <2>5. Native(op, from)
    BY <1>14 DEF Native
  <2> QED
    BY <1>6, <2>1, <2>2, <2>3, <2>4, <2>5, NativeToTheFirst
<1>15. op \in {"absolute", "isnan", "positive", "conjugate", "bitwise_count", "signbit",
               "logical_not"}
  BY DEF Casting, UnaryOps, PlainUnary, MathUnary, PureUnary
<1> QED
  BY <1>7, <1>8, <1>9, <1>10, <1>11, <1>12, <1>13, <1>14, <1>15

----------------------------------------------------------------------------
(* Every binary ufunc computes in a loop.                                     *)

LEMMA BoolsPromote ==
  ASSUME NEW a \in Numeric, NEW b \in Numeric, NEW p, p = Promote(a, b)
  PROVE  /\ p \in Numeric /\ p # None
         /\ p.kind \in Any /\ (p = Bool <=> p.kind = "Bool")
         /\ p # Bool => p.kind \in Numbers
         /\ ~IsComplex(p) <=> p.kind \in Ordered \union {"Bool"}
         /\ p = Bool => a = Bool /\ b = Bool
         /\ p.kind \in {"Bool"} \union Counting =>
              a.kind \in {"Bool"} \union Counting /\ b.kind \in {"Bool"} \union Counting
         /\ IsComplex(p) <=> IsComplex(a) \/ IsComplex(b)
<1>1. p \in Numeric /\ p # None /\ (IsComplex(p) <=> IsComplex(a) \/ IsComplex(b))
  BY PromoteNumerics, NumericIsSome
<1>2. /\ p.kind \in Any /\ (p = Bool <=> p.kind = "Bool") /\ (p # Bool => p.kind \in Numbers)
      /\ (~IsComplex(p) <=> p.kind \in Ordered \union {"Bool"})
  BY <1>1, KindsOfBool
<1>3. SafeNumeric(a, p) /\ SafeNumeric(b, p)
  <2>1. ComesFirst(Any, a, b, Promote(a, b))
    BY <1>2, PromoteFirst
  <2> QED
    BY <2>1 DEF ComesFirst
<1>4. ASSUME NEW d \in Numeric, SafeNumeric(d, p)
      PROVE  /\ p = Bool => d = Bool
             /\ p.kind \in {"Bool"} \union Counting => d.kind \in {"Bool"} \union Counting
  <2>1. p.kind = "Bool" => d.kind = "Bool"
    BY <1>4 DEF SafeNumeric, IsInteger
  <2>2. p.kind \in {"Bool", "Int", "UInt"} => d.kind \in {"Bool", "Int", "UInt"}
    BY <1>4 DEF SafeNumeric, IsInteger
  <2> QED
    BY <1>2, <2>1, <2>2, KindsOfBool DEF Counting
<1> QED
  BY <1>1, <1>2, <1>3, <1>4

LEMMA PairCastingInALoop ==
  ASSUME NEW op \in (BinaryOps \cap Casting) \ {"hypot"},
         NEW a \in Numeric, NEW b \in Numeric, NEW from, from = <<a, b>>
  PROVE  InALoop(op, from)
<1>1. from = Operands(2, a, b) /\ from[1] = a /\ from[2] = b
  BY DEF Operands
<1>2. PICK p : p = Promote(a, b)
  OBVIOUS
<1>3. OutDtype(op, from) = BinaryGives(op, p)
  <2>1. op \in Promoting
    BY DEF Promoting, Casting
  <2> QED
    BY <1>1, <1>2, <2>1, BinaryGive
<1>4. LoopTable[op] = TableFor(op)
  <2>1. op \in DOMAIN LoopTable
    BY HasTable DEF Ops, Casting
  <2> QED
    BY <2>1, TableIs
<1>5. /\ p \in Numeric /\ p # None
      /\ p.kind \in Any /\ (p = Bool <=> p.kind = "Bool")
      /\ p # Bool => p.kind \in Numbers
      /\ ~IsComplex(p) <=> p.kind \in Ordered \union {"Bool"}
      /\ p = Bool => a = Bool /\ b = Bool
      /\ p.kind \in {"Bool"} \union Counting =>
           a.kind \in {"Bool"} \union Counting /\ b.kind \in {"Bool"} \union Counting
  BY <1>2, BoolsPromote
<1>6. ASSUME NEW kinds \in SUBSET Any, p.kind \in kinds PROVE ComesFirst(kinds, a, b, p)
  BY <1>2, <1>6, PromoteFirst
<1>7. ASSUME NEW kinds \in SUBSET Any, p = Bool, "Int" \in kinds, "Bool" \notin kinds
      PROVE  ComesFirst(kinds, a, b, I8)
  BY <1>5, <1>7, BoolsFirst
<1>8. ASSUME NEW kinds \in SUBSET Any,
             \/ p.kind \in Inexact /\ kinds \subseteq Counting \union {"Bool"}
             \/ IsComplex(p) /\ "Complex" \notin kinds
      PROVE  Holding(kinds, a, b) = {}
  BY <1>2, <1>8, NothingHolds
<1>9. CASE op \in {"add", "maximum", "fmax"}
  <2>1. LoopTable[op] = Loops(Any, 2) /\ Any \in SUBSET Any
    BY <1>4, <1>9, BinaryTables
  <2>2. OutDtype(op, from) = p
    BY <1>3, <1>9 DEF BinaryGives
  <2>3. ComesFirst(Any, a, b, p)
    BY <1>5, <1>6, <2>1
  <2> QED
    BY <1>1, <2>1, <2>2, <2>3, CastsToTheFirst
<1>10. CASE op \in {"subtract", "power"}
  <2>1. LoopTable[op] = Loops(Numbers, 2) /\ Numbers \in SUBSET Any
    BY <1>4, <1>10, BinaryTables DEF Any
  <2>2. CASE p # Bool
    <3>1. OutDtype(op, from) = p
      BY <1>3, <1>10, <2>2 DEF BinaryGives, BoolTo
    <3>2. ComesFirst(Numbers, a, b, p)
      BY <1>5, <1>6, <2>1, <2>2
    <3> QED  BY <1>1, <2>1, <3>1, <3>2, CastsToTheFirst
  <2>3. CASE p = Bool /\ op = "subtract"
    <3>1. op \in RefusesBool /\ OutDtype(op, from) = None
      BY <1>3, <2>3 DEF BinaryGives, BoolTo, RefusesBool
    <3> QED  BY <1>1, <1>5, <2>3, <3>1, RefusedBools
  <2>4. CASE p = Bool /\ op = "power"
    <3>1. OutDtype(op, from) = I8
      BY <1>3, <2>4 DEF BinaryGives, BoolTo
    <3>2. ComesFirst(Numbers, a, b, I8)
      BY <1>7, <2>1, <2>4 DEF Numbers, Counting, Inexact
    <3> QED  BY <1>1, <2>1, <3>1, <3>2, CastsToTheFirst
  <2> QED  BY <1>10, <2>2, <2>3, <2>4
<1>11. CASE op = "divide"
  <2>1. LoopTable[op] = Loops(Inexact, 2) /\ Inexact \in SUBSET Any
    BY <1>4, <1>11, BinaryTables DEF Any, Numbers
  <2>2. OutDtype(op, from) = IF p.kind \in {"Bool"} \union Counting THEN F64 ELSE p
    BY <1>3, <1>11 DEF BinaryGives
  <2>3. CASE p.kind \in Inexact
    <3>1. OutDtype(op, from) = p
      BY <2>2, <2>3 DEF Inexact, Counting
    <3>2. ComesFirst(Inexact, a, b, p)
      BY <1>6, <2>1, <2>3
    <3> QED  BY <1>1, <2>1, <3>1, <3>2, CastsToTheFirst
  <2>4. CASE p.kind \in {"Bool"} \union Counting
    <3>1. OutDtype(op, from) = F64
      BY <2>2, <2>4
    <3>2. F64 \in Numeric /\ F64 # None /\ F64.kind = "Float" /\ F64.bits = 64
      BY NumericFromShape, NumericIsSome DEF F64, DT
    <3>3. ASSUME NEW d \in Numeric, d.kind \in {"Bool"} \union Counting
          PROVE  SafeNumeric(d, F64)
      BY <3>2, <3>3 DEF SafeNumeric, IsInteger, Counting, IntEquivFloatBits
    <3>4. SafeNumeric(a, F64) /\ SafeNumeric(b, F64)
      BY <1>5, <2>4, <3>3
    <3>5. Place(F64) \in 1..16 /\ LoopOrder[Place(F64)] = F64
      BY <3>2, LoopAtPlace
    <3>6. Place(F64) \in Holding(Inexact, a, b)
      BY <3>2, <3>4, <3>5 DEF Holding, Places, Inexact
    <3>7. PICK table : table = LoopTable[op]
      OBVIOUS
    <3>8. TableOf(table, Inexact, 2) /\ table[Place(F64)] = Row(Alike(F64, 2), F64)
      BY <2>1, <3>2, <3>7, LoopsAre DEF Inexact
    <3>9. SafeIn(table, from) = Holding(Inexact, a, b)
      BY <1>1, <2>1, <3>8, SafeInIs
    <3>10. ComputedIn(op, from) = Alike(F64, 2)
      BY <1>1, <3>1, CastingOperands
    <3>11. \E i \in SafeIn(table, from) : table[i] = Row(ComputedIn(op, from), F64)
      BY <3>6, <3>8, <3>9, <3>10
    <3> QED  BY <1>11, <3>1, <3>2, <3>7, <3>11 DEF InALoop
  <2> QED  BY <1>5, <2>3, <2>4 DEF Any, Numbers
<1>12. CASE op \in {"floor_divide", "fmod"}
  <2>1. LoopTable[op] = Loops(Ordered, 2) /\ Ordered \in SUBSET Any
    BY <1>4, <1>12, BinaryTables DEF Any, Numbers, Ordered, Inexact
  <2>2. OutDtype(op, from) = Only(Ordered, BoolTo(p, I8))
    BY <1>3, <1>12 DEF BinaryGives
  <2>3. CASE p = Bool
    <3>1. OutDtype(op, from) = I8
      BY <2>2, <2>3 DEF Only, BoolTo, I8, DT, Ordered, Counting
    <3>2. ComesFirst(Ordered, a, b, I8)
      BY <1>7, <2>1, <2>3 DEF Ordered, Counting
    <3> QED  BY <1>1, <2>1, <3>1, <3>2, CastsToTheFirst
  <2>4. CASE p # Bool /\ ~IsComplex(p)
    <3>1. p.kind \in Ordered
      BY <1>5, <2>4
    <3>2. OutDtype(op, from) = p
      BY <2>2, <2>4, <3>1 DEF Only, BoolTo
    <3> QED  BY <1>1, <1>6, <2>1, <3>1, <3>2, CastsToTheFirst
  <2>5. CASE IsComplex(p)
    <3>1. p.kind \notin Ordered /\ p # Bool /\ "Complex" \notin Ordered
      BY <1>5, <2>5 DEF Ordered, Counting, IsComplex
    <3>2. OutDtype(op, from) = None
      BY <2>2, <3>1 DEF Only, BoolTo
    <3>3. Holding(Ordered, a, b) = {}
      BY <1>8, <2>1, <2>5, <3>1
    <3> QED  BY <1>1, <2>1, <3>2, <3>3, CastsToNone
  <2> QED  BY <2>3, <2>4, <2>5
<1>13. CASE op = "bitwise_and"
  <2>1. PICK kinds \in SUBSET Any : kinds = Counting \union {"Bool"}
    BY DEF Any, Numbers
  <2>2. LoopTable[op] = Loops(kinds, 2)
    BY <1>4, <1>13, <2>1, BinaryTables
  <2>3. OutDtype(op, from) = IF p.kind \in kinds THEN p ELSE None
    BY <1>3, <1>13, <2>1 DEF BinaryGives, Only
  <2>4. CASE p.kind \in kinds
    BY <1>1, <1>6, <2>2, <2>3, <2>4, CastsToTheFirst
  <2>5. CASE p.kind \notin kinds
    <3>1. Holding(kinds, a, b) = {}
      BY <1>5, <1>8, <2>1, <2>5 DEF Any, Numbers
    <3> QED  BY <1>1, <2>2, <2>3, <2>5, <3>1, CastsToNone
  <2> QED  BY <2>4, <2>5
<1>14. CASE op \in {"left_shift", "gcd"}
  <2>1. LoopTable[op] = Loops(Counting, 2) /\ Counting \in SUBSET Any
    BY <1>4, <1>14, BinaryTables DEF Any, Numbers
  <2>2. CASE p.kind \in Counting
    <3>1. p # Bool
      BY <1>5, <2>2 DEF Counting
    <3>2. OutDtype(op, from) = p
      BY <1>3, <1>14, <2>2, <3>1 DEF BinaryGives, Only, BoolTo
    <3> QED  BY <1>1, <1>6, <2>1, <2>2, <3>2, CastsToTheFirst
  <2>3. CASE p.kind \in Inexact
    <3>1. p # Bool /\ p.kind \notin Counting
      BY <1>5, <2>3 DEF Inexact, Counting
    <3>2. OutDtype(op, from) = None
      BY <1>3, <1>14, <3>1 DEF BinaryGives, Only, BoolTo
    <3>3. Holding(Counting, a, b) = {}
      BY <1>8, <2>1, <2>3
    <3> QED  BY <1>1, <2>1, <3>2, <3>3, CastsToNone
  <2>4. CASE p = Bool /\ op = "left_shift"
    <3>1. OutDtype(op, from) = I8
      BY <1>3, <2>4 DEF BinaryGives, Only, BoolTo, I8, DT, Counting
    <3>2. ComesFirst(Counting, a, b, I8)
      BY <1>7, <2>1, <2>4 DEF Counting
    <3> QED  BY <1>1, <2>1, <3>1, <3>2, CastsToTheFirst
  <2>5. CASE p = Bool /\ op = "gcd"
    <3>1. p.kind \notin Counting
      BY <1>5, <2>5 DEF Counting
    <3>2. op \in RefusesBool /\ OutDtype(op, from) = None
      BY <1>3, <2>5, <3>1 DEF BinaryGives, Only, RefusesBool
    <3> QED  BY <1>1, <1>5, <2>5, <3>2, RefusedBools
  <2> QED  BY <1>5, <1>14, <2>2, <2>3, <2>4, <2>5 DEF Any, Numbers
<1> QED
  BY <1>9, <1>10, <1>11, <1>12, <1>13, <1>14
  DEF Casting, BinaryOps, PlainBinary, MathBinary

LEMMA HypotInALoop ==
  ASSUME NEW a \in Numeric, NEW b \in Numeric, NEW from, from = <<a, b>>
  PROVE  InALoop("hypot", from)
<1>1. from = Operands(2, a, b)
  BY DEF Operands
<1>2. PICK op : op = "hypot"
  OBVIOUS
<1>3. LoopTable[op] = Loops({"Float"}, 2) /\ {"Float"} \in SUBSET Any
  <2>1. op \in DOMAIN LoopTable
    BY <1>2, HasTable DEF Ops, BinaryOps, MathBinary
  <2>2. LoopTable[op] = TableFor(op)
    BY <2>1, TableIs
  <2> QED
    BY <1>2, <2>2, BinaryTables DEF Any, Numbers, Inexact
<1>4. op \in Casting
  BY <1>2 DEF Casting
<1>5. CASE IsComplex(Promote(a, b))
  <2>1. OutDtype(op, from) = None
    BY <1>2, <1>5, HypotDtype
  <2>2. Holding({"Float"}, a, b) = {}
    BY <1>3, <1>5, NothingHolds
  <2>3. InALoop(op, from)
    BY <1>1, <1>3, <2>1, <2>2, CastsToNone
  <2> QED
    BY <1>2, <2>3
<1>6. CASE ~IsComplex(Promote(a, b))
  <2>1. PICK t : t = DT("Float", Larger(FloatTier(a).bits, FloatTier(b).bits))
    OBVIOUS
  <2>2. OutDtype(op, from) = t
    BY <1>2, <1>6, <2>1, HypotDtype
  <2>3. ~IsComplex(a) /\ ~IsComplex(b)
    BY <1>6, PromoteNumerics
  <2>4. ComesFirst({"Float"}, a, b, t)
    BY <2>1, <2>3, FloatsFirst
  <2> QED
    BY <1>1, <1>2, <1>3, <1>4, <2>2, <2>4, CastsToTheFirst
<1> QED
  BY <1>5, <1>6

LEMMA LogicalInALoop ==
  ASSUME NEW a \in Numeric, NEW b \in Numeric, NEW from, from = <<a, b>>
  PROVE  InALoop("logical_and", from)
<1>1. from = Operands(2, a, b) /\ from[1] = a /\ from[2] = b
  BY DEF Operands
<1>2. PICK op : op = "logical_and"
  OBVIOUS
<1>3. LoopTable[op] = LoopsTo(Bool, Any, 2)
  <2>1. op \in DOMAIN LoopTable
    BY <1>2, HasTable DEF Ops, BinaryOps, PlainBinary
  <2>2. LoopTable[op] = TableFor(op)
    BY <2>1, TableIs
  <2> QED
    BY <1>2, <2>2, BinaryTables
<1>4. PICK p : p = Promote(a, b)
  OBVIOUS
<1>5. OutDtype(op, from) = Bool
  <2>1. op \in Promoting
    BY <1>2 DEF Promoting, BinaryOps, PlainBinary
  <2>2. OutDtype(op, from) = BinaryGives(op, p)
    BY <1>1, <1>4, <2>1, BinaryGive
  <2> QED
    BY <1>2, <2>2 DEF BinaryGives
<1>6. p \in Numeric /\ p.kind \in Any
  BY <1>4, BoolsPromote
<1>7. ComesFirst(Any, a, b, p)
  BY <1>4, <1>6, PromoteFirst
<1>8. TableOf(LoopTable[op], Any, 2) /\ LoopTable[op][Place(p)] = Row(Alike(p, 2), Bool)
  BY <1>3, <1>6, LoopsToAre
<1>9. Native(op, from) /\ Bool # None
  BY <1>2, NumericFromShape, NumericIsSome DEF Native, Bool
<1> QED
  BY <1>1, <1>2, <1>5, <1>7, <1>8, <1>9, GivesTheFirst

LEMMA LeastOf ==
  ASSUME NEW T \in SUBSET (1..16), T # {}
  PROVE  Min(T) \in T
<1>1. T \in SUBSET Nat
  OBVIOUS
<1>2. PICK m \in T : \A x \in T : <<x, m>> \notin OpToRel(<, Nat)
  BY <1>1, WFMin, NatLessThanWellFounded
<1>3. \A x \in T : m <= x
  <2> TAKE x \in T
  <2>1. ~(x < m)
    BY <1>1, <1>2, Zenon DEF OpToRel
  <2> QED  BY <1>1, <2>1
<1> QED
  BY <1>3 DEF Min

LEMMA CompareRows ==
  /\ DOMAIN CompareLoops = 1..16
  /\ \A i \in 1..16 : CompareLoops[i].out = Bool
  /\ \A i \in 1..16 \ {10, 11} : CompareLoops[i] = Row(Alike(LoopOrder[i], 2), Bool)
  /\ CompareLoops[10] = Row(<<I64, U64>>, Bool) /\ CompareLoops[11] = Row(<<U64, I64>>, Bool)
<1>1. \A i \in 1..16 : CompareLoops[i] =
        Row(CASE i = 10 -> <<I64, U64>> [] i = 11 -> <<U64, I64>>
              [] OTHER -> Alike(LoopOrder[i], 2), Bool)
  BY DEF CompareLoops
<1>2. \A ins : Row(ins, Bool).out = Bool
  BY DEF Row
<1>3. DOMAIN CompareLoops = 1..16
  BY DEF CompareLoops
<1>4. \A i \in 1..16 \ {10, 11} : CompareLoops[i] = Row(Alike(LoopOrder[i], 2), Bool)
  BY <1>1
<1>5. CompareLoops[10] = Row(<<I64, U64>>, Bool) /\ CompareLoops[11] = Row(<<U64, I64>>, Bool)
  BY <1>1
<1> QED
  BY <1>1, <1>2, <1>3, <1>4, <1>5

LEMMA GreaterIn ==
  ASSUME NEW a, NEW b, NEW ins, ins[1] = a, ins[2] = b
  PROVE  ComputedIn("greater", ins) = <<Promote(a, b), Promote(a, b)>>
<1>1. "greater" \notin {"logical_not", "logical_and"} /\ "greater" \notin AsItComes
  BY DEF AsItComes
<1>2. ComputedIn("greater", ins) = [i \in 1..2 |-> Promote(ins[1], ins[2])]
  BY <1>1 DEF ComputedIn
<1> QED
  BY <1>2

LEMMA GreaterInALoop ==
  ASSUME NEW a \in Numeric, NEW b \in Numeric, NEW from, from = <<a, b>>
  PROVE  InALoop("greater", from)
<1>1. from[1] = a /\ from[2] = b /\ DOMAIN from = {1, 2}
  OBVIOUS
<1>2. PICK op : op = "greater"
  OBVIOUS
<1>3. LoopTable[op] = CompareLoops
  <2>1. op \in DOMAIN LoopTable
    BY <1>2, HasTable DEF Ops, BinaryOps, PlainBinary
  <2>2. LoopTable[op] = TableFor(op)
    BY <2>1, TableIs
  <2> QED
    BY <1>2, <2>2, BinaryTables
<1>4. PICK p : p = Promote(a, b)
  OBVIOUS
<1>5. OutDtype(op, from) = Bool
  <2>1. op \in Promoting
    BY <1>2 DEF Promoting, BinaryOps, PlainBinary
  <2>2. OutDtype(op, from) = BinaryGives(op, p)
    BY <1>1, <1>4, <2>1, BinaryGive
  <2> QED
    BY <1>2, <2>2 DEF BinaryGives
<1>6. p \in Numeric /\ p.kind \in Any
  BY <1>4, BoolsPromote
<1>7. Bool # None
  BY NumericFromShape, NumericIsSome DEF Bool
<1>8. PICK safe : safe = SafeIn(CompareLoops, from)
  OBVIOUS
<1>9. PICK k : k = Place(p)
  OBVIOUS
<1>10. k \in 1..16 \ {10, 11} /\ LoopOrder[k] = p
  BY <1>6, <1>9, LoopAtPlace, NumericIsSome, OrderIs
<1>11. CompareLoops[k] = Row(<<p, p>>, Bool)
  BY <1>10, CompareRows DEF Alike
<1>12. k \in safe
  <2>1. SafeNumeric(a, p) /\ SafeNumeric(b, p)
    <3>1. ComesFirst(Any, a, b, p)
      BY <1>4, <1>6, PromoteFirst
    <3> QED
      BY <3>1 DEF ComesFirst
  <2>2. SafeCast(a, p) /\ SafeCast(b, p)
    <3>1. ~IsString(a) /\ ~IsString(b) /\ ~IsString(p)
      BY <1>6, NumericShape
    <3> QED
      BY <2>1, <3>1 DEF SafeCast
  <2>3. PICK ins : ins = CompareLoops[k].ins
    OBVIOUS
  <2>4. ins[1] = p /\ ins[2] = p
    BY <1>11, <2>3 DEF Row
  <2>5. \A i \in DOMAIN from : SafeCast(from[i], ins[i])
    BY <1>1, <2>2, <2>4
  <2> QED
    BY <1>8, <1>10, <2>3, <2>5, CompareRows DEF SafeIn
<1>13. ComputedIn(op, from) = <<p, p>>
  BY <1>1, <1>2, <1>4, GreaterIn
<1>14. Min(safe) \in 1..16
  <2>1. safe \in SUBSET (1..16)
    BY <1>8, CompareRows DEF SafeIn
  <2> QED
    BY <1>12, <2>1, LeastOf
<1>15. Bool = CompareLoops[Min(safe)].out
  BY <1>14, CompareRows
<1>16. \E i \in safe : CompareLoops[i] = Row(ComputedIn(op, from), Bool)
  BY <1>11, <1>12, <1>13
<1> QED
  BY <1>2, <1>3, <1>5, <1>7, <1>8, <1>15, <1>16 DEF InALoop

\* A call of a ufunc that has a table: its operation, and its operands.
Known(op, from) ==
    \/ op \in UnaryOps /\ \E a \in Numeric : from = <<a>>
    \/ op \in BinaryOps /\ \E a, b \in Numeric : from = <<a, b>>

LEMMA EveryCallInALoop ==
  ASSUME NEW op \in DOMAIN LoopTable, NEW from, Known(op, from)
  PROVE  InALoop(op, from)
<1>1. ASSUME op \in UnaryOps, NEW a \in Numeric, from = <<a>> PROVE InALoop(op, from)
  BY <1>1, UnaryCastingInALoop, UnaryPlainInALoop
<1>2. ASSUME op \in BinaryOps, NEW a \in Numeric, NEW b \in Numeric, from = <<a, b>>
      PROVE  InALoop(op, from)
  <2>1. \/ op \in (BinaryOps \cap Casting) \ {"hypot"}
        \/ op \in {"hypot", "logical_and", "greater"}
    BY <1>2, HasTable DEF BinaryOps, PlainBinary, MathBinary, Casting
  <2> QED
    BY <1>2, <2>1, PairCastingInALoop, HypotInALoop, LogicalInALoop, GreaterInALoop
<1> QED
  BY <1>1, <1>2 DEF Known

----------------------------------------------------------------------------
(* dtype=: a loop gives what its row says, on the operands of its row.        *)

\* A table of loops on operands like the result, each giving its own dtype.
GivesItsOwn(op, kinds, n) ==
    /\ LoopTable[op] = Loops(kinds, n)
    /\ \A d \in Numeric : d.kind \in kinds => OutDtype(op, Alike(d, n)) = d

LEMMA UnaryGivesItsOwn ==
  ASSUME NEW op \in UnaryOps \cap Casting
  PROVE  \E kinds \in SUBSET Any : GivesItsOwn(op, kinds, 1)
<1>1. PICK table : table = LoopTable[op] /\ table = TableFor(op)
  BY HasTable, TableIs
<1>2. ASSUME NEW d \in Numeric PROVE OutDtype(op, Alike(d, 1)) = UnaryGives(op, d)
  <2>1. PICK ins : ins = Alike(d, 1)
    OBVIOUS
  <2>2. ins[1] = d
    BY <2>1 DEF Alike
  <2> QED
    BY <2>1, <2>2, UnaryGive
<1>3. ASSUME NEW d \in Numeric, d.kind = "Float" PROVE FloatTier(d) = d
  BY <1>3 DEF FloatTier, IsInteger
<1>4. CASE op \in {"square", "reciprocal", "negative", "sign"}
  <2>1. table = Loops(Numbers, 1) /\ Numbers \in SUBSET Any
    BY <1>1, <1>4, UnaryTables DEF Any
  <2>2. ASSUME NEW d \in Numeric, d.kind \in Numbers PROVE OutDtype(op, Alike(d, 1)) = d
    <3>1. d # Bool
      BY <2>2 DEF Numbers, Counting, Inexact, Bool, DT
    <3> QED  BY <1>2, <1>4, <3>1 DEF UnaryGives, BoolTo
  <2> QED  BY <1>1, <2>1, <2>2 DEF GivesItsOwn
<1>5. CASE op = "invert"
  <2>1. PICK kinds \in SUBSET Any : kinds = Counting \union {"Bool"}
    BY DEF Any, Numbers
  <2>2. table = Loops(kinds, 1)
    BY <1>1, <1>5, <2>1, UnaryTables
  <2>3. ASSUME NEW d \in Numeric, d.kind \in kinds PROVE OutDtype(op, Alike(d, 1)) = d
    BY <1>2, <1>5, <2>1, <2>3 DEF UnaryGives, Only
  <2> QED  BY <1>1, <2>2, <2>3 DEF GivesItsOwn
<1>6. CASE op = "sqrt"
  <2>1. table = Loops(Inexact, 1) /\ Inexact \in SUBSET Any
    BY <1>1, <1>6, UnaryTables DEF Any, Numbers
  <2>2. ASSUME NEW d \in Numeric, d.kind \in Inexact PROVE OutDtype(op, Alike(d, 1)) = d
    BY <1>2, <1>3, <1>6, <2>2 DEF UnaryGives, IsComplex, Inexact
  <2> QED  BY <1>1, <2>1, <2>2 DEF GivesItsOwn
<1>7. CASE op = "cbrt"
  <2>1. table = Loops({"Float"}, 1) /\ {"Float"} \in SUBSET Any
    BY <1>1, <1>7, UnaryTables DEF Any, Numbers, Inexact
  <2>2. ASSUME NEW d \in Numeric, d.kind \in {"Float"} PROVE OutDtype(op, Alike(d, 1)) = d
    BY <1>2, <1>3, <1>7, <2>2 DEF UnaryGives, IsComplex
  <2> QED  BY <1>1, <2>1, <2>2 DEF GivesItsOwn
<1>8. CASE op = "floor"
  <2>1. PICK kinds \in SUBSET Any : kinds = Ordered \union {"Bool"}
    BY DEF Any, Numbers, Ordered, Inexact
  <2>2. table = Loops(kinds, 1)
    BY <1>1, <1>8, <2>1, UnaryTables
  <2>3. ASSUME NEW d \in Numeric, d.kind \in kinds PROVE OutDtype(op, Alike(d, 1)) = d
    <3>1. ~IsComplex(d)
      BY <2>1, <2>3 DEF IsComplex, Ordered, Counting
    <3> QED  BY <1>2, <1>8, <3>1 DEF UnaryGives
  <2> QED  BY <1>1, <2>2, <2>3 DEF GivesItsOwn
<1> QED
  BY <1>4, <1>5, <1>6, <1>7, <1>8
  DEF Casting, UnaryOps, PlainUnary, MathUnary, PureUnary

LEMMA BinaryGivesItsOwn ==
  ASSUME NEW op \in BinaryOps \cap Casting
  PROVE  \E kinds \in SUBSET Any : GivesItsOwn(op, kinds, 2)
<1>1. PICK table : table = LoopTable[op] /\ table = TableFor(op)
  <2>1. op \in DOMAIN LoopTable
    BY HasTable DEF Ops, Casting
  <2> QED
    BY <2>1, TableIs
<1>2. ASSUME op # "hypot", NEW d \in Numeric
      PROVE  OutDtype(op, Alike(d, 2)) = BinaryGives(op, d)
  <2>1. PICK ins : ins = Alike(d, 2)
    OBVIOUS
  <2>2. ins[1] = d /\ ins[2] = d
    BY <2>1 DEF Alike
  <2>3. op \in Promoting
    BY <1>2 DEF Promoting, Casting
  <2> QED
    BY <2>1, <2>2, <2>3, BinaryGive, PromoteNumerics
<1>3. ASSUME NEW d \in Numeric, d.kind \in Numbers PROVE d # Bool
  BY <1>3 DEF Numbers, Counting, Inexact, Bool, DT
<1>4. CASE op \in {"add", "maximum", "fmax"}
  <2>1. table = Loops(Any, 2) /\ Any \in SUBSET Any
    BY <1>1, <1>4, BinaryTables
  <2>2. ASSUME NEW d \in Numeric PROVE OutDtype(op, Alike(d, 2)) = d
    BY <1>2, <1>4 DEF BinaryGives
  <2> QED  BY <1>1, <2>1, <2>2 DEF GivesItsOwn
<1>5. CASE op \in {"subtract", "power"}
  <2>1. table = Loops(Numbers, 2) /\ Numbers \in SUBSET Any
    BY <1>1, <1>5, BinaryTables DEF Any
  <2>2. ASSUME NEW d \in Numeric, d.kind \in Numbers PROVE OutDtype(op, Alike(d, 2)) = d
    BY <1>2, <1>3, <1>5, <2>2 DEF BinaryGives, BoolTo
  <2> QED  BY <1>1, <2>1, <2>2 DEF GivesItsOwn
<1>6. CASE op = "divide"
  <2>1. table = Loops(Inexact, 2) /\ Inexact \in SUBSET Any
    BY <1>1, <1>6, BinaryTables DEF Any, Numbers
  <2>2. ASSUME NEW d \in Numeric, d.kind \in Inexact PROVE OutDtype(op, Alike(d, 2)) = d
    <3>1. d.kind \notin {"Bool"} \union Counting
      BY <2>2 DEF Inexact, Counting
    <3> QED  BY <1>2, <1>6, <3>1 DEF BinaryGives
  <2> QED  BY <1>1, <2>1, <2>2 DEF GivesItsOwn
<1>7. CASE op \in {"floor_divide", "fmod"}
  <2>1. table = Loops(Ordered, 2) /\ Ordered \in SUBSET Any /\ Ordered \subseteq Numbers
    BY <1>1, <1>7, BinaryTables DEF Any, Numbers, Ordered, Inexact
  <2>2. ASSUME NEW d \in Numeric, d.kind \in Ordered PROVE OutDtype(op, Alike(d, 2)) = d
    <3>1. d # Bool
      BY <1>3, <2>1, <2>2
    <3> QED  BY <1>2, <1>7, <2>2, <3>1 DEF BinaryGives, BoolTo, Only
  <2> QED  BY <1>1, <2>1, <2>2 DEF GivesItsOwn
<1>8. CASE op = "bitwise_and"
  <2>1. PICK kinds \in SUBSET Any : kinds = Counting \union {"Bool"}
    BY DEF Any, Numbers
  <2>2. table = Loops(kinds, 2)
    BY <1>1, <1>8, <2>1, BinaryTables
  <2>3. ASSUME NEW d \in Numeric, d.kind \in kinds PROVE OutDtype(op, Alike(d, 2)) = d
    BY <1>2, <1>8, <2>1, <2>3 DEF BinaryGives, Only
  <2> QED  BY <1>1, <2>2, <2>3 DEF GivesItsOwn
<1>9. CASE op \in {"left_shift", "gcd"}
  <2>1. table = Loops(Counting, 2) /\ Counting \in SUBSET Any /\ Counting \subseteq Numbers
    BY <1>1, <1>9, BinaryTables DEF Any, Numbers
  <2>2. ASSUME NEW d \in Numeric, d.kind \in Counting PROVE OutDtype(op, Alike(d, 2)) = d
    <3>1. d # Bool
      BY <1>3, <2>1, <2>2
    <3> QED  BY <1>2, <1>9, <2>2, <3>1 DEF BinaryGives, BoolTo, Only
  <2> QED  BY <1>1, <2>1, <2>2 DEF GivesItsOwn
<1>10. CASE op = "hypot"
  <2>1. table = Loops({"Float"}, 2) /\ {"Float"} \in SUBSET Any
    BY <1>1, <1>10, BinaryTables DEF Any, Numbers, Inexact
  <2>2. ASSUME NEW d \in Numeric, d.kind \in {"Float"} PROVE OutDtype(op, Alike(d, 2)) = d
    <3>1. FloatTier(d) = d
      BY <2>2 DEF FloatTier, IsInteger
    <3>2. d = DT("Float", d.bits) /\ d.bits \in Nat
      BY <2>2, NumericShape
    <3>3. Larger(d.bits, d.bits) = d.bits
      BY <3>2 DEF Larger
    <3>4. ~IsComplex(Promote(d, d))
      BY <2>2, PromoteNumerics DEF IsComplex
    <3>5. OutDtype("hypot", <<d, d>>) = d
      BY <3>1, <3>2, <3>3, <3>4, HypotDtype
    <3>6. Alike(d, 2) = <<d, d>>
      BY DEF Alike
    <3> QED  BY <1>10, <3>5, <3>6
  <2> QED  BY <1>1, <2>1, <2>2 DEF GivesItsOwn
<1> QED
  BY <1>4, <1>5, <1>6, <1>7, <1>8, <1>9, <1>10
  DEF Casting, BinaryOps, PlainBinary, MathBinary

\* A row says what the ufunc gives on its operands, and it computes in them.
RowStands(op, row) ==
    /\ OutDtype(op, row.ins) = row.out
    /\ op \notin {"greater", "logical_not", "logical_and"} => ComputedIn(op, row.ins) = row.ins

LEMMA CastingRowStands ==
  ASSUME NEW op \in Casting, NEW kinds \in SUBSET Any, NEW n \in {1, 2},
         GivesItsOwn(op, kinds, n),
         NEW i \in DOMAIN LoopTable[op]
  PROVE  RowStands(op, LoopTable[op][i])
<1>1. PICK table : table = LoopTable[op]
  OBVIOUS
<1>2. table = Loops(kinds, n)
  BY <1>1 DEF GivesItsOwn
<1>3. i \in Places(kinds)
  BY <1>1, <1>2 DEF Loops
<1>4. PICK d : d = LoopOrder[i]
  OBVIOUS
<1>5. d \in Numeric /\ d.kind \in kinds
  <2>1. i \in 1..16 /\ LoopOrder[i].kind \in kinds /\ LoopOrder[i].kind \in Any
    BY <1>3 DEF Places
  <2> QED  BY <1>4, <2>1, LoopsAreNumeric
<1>6. PICK row : row = table[i]
  OBVIOUS
<1>7. row = Row(Alike(d, n), d)
  BY <1>2, <1>3, <1>4, <1>6 DEF Loops
<1>8. row.ins = Alike(d, n) /\ row.out = d
  BY <1>7 DEF Row
<1>9. PICK ins : ins = Alike(d, n)
  OBVIOUS
<1>10. OutDtype(op, ins) = d
  BY <1>5, <1>9 DEF GivesItsOwn
<1>11. ins = Operands(n, d, d)
  BY <1>9 DEF Alike, Operands
<1>12. ComputedIn(op, ins) = ins
  <2>1. d = OutDtype(op, ins)
    BY <1>10
  <2>2. ComputedIn(op, ins) = Alike(d, n)
    BY <1>11, <2>1, CastingOperands
  <2> QED  BY <1>9, <2>2
<1> QED
  BY <1>1, <1>6, <1>8, <1>9, <1>10, <1>12 DEF RowStands

\* The result of the functions with loops of other results.
PlainOut(op, d) ==
    CASE op = "absolute"                  -> Magnitude(d)
      [] op \in {"positive", "conjugate"} -> d
      [] op = "bitwise_count"             -> U8
      [] OTHER                            -> Bool

LEMMA UnaryRowStands ==
  ASSUME NEW op \in UnaryOps \ Casting, NEW i \in DOMAIN LoopTable[op]
  PROVE  RowStands(op, LoopTable[op][i])
<1>1. PICK table : table = LoopTable[op] /\ table = TableFor(op)
  BY HasTable, TableIs
<1>2. PICK row : row = table[i]
  OBVIOUS
<1>3. op \in {"absolute", "isnan", "positive", "conjugate", "bitwise_count", "signbit",
              "logical_not"}
  BY DEF Casting, UnaryOps, PlainUnary, MathUnary, PureUnary
<1>4. ASSUME NEW kinds \in SUBSET Any, NEW d \in Numeric, d.kind \in kinds,
             row = Row(Alike(d, 1), PlainOut(op, d)),
             \/ op \in {"absolute", "isnan", "logical_not"}
             \/ op \in {"positive", "conjugate"} /\ kinds = Numbers
             \/ op = "bitwise_count" /\ kinds = Counting
             \/ op = "signbit" /\ kinds = {"Float"}
      PROVE  RowStands(op, row)
  <2>1. row.ins = Alike(d, 1) /\ row.out = PlainOut(op, d)
    BY <1>4 DEF Row
  <2>2. PICK ins : ins = row.ins
    OBVIOUS
  <2>3. ins[1] = d
    BY <2>1, <2>2 DEF Alike
  <2>4. OutDtype(op, ins) = UnaryGives(op, d)
    BY <2>3, UnaryGive
  <2>5. UnaryGives(op, d) = PlainOut(op, d)
    <3>1. CASE op \in {"absolute", "isnan", "logical_not"}
      BY <3>1 DEF UnaryGives, PlainOut
    <3>2. CASE op \in {"positive", "conjugate"} /\ kinds = Numbers
      <4>1. d # Bool
        BY <1>4, <3>2 DEF Numbers, Counting, Inexact, Bool, DT
      <4> QED  BY <3>2, <4>1 DEF UnaryGives, PlainOut, BoolTo
    <3>3. CASE op = "bitwise_count" /\ kinds = Counting
      BY <1>4, <3>3 DEF UnaryGives, PlainOut
    <3>4. CASE op = "signbit" /\ kinds = {"Float"}
      BY <1>4, <3>4 DEF UnaryGives, PlainOut, IsComplex
    <3> QED  BY <1>4, <3>1, <3>2, <3>3, <3>4
  <2>6. op # "logical_not" => op \in AsItComes
    BY <1>3 DEF AsItComes
  <2>7. op # "logical_not" => ComputedIn(op, ins) = ins
    BY <2>6, AsItComesIn
  <2> QED
    BY <2>1, <2>2, <2>4, <2>5, <2>7 DEF RowStands
<1>5. ASSUME NEW kinds \in SUBSET Any, i \in Places(kinds)
      PROVE  LoopOrder[i] \in Numeric /\ LoopOrder[i].kind \in kinds
  <2>1. i \in 1..16 /\ LoopOrder[i].kind \in kinds /\ LoopOrder[i].kind \in Any
    BY <1>5 DEF Places
  <2> QED  BY <2>1, LoopsAreNumeric
<1>6. CASE op = "absolute"
  <2>1. table = AbsoluteLoops
    BY <1>1, <1>6, UnaryTables
  <2>2. i \in Places(Any)
    BY <1>1, <2>1 DEF AbsoluteLoops
  <2>3. PICK d \in Numeric : d = LoopOrder[i] /\ d.kind \in Any
    BY <1>5, <2>2
  <2>4. Place(d) = i
    BY <2>2, <2>3, LoopsAreNumeric DEF Places
  <2>5. row = Row(Alike(d, 1), PlainOut(op, d))
    BY <1>2, <1>6, <2>1, <2>4, AbsoluteLoopsAre DEF PlainOut
  <2> QED
    BY <1>1, <1>2, <1>4, <1>6, <2>3, <2>5
<1>7. CASE op \in {"positive", "conjugate"}
  <2>1. table = Loops(Numbers, 1) /\ Numbers \in SUBSET Any
    BY <1>1, <1>7, UnaryTables DEF Any
  <2>2. i \in Places(Numbers)
    BY <1>1, <2>1 DEF Loops
  <2>3. PICK d \in Numeric : d = LoopOrder[i] /\ d.kind \in Numbers
    BY <1>5, <2>1, <2>2
  <2>4. row = Row(Alike(d, 1), d)
    BY <1>2, <2>1, <2>2, <2>3 DEF Loops
  <2>5. PlainOut(op, d) = d
    BY <1>7 DEF PlainOut
  <2> QED
    BY <1>1, <1>2, <1>4, <1>7, <2>1, <2>3, <2>4, <2>5
<1>8. ASSUME NEW kinds \in SUBSET Any, NEW out, table = LoopsTo(out, kinds, 1),
             \A d : PlainOut(op, d) = out
      PROVE  \E d \in Numeric : d.kind \in kinds /\ row = Row(Alike(d, 1), PlainOut(op, d))
  <2>1. i \in Places(kinds)
    BY <1>1, <1>8 DEF LoopsTo
  <2>2. PICK d \in Numeric : d = LoopOrder[i] /\ d.kind \in kinds
    BY <1>5, <2>1
  <2>3. row = Row(Alike(d, 1), out)
    BY <1>2, <1>8, <2>1, <2>2 DEF LoopsTo
  <2> QED
    BY <1>8, <2>2, <2>3
<1>9. CASE op \in {"isnan", "logical_not"}
  <2>1. table = LoopsTo(Bool, Any, 1) /\ Any \in SUBSET Any
    BY <1>1, <1>9, UnaryTables
  <2>2. \A d : PlainOut(op, d) = Bool
    BY <1>9 DEF PlainOut
  <2>3. PICK d \in Numeric : d.kind \in Any /\ row = Row(Alike(d, 1), PlainOut(op, d))
    BY <1>8, <2>1, <2>2
  <2> QED
    BY <1>1, <1>2, <1>4, <1>9, <2>1, <2>3
<1>10. CASE op = "bitwise_count"
  <2>1. table = LoopsTo(U8, Counting, 1) /\ Counting \in SUBSET Any
    BY <1>1, <1>10, UnaryTables DEF Any, Numbers
  <2>2. \A d : PlainOut(op, d) = U8
    BY <1>10 DEF PlainOut
  <2>3. PICK d \in Numeric : d.kind \in Counting /\ row = Row(Alike(d, 1), PlainOut(op, d))
    BY <1>8, <2>1, <2>2
  <2> QED
    BY <1>1, <1>2, <1>4, <1>10, <2>1, <2>3
<1>11. CASE op = "signbit"
  <2>1. table = LoopsTo(Bool, {"Float"}, 1) /\ {"Float"} \in SUBSET Any
    BY <1>1, <1>11, UnaryTables DEF Any, Numbers, Inexact
  <2>2. \A d : PlainOut(op, d) = Bool
    BY <1>11 DEF PlainOut
  <2>3. PICK d \in Numeric : d.kind \in {"Float"} /\ row = Row(Alike(d, 1), PlainOut(op, d))
    BY <1>8, <2>1, <2>2
  <2> QED
    BY <1>1, <1>2, <1>4, <1>11, <2>1, <2>3
<1> QED
  BY <1>3, <1>6, <1>7, <1>9, <1>10, <1>11

LEMMA TruthRowStands ==
  ASSUME NEW op \in {"greater", "logical_and"}, NEW i \in DOMAIN LoopTable[op]
  PROVE  RowStands(op, LoopTable[op][i])
<1>1. PICK table : table = LoopTable[op] /\ table = TableFor(op)
  <2>1. op \in DOMAIN LoopTable
    BY HasTable DEF Ops, BinaryOps, PlainBinary
  <2> QED
    BY <2>1, TableIs
<1>2. PICK row : row = table[i]
  OBVIOUS
<1>3. row.out = Bool
  <2>1. CASE op = "greater"
    BY <1>1, <1>2, <2>1, BinaryTables, CompareRows
  <2>2. CASE op = "logical_and"
    <3>1. table = LoopsTo(Bool, Any, 2)
      BY <1>1, <2>2, BinaryTables
    <3>2. row = Row(Alike(LoopOrder[i], 2), Bool)
      BY <1>1, <1>2, <3>1 DEF LoopsTo
    <3> QED  BY <3>2 DEF Row
  <2> QED  BY <2>1, <2>2
<1>4. PICK ins : ins = row.ins
  OBVIOUS
<1>5. OutDtype(op, ins) = Bool
  <2>1. op \in Promoting
    BY DEF Promoting, BinaryOps, PlainBinary
  <2>2. OutDtype(op, ins) = BinaryGives(op, Promote(ins[1], ins[2]))
    BY <2>1, BinaryGive
  <2> QED
    BY <2>2 DEF BinaryGives
<1>6. op \in {"greater", "logical_not", "logical_and"}
  OBVIOUS
<1> QED
  BY <1>1, <1>2, <1>3, <1>4, <1>5, <1>6 DEF RowStands

LEMMA EveryRowStands ==
  ASSUME NEW op \in DOMAIN LoopTable, NEW i \in DOMAIN LoopTable[op]
  PROVE  RowStands(op, LoopTable[op][i])
<1>1. CASE op \in Casting
  <2>1. PICK kinds \in SUBSET Any, n \in {1, 2} : GivesItsOwn(op, kinds, n)
    <3>1. op \in UnaryOps \/ op \in BinaryOps
      BY HasTable DEF Ops
    <3> QED
      BY <1>1, <3>1, UnaryGivesItsOwn, BinaryGivesItsOwn
  <2> QED
    BY <1>1, <2>1, CastingRowStands
<1>2. CASE op \in UnaryOps \ Casting
  BY <1>2, UnaryRowStands
<1>3. CASE op \notin Casting /\ op \notin UnaryOps
  <2>1. op \in {"greater", "logical_and"}
    BY <1>3, HasTable DEF Ops, BinaryOps, PlainBinary, MathBinary, Casting
  <2> QED
    BY <2>1, TruthRowStands
<1> QED
  BY <1>1, <1>2, <1>3

InOrder(table) == DOMAIN table \in SUBSET (1..16)

LEMMA TablesInOrder ==
  ASSUME NEW op \in DOMAIN LoopTable
  PROVE  InOrder(LoopTable[op])
<1>1. \A kinds, n : InOrder(Loops(kinds, n))
  BY DEF InOrder, Loops, Places
<1>2. \A kinds, n, out : InOrder(LoopsTo(out, kinds, n))
  BY DEF InOrder, LoopsTo, Places
<1>3. InOrder(AbsoluteLoops) /\ InOrder(CompareLoops)
  BY CompareRows DEF InOrder, AbsoluteLoops, Places
<1>4. PICK table : table = LoopTable[op] /\ table = TableFor(op)
  BY TableIs
<1>5. ASSUME op \in UnaryOps
      PROVE  \/ \E kinds, n : table = Loops(kinds, n)
             \/ \E kinds, n, out : table = LoopsTo(out, kinds, n)
             \/ table = AbsoluteLoops
  <2>1. CASE op \in {"negative", "square", "reciprocal", "sign", "positive", "conjugate"}
    BY <1>4, <2>1, UnaryTables
  <2>2. CASE op \in {"absolute", "logical_not", "isnan", "signbit", "bitwise_count"}
    BY <1>4, <2>2, UnaryTables
  <2>3. CASE op \in {"invert", "sqrt", "cbrt", "floor"}
    BY <1>4, <2>3, UnaryTables
  <2> QED
    BY <1>5, <2>1, <2>2, <2>3 DEF UnaryOps, PlainUnary, MathUnary, PureUnary
<1>6. ASSUME op \in BinaryOps
      PROVE  \/ \E kinds, n : table = Loops(kinds, n)
             \/ \E kinds, n, out : table = LoopsTo(out, kinds, n)
             \/ table = CompareLoops
  <2>1. CASE op \in {"add", "maximum", "fmax", "subtract", "power", "divide"}
    BY <1>4, <2>1, BinaryTables
  <2>2. CASE op \in {"floor_divide", "fmod", "bitwise_and", "left_shift", "gcd"}
    BY <1>4, <2>2, BinaryTables
  <2>3. CASE op \in {"hypot", "logical_and", "greater"}
    BY <1>4, <2>3, BinaryTables
  <2> QED
    BY <1>6, <2>1, <2>2, <2>3, HasTable DEF BinaryOps, PlainBinary, MathBinary
<1>7. op \in UnaryOps \/ op \in BinaryOps
  BY HasTable DEF Ops
<1> QED
  BY <1>1, <1>2, <1>3, <1>4, <1>5, <1>6, <1>7

\* What a call is resolved to are the operands of a loop that gives what was
\* asked for, and that the rule lets the operands reach.
ResolvedTo(op, from, asked, rule, ins, i) ==
    LET row == LoopTable[op][i]
    IN  row.out = asked /\ ins = row.ins /\ AllReachable(from, row, rule)

LEMMA SelectedGives ==
  ASSUME NEW table, DOMAIN table \in SUBSET (1..16), NEW from, NEW asked,
         \E i \in DOMAIN table : table[i].out = asked
  PROVE  \E i \in DOMAIN table : table[i].out = asked /\ Selected(table, from, asked) = table[i]
<1>1. PICK giving : giving = {i \in DOMAIN table : table[i].out = asked}
  OBVIOUS
<1>2. PICK safe : safe = {i \in giving : AllReachable(from, table[i], "safe")}
  OBVIOUS
<1>3. PICK same : same = {i \in giving : \A k \in DOMAIN from : table[i].ins[k] = asked}
  OBVIOUS
<1>4. PICK of : of = IF safe # {} THEN safe ELSE IF same # {} THEN same ELSE giving
  OBVIOUS
<1>5. of \in SUBSET giving /\ of # {}
  BY <1>1, <1>2, <1>3, <1>4
<1>6. of \in SUBSET (1..16)
  BY <1>1, <1>5
<1>7. Min(of) \in giving
  BY <1>5, <1>6, LeastOf
<1>8. Selected(table, from, asked) = table[Min(of)]
  BY <1>1, <1>2, <1>3, <1>4 DEF Selected
<1> QED
  BY <1>1, <1>7, <1>8

LEMMA ResolvedInALoop ==
  ASSUME NEW op \in DOMAIN LoopTable, NEW from, NEW asked, NEW rule,
         NEW ins, ins = Resolved(op, from, asked, rule), ins # <<>>
  PROVE  \E i \in DOMAIN LoopTable[op] : ResolvedTo(op, from, asked, rule, ins, i)
<1>1. op # "float_power" /\ op # "ldexp"
  BY HasTable
<1>2. PICK table : table = LoopTable[op]
  OBVIOUS
<1>3. PICK row : row = Selected(table, from, asked)
  OBVIOUS
<1>4. ins = IF \/ \A i \in DOMAIN table : table[i].out # asked
               \/ op = "signbit" /\ IsComplex(from[1])
            THEN <<>>
            ELSE IF AllReachable(from, row, rule) THEN row.ins ELSE <<>>
  BY <1>1, <1>2, <1>3 DEF Resolved
<1>5. /\ \E i \in DOMAIN table : table[i].out = asked
      /\ AllReachable(from, row, rule) /\ ins = row.ins
  BY <1>4
<1>6. PICK i \in DOMAIN table : table[i].out = asked /\ row = table[i]
  BY <1>2, <1>3, <1>5, TablesInOrder, SelectedGives DEF InOrder
<1> QED
  BY <1>2, <1>5, <1>6 DEF ResolvedTo

\* The loop chosen for dtype= gives that dtype.
LEMMA AskedIsGiven ==
  ASSUME NEW op, NEW from, Known(op, from), NEW asked \in Numeric, NEW rule,
         NEW ins, ins = Resolved(op, from, asked, rule), ins # <<>>
  PROVE  \/ OutDtype(op, ins) = asked
         \/ op = "ldexp" /\ OutDtype(op, ins) = None
<1>1. CASE op \in DOMAIN LoopTable
  <2>1. PICK i \in DOMAIN LoopTable[op] : ResolvedTo(op, from, asked, rule, ins, i)
    BY <1>1, ResolvedInALoop
  <2>2. PICK row : row = LoopTable[op][i]
    OBVIOUS
  <2>3. row.out = asked /\ ins = row.ins
    BY <2>1, <2>2 DEF ResolvedTo
  <2>4. RowStands(op, row)
    BY <1>1, <2>2, EveryRowStands
  <2> QED
    BY <2>3, <2>4 DEF RowStands
<1>2. CASE op = "float_power"
  <2>1. /\ ins = <<asked, asked>>
        /\ asked \in {C128, F64}
    BY <1>2 DEF Resolved
  <2>2. ins[1] = asked /\ ins[2] = asked
    BY <2>1
  <2>3. OutDtype(op, ins) = FloatPowerOut(asked, asked)
    <3>1. op \in BinaryOps \ {"ldexp"} /\ op \notin PlainBinary /\ op \notin MathBinary
      BY <1>2 DEF BinaryOps, PlainBinary, MathBinary
    <3> QED
      BY <2>2, <3>1, PairDtype
  <2>4. FloatPowerOut(asked, asked) = asked
    BY <2>1 DEF FloatPowerOut, IsComplex, C128, F64, DT
  <2> QED
    BY <2>3, <2>4
<1>3. CASE op = "ldexp"
  <2>1. ins = <<asked, from[2]>> /\ asked.kind = "Float"
    BY <1>3 DEF Resolved
  <2>2. ins[1] = asked /\ ins[2] = from[2]
    BY <2>1
  <2>3. OutDtype(op, ins) = LdexpOut(asked, from[2])
    <3>1. /\ op \notin PlainUnary /\ op \notin MathUnary /\ op \notin PureUnary
          /\ op \notin PlainBinary /\ op \notin MathBinary /\ op # "float_power"
      BY <1>3 DEF PlainUnary, MathUnary, PureUnary, PlainBinary, MathBinary
    <3> QED
      BY <1>3, <2>2, <3>1 DEF OutDtype
  <2>4. FloatTier(asked) = asked
    BY <2>1 DEF FloatTier, IsInteger
  <2> QED
    BY <1>3, <2>3, <2>4 DEF LdexpOut
<1>4. op \in Ops
  BY DEF Known, Ops
<1> QED
  BY <1>1, <1>2, <1>3, <1>4, HasTable

----------------------------------------------------------------------------
(* The casts of the operands.                                                 *)

LEMMA NumericCasts ==
  ASSUME NEW a \in Numeric, NEW b \in Numeric
  PROVE  /\ SafeCast(a, b) <=> SafeNumeric(a, b)
         /\ SafeCast(a, a)
         /\ SafeCast(a, b) => \A rule \in Rules \ {"no"} : CanCast(a, b, rule)
<1>1. ~IsString(a) /\ ~IsString(b)
  BY NumericShape
<1>2. SafeNumeric(a, a)
  BY NumericShape DEF SafeNumeric
<1>3. ASSUME SafeCast(a, b), NEW rule \in Rules \ {"no"} PROVE CanCast(a, b, rule)
  BY <1>3 DEF Rules, CanCast
<1> QED
  BY <1>1, <1>2, <1>3 DEF SafeCast

\* What casting='no' lets pass is not cast.
PassesNo(op, from) ==
    LET loop == CastingLoop(op, from)
    IN  \A i \in DOMAIN loop : loop[i] \in {None, from[i]}

LEMMA KnownOperands ==
  ASSUME NEW op, NEW from, Known(op, from)
  PROVE  /\ \A i \in DOMAIN from : from[i] \in Numeric
         /\ op \in BinaryOps => from[1] \in Numeric /\ from[2] \in Numeric /\ DOMAIN from = {1, 2}
<1>1. ASSUME op \in UnaryOps, NEW a \in Numeric, from = <<a>>
      PROVE  op \notin BinaryOps /\ \A i \in DOMAIN from : from[i] \in Numeric
  <2>1. op \notin BinaryOps
    BY <1>1 DEF UnaryOps, PlainUnary, MathUnary, PureUnary,
                BinaryOps, PlainBinary, MathBinary
  <2>2. DOMAIN from = {1} /\ from[1] = a
    BY <1>1
  <2> QED  BY <2>1, <2>2
<1>2. ASSUME NEW a \in Numeric, NEW b \in Numeric, from = <<a, b>>
      PROVE  from[1] \in Numeric /\ from[2] \in Numeric /\ DOMAIN from = {1, 2}
  BY <1>2
<1> QED
  BY <1>1, <1>2 DEF Known

\* Of the functions with a table, and not excused, each one goes over its
\* operands as they come, casts them to what it gives, or compares them.
LEMMA NotExcused ==
  ASSUME NEW op, NEW from, Known(op, from), ~Excused(op, from)
  PROVE  /\ op \in DOMAIN LoopTable
         /\ op \in Casting \/ op \in AsItComes \/ op = "greater"
         /\ op \notin {"logical_not", "logical_and"}
<1>1. op \notin {"logical_not", "logical_and", "float_power", "ldexp"}
  BY DEF Excused
<1>2. op \in Ops
  BY DEF Known, Ops
<1>3. op \in UnaryOps => op \in Casting \/ op \in AsItComes
  BY <1>1 DEF UnaryOps, PlainUnary, MathUnary, PureUnary, Casting, AsItComes
<1>4. op \in BinaryOps => op \in Casting \/ op = "greater"
  BY <1>1 DEF BinaryOps, PlainBinary, MathBinary, Casting
<1> QED
  BY <1>1, <1>2, <1>3, <1>4, HasTable DEF Ops

\* Without dtype=: the loop holds the operands, and casting='no' sees its own.
LEMMA OwnOperandsObey ==
  ASSUME NEW op, NEW from, Known(op, from), ~Excused(op, from),
         OutDtype(op, from) # None,
         NEW rule \in Rules, rule = "no" => PassesNo(op, from),
         NEW i \in DOMAIN from
  PROVE  CanCast(from[i], ComputedIn(op, from)[i], rule)
<1>1. from[i] \in Numeric
  BY KnownOperands
<1>2. op \in DOMAIN LoopTable /\ (op \in Casting \/ op \in AsItComes \/ op = "greater")
  BY NotExcused
<1>3. PICK ins, out : ins = ComputedIn(op, from) /\ out = OutDtype(op, from)
  OBVIOUS
<1>4. CASE op \in AsItComes
  <2>1. ins = from
    BY <1>3, <1>4, AsItComesIn
  <2>2. CanCast(from[i], from[i], rule)
    BY <1>1, NumericCasts DEF CanCast, Rules
  <2> QED
    BY <1>3, <2>1, <2>2
<1>5. CASE op \in Casting \/ op = "greater"
  <2>1. InALoop(op, from)
    BY <1>2, EveryCallInALoop
  <2>2. ~Native(op, from)
    BY <1>5, NotExcused DEF Native, Casting
  <2>3. PICK table : table = LoopTable[op]
    OBVIOUS
  <2>4. PICK k \in SafeIn(table, from) : table[k] = Row(ins, out)
    BY <1>3, <2>1, <2>2, <2>3 DEF InALoop
  <2>5. SafeCast(from[i], ins[i])
    <3>1. SafeCast(from[i], table[k].ins[i])
      BY <2>4 DEF SafeIn
    <3>2. table[k].ins = ins
      BY <2>4 DEF Row
    <3> QED  BY <3>1, <3>2
  <2>6. rule = "no" => from[i] = ins[i]
    <3>1. SUFFICES ASSUME PassesNo(op, from) PROVE from[i] = ins[i]
      OBVIOUS
    <3>2. PICK loop : /\ loop = CastingLoop(op, from)
                      /\ i \in DOMAIN loop => loop[i] \in {None, from[i]}
      BY <3>1 DEF PassesNo
    <3>3. i \in DOMAIN loop /\ loop[i] = ins[i] /\ ins[i] # None
      <4>1. CASE op \in Casting
        <5>1. /\ ins = [j \in DOMAIN from |-> out]
              /\ loop = [j \in DOMAIN from |-> out]
          BY <1>3, <3>2, <4>1, CastingIn
        <5> QED
          BY <1>3, <5>1
      <4>2. CASE op = "greater"
        <5>1. /\ from[1] \in Numeric /\ from[2] \in Numeric /\ DOMAIN from = {1, 2}
          BY <4>2, KnownOperands DEF BinaryOps, PlainBinary
        <5>2. PICK p \in Numeric : p = Promote(from[1], from[2])
          BY <5>1, PromoteNumerics
        <5>3. ins = <<p, p>>
          BY <1>3, <4>2, <5>2, GreaterIn
        <5>4. CastingLoop("greater", from) = CompareCasting(from[1], from[2])
          BY DEF CastingLoop
        <5>5. U64 \in {from[1], from[2]} => from[1] = from[2]
          BY <4>2 DEF Excused
        <5>6. CompareCasting(from[1], from[2]) = <<p, p>>
          <6>1. I64 # U64 /\ ~(U64.kind = "Int")
            BY DEF I64, U64, DT
          <6> QED
            BY <5>2, <5>5, <6>1 DEF CompareCasting
        <5>7. i \in {1, 2} /\ p # None
          BY <5>1, <5>2, NumericIsSome
        <5> QED
          BY <3>2, <4>2, <5>3, <5>4, <5>6, <5>7
      <4> QED  BY <1>5, <4>1, <4>2
    <3> QED
      BY <3>2, <3>3
  <2> QED
    BY <1>3, <2>5, <2>6 DEF CanCast, Rules
<1> QED
  BY <1>2, <1>4, <1>5

\* A mixed loop of the comparisons computes in float64.
LEMMA MixedObeys ==
  ASSUME NEW a \in Numeric, NEW to \in {I64, U64}, NEW rule \in Rules \ {"no"},
         CanCast(a, to, rule)
  PROVE  CanCast(a, F64, rule)
<1>1. /\ I64.kind = "Int" /\ U64.kind = "UInt" /\ F64.kind = "Float" /\ F64.bits = 64
      /\ I64 \in Numeric /\ U64 \in Numeric /\ F64 \in Numeric
  BY NumericFromShape DEF I64, U64, F64, DT
<1>2. CASE rule = "unsafe"
  BY <1>2 DEF CanCast
<1>3. CASE rule \in {"safe", "same_kind"}
  <2>1. a.kind \in {"Bool", "Int", "UInt"}
    <3>1. SafeNumeric(a, to) \/ SameKindExtra(a, to)
      <4>1. SafeCast(a, to) \/ SameKindExtra(a, to)
        BY <1>3 DEF CanCast
      <4> QED  BY <1>1, <4>1, NumericCasts
    <3>2. SafeNumeric(a, to) => a.kind \in {"Bool", "Int", "UInt"}
      BY <1>1 DEF SafeNumeric, IsInteger
    <3>3. SameKindExtra(a, to) => a.kind \in {"Bool", "Int", "UInt"}
      BY <1>1 DEF SameKindExtra
    <3> QED  BY <3>1, <3>2, <3>3
  <2>2. SafeNumeric(a, F64)
    BY <1>1, <2>1 DEF SafeNumeric, IsInteger, IntEquivFloatBits
  <2> QED
    BY <1>1, <1>3, <2>2, NumericCasts
<1> QED
  BY <1>2, <1>3 DEF Rules

LEMMA MixedPromote == Promote(I64, U64) = F64 /\ Promote(U64, I64) = F64
<1>1. /\ I64.kind = "Int" /\ I64.bits = 64 /\ U64.kind = "UInt" /\ U64.bits = 64
      /\ I64 \in Numeric /\ U64 \in Numeric
  BY NumericFromShape DEF I64, U64, DT
<1>2. Promote(I64, U64) = PromoteNumeric(I64, U64)
  BY <1>1, NumericShape DEF Promote
<1>3. PromoteNumeric(I64, U64) = F64
  BY <1>1 DEF PromoteNumeric, IntUint
<1> QED
  BY <1>1, <1>2, <1>3, PromoteNumerics

\* With dtype=: the operands are cast to those of the loop, under the rule.
LEMMA AskedOperandsObey ==
  ASSUME NEW op, NEW from, Known(op, from), ~Excused(op, from),
         NEW asked, NEW rule \in Rules,
         NEW ins, ins = Resolved(op, from, asked, rule), ins # <<>>,
         NEW i \in DOMAIN from
  PROVE  CanCast(from[i], ComputedIn(op, ins)[i], rule)
<1>1. op \in DOMAIN LoopTable
  BY NotExcused
<1>2. PICK k \in DOMAIN LoopTable[op] : ResolvedTo(op, from, asked, rule, ins, k)
  BY <1>1, ResolvedInALoop
<1>3. PICK row : row = LoopTable[op][k]
  OBVIOUS
<1>4. ins = row.ins /\ AllReachable(from, row, rule)
  BY <1>2, <1>3 DEF ResolvedTo
<1>5. ASSUME NEW j \in DOMAIN from PROVE CanCast(from[j], ins[j], rule)
  BY <1>4 DEF AllReachable, Reachable
<1>6. CASE op # "greater"
  <2>1. RowStands(op, row)
    BY <1>1, <1>3, EveryRowStands
  <2>2. ComputedIn(op, ins) = ins
    BY <1>4, <1>6, <2>1, NotExcused DEF RowStands
  <2> QED
    BY <1>5, <2>2
<1>7. CASE op = "greater"
  <2>1. from[1] \in Numeric /\ from[2] \in Numeric /\ DOMAIN from = {1, 2}
    BY <1>7, KnownOperands DEF BinaryOps, PlainBinary
  <2>2. LoopTable[op] = CompareLoops
    BY <1>1, <1>7, TableIs, BinaryTables
  <2>3. k \in 1..16
    BY <2>2, CompareRows
  <2>4. CASE k \notin {10, 11}
    <3>1. PICK d : d = LoopOrder[k]
      OBVIOUS
    <3>2. ins = <<d, d>>
      <4>1. row = Row(Alike(d, 2), Bool)
        BY <1>3, <2>2, <2>3, <2>4, <3>1, CompareRows
      <4>2. Alike(d, 2) = <<d, d>>
        BY DEF Alike
      <4> QED  BY <1>4, <4>1, <4>2 DEF Row
    <3>3. Promote(d, d) = d
      BY DEF Promote
    <3>4. ins[1] = d /\ ins[2] = d
      BY <3>2
    <3>5. ComputedIn(op, ins) = <<d, d>>
      BY <1>7, <3>3, <3>4, GreaterIn
    <3> QED
      BY <1>5, <3>2, <3>5
  <2>5. CASE k \in {10, 11}
    <3>1. ins \in {<<I64, U64>>, <<U64, I64>>}
      BY <1>3, <1>4, <2>2, <2>5, CompareRows DEF Row
    <3>2. ins[1] \in {I64, U64} /\ ins[2] \in {I64, U64} /\ U64 \in {ins[1], ins[2]}
          /\ ins[1] # ins[2]
      BY <3>1 DEF I64, U64, DT
    <3>3. rule # "no"
      <4>1. SUFFICES ASSUME rule = "no" PROVE FALSE
        OBVIOUS
      <4>2. from[1] = ins[1] /\ from[2] = ins[2]
        BY <1>5, <2>1, <4>1 DEF CanCast
      <4> QED
        BY <1>7, <3>2, <4>2 DEF Excused
    <3>4. ComputedIn(op, ins) = <<F64, F64>>
      <4>1. Promote(ins[1], ins[2]) = F64
        BY <3>1, MixedPromote
      <4> QED
        BY <1>7, <4>1, GreaterIn
    <3>5. CanCast(from[i], F64, rule)
      BY <1>5, <2>1, <3>2, <3>3, MixedObeys
    <3> QED
      BY <2>1, <3>4, <3>5
  <2> QED
    BY <2>4, <2>5
<1> QED
  BY <1>6, <1>7

----------------------------------------------------------------------------
(* Folds: the dtype a fold has of its own has an arm for it.                  *)

\* The dtype of a fold, operation by operation.
FoldGives(op, d) ==
    CASE op = "add"                       -> IF d.kind \in Counting THEN DT(d.kind, 64)
                                             ELSE BoolTo(d, I64)
      [] op = "greater"                   -> Only({"Bool"}, d)
      [] op = "hypot"                     -> OutDtype("hypot", <<d, d>>)
      [] OTHER                            -> BinaryGives(op, d)

LEMMA FoldGive ==
  ASSUME NEW op \in FoldOps, NEW d \in Numeric
  PROVE  FoldDtype(op, d) = FoldGives(op, d)
<1>1. Promote(d, d) = d
  BY PromoteNumerics
<1>2. CASE op \in MathBinary
  <2>1. FoldDtype(op, d) = MathBinaryOut(op, d, d)
    BY <1>2 DEF FoldDtype, MathBinary
  <2>2. PICK ins : ins = <<d, d>>
    OBVIOUS
  <2>3. OutDtype(op, ins) = MathBinaryOut(op, d, d)
    <3>1. op \in BinaryOps \ {"ldexp"} /\ op \notin PlainBinary
      BY <1>2 DEF BinaryOps, MathBinary, PlainBinary
    <3>2. ins[1] = d /\ ins[2] = d
      BY <2>2
    <3> QED  BY <1>2, <3>1, <3>2, PairDtype
  <2>4. CASE op = "hypot"
    BY <2>1, <2>2, <2>3, <2>4 DEF FoldGives
  <2>5. CASE op # "hypot"
    <3>1. op \in Promoting
      BY <1>2, <2>5 DEF Promoting, BinaryOps, MathBinary
    <3>2. ins[1] = d /\ ins[2] = d
      BY <2>2
    <3>3. OutDtype(op, ins) = BinaryGives(op, d)
      BY <1>1, <3>1, <3>2, BinaryGive
    <3>4. FoldGives(op, d) = BinaryGives(op, d)
      BY <1>2, <2>5 DEF FoldGives, MathBinary
    <3> QED  BY <2>1, <2>3, <3>3, <3>4
  <2> QED  BY <2>4, <2>5
<1>3. CASE op \in PlainBinary
  <2>1. op \notin MathBinary
    BY <1>3 DEF PlainBinary, MathBinary
  <2>2. CASE op \in {"add", "greater"}
    BY <2>1, <2>2 DEF FoldDtype, FoldGives
  <2>3. CASE op \in {"logical_and", "bitwise_and", "left_shift", "subtract"}
    BY <2>1, <2>3 DEF FoldDtype, FoldGives, BinaryGives
  <2>4. CASE op \in {"floor_divide", "divide", "maximum"}
    BY <2>1, <2>4 DEF FoldDtype, FoldGives, BinaryGives
  <2> QED
    BY <1>3, <2>2, <2>3, <2>4 DEF PlainBinary
<1> QED
  BY <1>2, <1>3 DEF FoldOps

LEMMA ArmsAre ==
  /\ Arms["Bool"] = {"add", "maximum", "bitwise_and", "logical_and", "greater",
                     "power", "fmod", "fmax"}
  /\ \A kind \in Counting :
       Arms[kind] = {"add", "subtract", "maximum", "bitwise_and", "floor_divide",
                     "left_shift", "power", "fmod", "fmax", "gcd"}
  /\ Arms["Float"] = {"add", "subtract", "divide", "floor_divide", "maximum",
                      "power", "fmod", "fmax", "hypot"}
  /\ Arms["Complex"] = {"add", "subtract", "divide", "maximum", "power", "fmax"}
<1>1. "Bool" \in Any /\ "Float" \in Any /\ "Complex" \in Any /\ Counting \subseteq Any
  BY DEF Any, Numbers, Inexact
<1>2. "Bool" \notin Counting /\ "Float" \notin Counting /\ "Complex" \notin Counting
  BY DEF Counting
<1>3. Arms["Bool"] = {"add", "maximum", "bitwise_and", "logical_and", "greater",
                      "power", "fmod", "fmax"}
  BY <1>1, <1>2 DEF Arms
<1>4. ASSUME NEW kind \in Counting
      PROVE  Arms[kind] = {"add", "subtract", "maximum", "bitwise_and", "floor_divide",
                           "left_shift", "power", "fmod", "fmax", "gcd"}
  <2>1. kind \in Any /\ kind # "Bool" /\ kind # "Float" /\ kind # "Complex"
    BY <1>1, <1>2
  <2> QED  BY <2>1 DEF Arms
<1>5. Arms["Float"] = {"add", "subtract", "divide", "floor_divide", "maximum",
                       "power", "fmod", "fmax", "hypot"}
  BY <1>1, <1>2 DEF Arms
<1>6. Arms["Complex"] = {"add", "subtract", "divide", "maximum", "power", "fmax"}
  BY <1>1, <1>2 DEF Arms
<1> QED
  BY <1>3, <1>4, <1>5, <1>6

LEMMA FoldsHaveArms ==
  ASSUME NEW op \in FoldOps, NEW d \in Numeric,
         NEW fold, fold = FoldDtype(op, d), fold # None
  PROVE  op \in Arms[fold.kind]
<1>1. fold = FoldGives(op, d)
  BY FoldGive
<1>2. /\ d.kind \in Any /\ (d = Bool <=> d.kind = "Bool") /\ (d # Bool => d.kind \in Numbers)
  BY KindsOfBool
<1>3. I8.kind = "Int" /\ I64.kind = "Int" /\ Bool.kind = "Bool" /\ F64.kind = "Float"
  BY DEF I8, I64, Bool, F64, DT
<1>4. /\ \A k : k \in Any <=> k \in Counting \/ k = "Bool" \/ k = "Float" \/ k = "Complex"
      /\ \A k : k \in Numbers <=> k \in Counting \/ k = "Float" \/ k = "Complex"
      /\ "Int" \in Counting
  BY DEF Any, Numbers, Inexact, Counting
<1>5. CASE op = "add"
  <2>1. fold.kind \in Any
    BY <1>1, <1>2, <1>3, <1>4, <1>5 DEF FoldGives, BoolTo, DT
  <2> QED  BY <1>4, <1>5, <2>1, ArmsAre
<1>6. CASE op \in {"maximum", "fmax"}
  <2>1. fold = d
    BY <1>1, <1>6 DEF FoldGives, BinaryGives
  <2> QED  BY <1>2, <1>4, <1>6, <2>1, ArmsAre
<1>7. CASE op \in {"greater", "logical_and"}
  <2>1. fold.kind = "Bool"
    <3>1. CASE op = "greater"
      <4>1. fold = IF d.kind \in {"Bool"} THEN d ELSE None
        BY <1>1, <3>1 DEF FoldGives, Only
      <4> QED  BY <4>1
    <3>2. CASE op = "logical_and"
      BY <1>1, <1>3, <3>2 DEF FoldGives, BinaryGives
    <3> QED  BY <1>7, <3>1, <3>2
  <2> QED  BY <1>7, <2>1, ArmsAre
<1>8. CASE op \in {"bitwise_and", "gcd"}
  <2>1. fold = IF op = "gcd" THEN Only(Counting, d) ELSE Only({"Bool"} \union Counting, d)
    BY <1>1, <1>8 DEF FoldGives, BinaryGives
  <2>2. fold = d /\ (d.kind \in Counting \/ (op = "bitwise_and" /\ d.kind = "Bool"))
    BY <1>8, <2>1 DEF Only
  <2> QED  BY <1>8, <2>2, ArmsAre
<1>9. CASE op = "left_shift"
  <2>1. fold = Only(Counting, BoolTo(d, I8))
    BY <1>1, <1>9 DEF FoldGives, BinaryGives
  <2>2. fold.kind \in Counting
    BY <2>1 DEF Only
  <2> QED  BY <1>9, <2>2, ArmsAre
<1>10. CASE op \in {"subtract", "power"}
  <2>1. fold = IF op = "power" THEN BoolTo(d, I8) ELSE BoolTo(d, None)
    BY <1>1, <1>10 DEF FoldGives, BinaryGives
  <2>2. fold.kind \in Numbers
    BY <1>2, <1>3, <1>4, <2>1 DEF BoolTo
  <2> QED  BY <1>4, <1>10, <2>2, ArmsAre
<1>11. CASE op \in {"floor_divide", "fmod"}
  <2>1. fold = Only(Ordered, BoolTo(d, I8))
    BY <1>1, <1>11 DEF FoldGives, BinaryGives
  <2>2. fold.kind \in Counting \/ fold.kind = "Float"
    BY <2>1 DEF Only, Ordered
  <2> QED  BY <1>11, <2>2, ArmsAre
<1>12. CASE op = "divide"
  <2>1. fold = IF d.kind \in {"Bool"} \union Counting THEN F64 ELSE d
    BY <1>1, <1>12 DEF FoldGives, BinaryGives
  <2>2. fold.kind \in {"Float", "Complex"}
    BY <1>2, <1>3, <1>4, <2>1
  <2> QED  BY <1>12, <2>2, ArmsAre
<1>13. CASE op = "hypot"
  <2>1. fold = OutDtype("hypot", <<d, d>>)
    BY <1>1, <1>13 DEF FoldGives
  <2>2. PICK bits : fold = DT("Float", bits)
    BY <2>1, HypotDtype
  <2>3. fold.kind = "Float"
    BY <2>2 DEF DT
  <2> QED  BY <1>13, <2>3, ArmsAre
<1> QED
  BY <1>5, <1>6, <1>7, <1>8, <1>9, <1>10, <1>11, <1>12, <1>13
  DEF FoldOps, PlainBinary, MathBinary

----------------------------------------------------------------------------
(* The calls of a session.                                                    *)

\* A scalar is extracted to a number, whatever it stands beside.
LEMMA ScalarsAreNumeric ==
  ASSUME NEW op, NEW d \in Numeric, NEW v, v.scalar \in ScalarKinds
  PROVE  /\ StrongDefault(v.scalar) \in Numeric
         /\ LdexpExponent(v) \in Numeric
         /\ ScalarAgainst(op, d, v) \in Numeric
         /\ OperatorScalar(op, d, v) \in Numeric
<1>1. F64 \in Numeric /\ I64 \in Numeric /\ U64 \in Numeric
  BY NumericFromShape DEF F64, I64, U64
<1>2. PICK s \in Numeric : s = StrongDefault(v.scalar)
  BY DefaultsAreNumeric
<1>3. PICK t \in Numeric : t = WeakTargetSuSafe(d, v.scalar)
  BY TargetHolds
<1>4. t = Bool \/ IsInteger(t) => FloatTier(t) \in Numeric
  <2>1. t = Bool \/ IsInteger(t) => ~IsComplex(t)
    BY DEF IsInteger, IsComplex, Bool, DT
  <2> QED  BY <2>1, TierShape
<1>5. ScalarAgainst(op, d, v) \in {F64, FloatTier(t), I64, U64, t}
      /\ (ScalarAgainst(op, d, v) = FloatTier(t) => t = Bool \/ IsInteger(t)
                                                    \/ ScalarAgainst(op, d, v) \in {F64, I64, U64, t})
  BY <1>3 DEF ScalarAgainst
<1>6. OperatorScalar(op, d, v) \in {s, F64, t}
  BY <1>2, <1>3 DEF OperatorScalar
<1>7. LdexpExponent(v) \in {U64, s}
  BY <1>2 DEF LdexpExponent
<1> QED
  BY <1>1, <1>2, <1>3, <1>4, <1>5, <1>6, <1>7

LEMMA PassedIs ==
  ASSUME NEW x \in Passed
  PROVE  /\ ~IsWeak(x) => x \in Numeric
         /\ IsWeak(x) => x.scalar \in ScalarKinds
<1>1. x \in Arrays => x \in Numeric /\ ~IsWeak(x)
  BY UfuncsAssumption, ArraysAreStrong
<1>2. x \in Scalars => IsWeak(x) /\ x.scalar \in ScalarKinds
  BY UfuncsAssumption DEF IsWeak
<1> QED
  BY <1>1, <1>2 DEF Passed

LEMMA ExtractedKnown ==
  ASSUME NEW op, NEW args,
         \/ op \in UnaryOps /\ \E x \in Passed : args = <<x>>
         \/ op \in BinaryOps /\ \E x, y \in Passed : args = <<x, y>>
  PROVE  Known(op, Extracted(op, args))
<1>1. ASSUME op \in UnaryOps, NEW x \in Passed, args = <<x>>
      PROVE  Known(op, Extracted(op, args))
  <2>1. Len(args) = 1 /\ args[1] = x
    BY <1>1
  <2>2. Extracted(op, args) = <<IF IsWeak(x) THEN StrongDefault(x.scalar) ELSE x>>
    BY <2>1 DEF Extracted
  <2>3. (IF IsWeak(x) THEN StrongDefault(x.scalar) ELSE x) \in Numeric
    BY PassedIs, DefaultsAreNumeric
  <2> QED
    BY <1>1, <2>2, <2>3 DEF Known
<1>2. ASSUME op \in BinaryOps, NEW x \in Passed, NEW y \in Passed, args = <<x, y>>
      PROVE  Known(op, Extracted(op, args))
  <2>1. Len(args) = 2 /\ args[1] = x /\ args[2] = y
    BY <1>2
  <2> DEFINE alone(z) == IF IsWeak(z) THEN StrongDefault(z.scalar) ELSE z
  <2> DEFINE first == CASE ~IsWeak(x) -> x
                        [] IsWeak(y)  -> alone(x)
                        [] OTHER      -> ScalarAgainst(op, y, x)
  <2> DEFINE second == CASE ~IsWeak(y) -> y
                         [] IsWeak(x)  -> alone(y)
                         [] op = "ldexp" /\ IsWeak(y) /\ ~IsWeak(x) -> LdexpExponent(y)
                         [] OTHER      -> ScalarAgainst(op, x, y)
  <2>2. Extracted(op, args) = <<first, second>>
    BY <2>1 DEF Extracted
  <2>3. first \in Numeric
    <3>1. CASE ~IsWeak(x)
      BY <3>1, PassedIs
    <3>2. CASE IsWeak(x) /\ IsWeak(y)
      <4>1. first = StrongDefault(x.scalar)
        BY <3>2
      <4> QED  BY <3>2, <4>1, PassedIs, DefaultsAreNumeric
    <3>3. CASE IsWeak(x) /\ ~IsWeak(y)
      <4>1. first = ScalarAgainst(op, y, x)
        BY <3>3
      <4>2. y \in Numeric /\ x.scalar \in ScalarKinds
        BY <3>3, PassedIs
      <4> QED  BY <4>1, <4>2, ScalarsAreNumeric
    <3> QED  BY <3>1, <3>2, <3>3
  <2>4. second \in Numeric
    <3>1. CASE ~IsWeak(y)
      BY <3>1, PassedIs
    <3>2. CASE IsWeak(y) /\ IsWeak(x)
      <4>1. second = StrongDefault(y.scalar)
        BY <3>2
      <4> QED  BY <3>2, <4>1, PassedIs, DefaultsAreNumeric
    <3>3. CASE IsWeak(y) /\ ~IsWeak(x)
      <4>1. second = IF op = "ldexp" THEN LdexpExponent(y) ELSE ScalarAgainst(op, x, y)
        BY <3>3
      <4>2. x \in Numeric /\ y.scalar \in ScalarKinds
        BY <3>3, PassedIs
      <4> QED  BY <4>1, <4>2, ScalarsAreNumeric
    <3> QED  BY <3>1, <3>2, <3>3
  <2> HIDE DEF first, second
  <2> QED
    BY <1>2, <2>2, <2>3, <2>4 DEF Known
<1> QED
  BY <1>1, <1>2

\* A call on its way: its operands are numbers, as many as its ufunc takes; what
\* it is computed in was let pass by the rule, or chosen for the dtype asked
\* for; and no fold without a dtype comes to a function that lacks its arm.
OnItsWay(c) ==
    /\ c.stage \in {"extracted", "coerced", "typed"} => Known(c.op, c.from)
    /\ c.stage = "typed" =>
         /\ c.rule \in Rules
         /\ c.asked = None => c.ins = c.from /\ (c.rule = "no" => PassesNo(c.op, c.from))
         /\ c.asked # None =>
              /\ c.asked \in Numeric
              /\ c.ins = Resolved(c.op, c.from, c.asked, c.rule) /\ c.ins # <<>>
    /\ c.stage = "panicked" => c.asked # None

Elsewhere == {"idle", "computed", "folded", "stored"}

LEMMA RaiseOnItsWay == ASSUME Raise PROVE OnItsWay(call)'
BY DEF Raise, Idle, OnItsWay

LEMMA ElsewhereOnItsWay ==
  ASSUME NEW c, c.stage \in Elsewhere
  PROVE  OnItsWay(c)
BY DEF OnItsWay, Elsewhere

LEMMA OperatorsAreUfuncs ==
  BinaryOperators \subseteq BinaryOps /\ UnaryOperators \subseteq UnaryOps
BY DEF BinaryOperators, UnaryOperators, BinaryOps, UnaryOps, PlainBinary, MathBinary,
       PlainUnary, MathUnary, PureUnary

LEMMA CoercedOnItsWay ==
  ASSUME NEW c, c.stage = "coerced", Known(c.op, c.from)
  PROVE  OnItsWay(c)
BY DEF OnItsWay

LEMMA StartOnItsWay == ASSUME Start PROVE OnItsWay(call)'
<1>1. ASSUME NEW op, NEW args, CallUfunc(op, args),
             \/ op \in UnaryOps /\ \E x \in Passed : args = <<x>>
             \/ op \in BinaryOps /\ \E x, y \in Passed : args = <<x, y>>
      PROVE  OnItsWay(call)'
  <2>1. PICK from : from = Extracted(op, args)
    OBVIOUS
  <2>2. Known(op, from)
    BY <1>1, <2>1, ExtractedKnown
  <2>3. CASE call' = [stage |-> "extracted", op |-> op, from |-> from]
    <3>1. call'.stage = "extracted" /\ call'.op = op /\ call'.from = from
      BY <2>3
    <3> QED  BY <2>2, <3>1 DEF OnItsWay
  <2>4. CASE Raise
    BY <2>4, RaiseOnItsWay
  <2> QED
    BY <1>1, <2>1, <2>3, <2>4 DEF CallUfunc
<1>2. ASSUME NEW op \in BinaryOperators, NEW d \in Arrays, NEW x \in Passed,
             NEW o, o = IF IsWeak(x) THEN OperatorScalar(op, d, x) ELSE x
      PROVE  Known(op, <<d, o>>) /\ Known(op, <<o, d>>)
  <2>1. d \in Numeric
    BY UfuncsAssumption
  <2>2. o \in Numeric
    BY <1>2, <2>1, PassedIs, ScalarsAreNumeric
  <2>3. op \in BinaryOps
    BY OperatorsAreUfuncs
  <2> QED
    BY <2>1, <2>2, <2>3 DEF Known
<1>3. ASSUME NEW op \in BinaryOperators, NEW d \in Arrays, NEW x \in Passed,
             NEW reflected \in BOOLEAN, Operate(op, d, x, reflected)
      PROVE  OnItsWay(call)'
  <2>1. PICK o : o = IF IsWeak(x) THEN OperatorScalar(op, d, x) ELSE x
    OBVIOUS
  <2>2. PICK args, from : /\ call' = [stage |-> "coerced", op |-> op, args |-> args,
                                      from |-> from, into |-> None]
                          /\ from = <<d, o>> \/ from = <<o, d>>
    <3>1. CASE reflected
      BY <1>3, <2>1, <3>1 DEF Operate
    <3>2. CASE ~reflected
      BY <1>3, <2>1, <3>2 DEF Operate
    <3> QED  BY <3>1, <3>2
  <2>3. Known(op, from)
    BY <1>2, <2>1, <2>2
  <2>4. call'.stage = "coerced" /\ call'.op = op /\ call'.from = from
    BY <2>2
  <2> QED
    BY <2>3, <2>4 DEF OnItsWay
<1>4. ASSUME NEW op \in BinaryOperators, NEW d \in Arrays, NEW x \in Passed,
             OperateInPlace(op, d, x)
      PROVE  OnItsWay(call)'
  <2>1. PICK o : o = IF IsWeak(x) THEN OperatorScalar(op, d, x) ELSE x
    OBVIOUS
  <2>2. PICK from : from = <<d, o>>
    OBVIOUS
  <2>3. call' = [stage |-> "coerced", op |-> op, args |-> <<d, x>>,
                 from |-> from, into |-> d]
    BY <1>4, <2>1, <2>2 DEF OperateInPlace
  <2>4. Known(op, from)
    BY <1>2, <2>1, <2>2
  <2>5. call'.stage = "coerced" /\ call'.op = op /\ call'.from = from
    BY <2>3
  <2> QED
    BY <2>4, <2>5 DEF OnItsWay
<1>5. ASSUME NEW op \in UnaryOperators, NEW d \in Arrays, OperateAlone(op, d)
      PROVE  OnItsWay(call)'
  <2>1. PICK from : from = <<d>>
    OBVIOUS
  <2>2. call' = [stage |-> "coerced", op |-> op, args |-> <<d>>, from |-> from,
                 into |-> None]
    BY <1>5, <2>1 DEF OperateAlone
  <2>3. Known(op, from)
    BY <2>1, UfuncsAssumption, OperatorsAreUfuncs DEF Known
  <2>4. call'.stage = "coerced" /\ call'.op = op /\ call'.from = from
    BY <2>2
  <2> QED
    BY <2>3, <2>4 DEF OnItsWay
<1>6. ASSUME NEW op \in FoldOps, NEW d \in Arrays, NEW asked, FoldIn(op, d, asked)
      PROVE  OnItsWay(call)'
  <2>1. PICK own : own = FoldDtype(op, d)
    OBVIOUS
  <2>2. PICK fold : fold = IF asked = None \/ (op = "greater" /\ own = None) THEN own ELSE asked
    OBVIOUS
  <2>3. CASE Raise
    BY <2>3, RaiseOnItsWay
  <2>4. CASE call' = [stage |-> "folded", out |-> fold]
    <3>1. call'.stage = "folded"
      BY <2>4
    <3> QED  BY <3>1 DEF OnItsWay
  <2>5. CASE /\ fold # None /\ op \notin Arms[fold.kind]
             /\ call' = [stage |-> "panicked", op |-> op, asked |-> asked]
    <3>1. call'.stage = "panicked" /\ call'.asked = asked
      BY <2>5
    <3>2. asked # None
      <4>1. SUFFICES ASSUME asked = None PROVE FALSE
        OBVIOUS
      <4>2. fold = own /\ own # None
        BY <2>2, <2>5, <4>1
      <4>3. d \in Numeric
        BY UfuncsAssumption
      <4>4. op \in Arms[fold.kind]
        BY <2>1, <4>2, <4>3, FoldsHaveArms
      <4> QED  BY <2>5, <4>4
    <3> QED  BY <3>1, <3>2 DEF OnItsWay
  <2> QED
    BY <1>6, <2>1, <2>2, <2>3, <2>4, <2>5 DEF FoldIn
<1>7. CASE \E op \in UnaryOps, x \in Passed : CallUfunc(op, <<x>>)
  BY <1>1, <1>7
<1>8. CASE \E op \in BinaryOps, x, y \in Passed : CallUfunc(op, <<x, y>>)
  BY <1>1, <1>8
<1> QED
  BY <1>3, <1>4, <1>5, <1>6, <1>7, <1>8 DEF Start, Reduce, Accumulate

LEMMA TypedOnItsWay ==
  ASSUME NEW op, NEW from, Known(op, from), NEW ins, NEW rule \in Rules, NEW asked, NEW into,
         \/ asked = None /\ ins = from /\ (rule = "no" => PassesNo(op, from))
         \/ /\ asked # None /\ asked \in Numeric
            /\ ins = Resolved(op, from, asked, rule) /\ ins # <<>>,
         NEW c, c = [stage |-> "typed", op |-> op, from |-> from, ins |-> ins,
                     rule |-> rule, asked |-> asked, into |-> into]
  PROVE  OnItsWay(c)
<1>1. /\ c.stage = "typed" /\ c.op = op /\ c.from = from /\ c.ins = ins /\ c.rule = rule
      /\ c.asked = asked
  OBVIOUS
<1>2. Known(c.op, c.from) /\ c.rule \in Rules /\ c.stage # "panicked"
  BY <1>1
<1>3. c.asked = None => c.ins = c.from /\ (c.rule = "no" => PassesNo(c.op, c.from))
  BY <1>1
<1>4. c.asked # None =>
        /\ c.asked \in Numeric
        /\ c.ins = Resolved(c.op, c.from, c.asked, c.rule) /\ c.ins # <<>>
  BY <1>1
<1> QED
  BY <1>2, <1>3, <1>4 DEF OnItsWay

LEMMA GoOnItsWay == ASSUME OnItsWay(call), Go PROVE OnItsWay(call)'
<1>1. ASSUME NEW rule \in Rules, CheckCasting(rule) PROVE OnItsWay(call)'
  <2>1. PICK op, from : op = call.op /\ from = call.from
    OBVIOUS
  <2>2. Known(op, from)
    BY <1>1, <2>1 DEF CheckCasting, OnItsWay
  <2>3. \/ Raise
        \/ /\ rule # "no" \/ PassesNo(op, from)
           /\ call' = [stage |-> "typed", op |-> op, from |-> from, ins |-> from,
                       rule |-> rule, asked |-> None, into |-> None]
    <3>1. PICK loop : loop = CastingLoop(op, from)
      OBVIOUS
    <3>2. PassesNo(op, from) <=> \A i \in DOMAIN loop : loop[i] \in {None, from[i]}
      BY <3>1 DEF PassesNo
    <3> QED
      BY <1>1, <2>1, <3>1, <3>2 DEF CheckCasting, Typed
  <2>4. CASE Raise
    BY <2>4, RaiseOnItsWay
  <2>5. CASE /\ rule # "no" \/ PassesNo(op, from)
             /\ call' = [stage |-> "typed", op |-> op, from |-> from, ins |-> from,
                         rule |-> rule, asked |-> None, into |-> None]
    BY <2>2, <2>5, TypedOnItsWay
  <2> QED  BY <2>3, <2>4, <2>5
<1>2. ASSUME NEW rule \in Rules, NEW asked \in Numeric, ResolveDtype(rule, asked)
      PROVE  OnItsWay(call)'
  <2>1. PICK op, from : op = call.op /\ from = call.from
    OBVIOUS
  <2>2. Known(op, from)
    BY <1>2, <2>1 DEF ResolveDtype, OnItsWay
  <2>3. PICK ins : ins = Resolved(op, from, asked, rule)
    OBVIOUS
  <2>4. \/ Raise
        \/ /\ ins # <<>>
           /\ call' = [stage |-> "typed", op |-> op, from |-> from, ins |-> ins,
                       rule |-> rule, asked |-> asked, into |-> None]
    BY <1>2, <2>1, <2>3 DEF ResolveDtype, Typed
  <2>5. asked # None
    BY NumericIsSome
  <2>6. CASE Raise
    BY <2>6, RaiseOnItsWay
  <2>7. CASE /\ ins # <<>>
             /\ call' = [stage |-> "typed", op |-> op, from |-> from, ins |-> ins,
                         rule |-> rule, asked |-> asked, into |-> None]
    BY <2>2, <2>3, <2>5, <2>7, TypedOnItsWay
  <2> QED  BY <2>4, <2>6, <2>7
<1>3. CASE Apply
  <2>1. PICK op, from, into : op = call.op /\ from = call.from /\ into = call.into
    OBVIOUS
  <2>2. Known(op, from)
    BY <1>3, <2>1 DEF Apply, OnItsWay
  <2>3. \/ Raise
        \/ call' = [stage |-> "typed", op |-> op, from |-> from, ins |-> from,
                    rule |-> "same_kind", asked |-> None, into |-> into]
    BY <1>3, <2>1 DEF Apply, Typed
  <2>4. CASE Raise
    BY <2>4, RaiseOnItsWay
  <2>5. CASE call' = [stage |-> "typed", op |-> op, from |-> from, ins |-> from,
                      rule |-> "same_kind", asked |-> None, into |-> into]
    <3>1. "same_kind" \in Rules /\ "same_kind" # "no"
      BY DEF Rules
    <3> QED
      BY <2>2, <2>5, <3>1, TypedOnItsWay
  <2> QED  BY <2>3, <2>4, <2>5
<1>4. CASE Compute
  <2>1. CASE Raise
    BY <2>1, RaiseOnItsWay
  <2>2. ASSUME NEW out, call' = [stage |-> "computed", rule |-> call.rule,
                                 into |-> call.into, out |-> out]
        PROVE  OnItsWay(call)'
    <3>1. call'.stage \in Elsewhere
      BY <2>2 DEF Elsewhere
    <3> QED  BY <3>1, ElsewhereOnItsWay
  <2> QED
    BY <1>4, <2>1, <2>2 DEF Compute
<1>5. ASSUME NEW to, WriteOut(to) PROVE OnItsWay(call)'
  <2>1. CASE Raise
    BY <2>1, RaiseOnItsWay
  <2>2. ASSUME NEW from, NEW rule,
               call' = [stage |-> "stored", from |-> from, to |-> to, rule |-> rule]
        PROVE  OnItsWay(call)'
    <3>1. call'.stage \in Elsewhere
      BY <2>2 DEF Elsewhere
    <3> QED  BY <3>1, ElsewhereOnItsWay
  <2> QED
    BY <1>5, <2>1, <2>2 DEF WriteOut, Store
<1>6. CASE WriteInPlace
  <2>1. call'.stage \in Elsewhere
    BY <1>6 DEF WriteInPlace, Elsewhere
  <2> QED  BY <2>1, ElsewhereOnItsWay
<1>7. CASE Return
  BY <1>7, RaiseOnItsWay DEF Return
<1> QED
  BY <1>1, <1>2, <1>3, <1>4, <1>5, <1>6, <1>7 DEF Go

LEMMA SessionOnItsWay == SessionSpec => []OnItsWay(call)
<1>1. SessionInit => OnItsWay(call)
  BY DEF SessionInit, Idle, OnItsWay
<1>2. OnItsWay(call) /\ [SessionNext]_vars => OnItsWay(call)'
  <2> SUFFICES ASSUME OnItsWay(call), [SessionNext]_vars PROVE OnItsWay(call)'
    OBVIOUS
  <2>1. CASE Start  BY <2>1, StartOnItsWay
  <2>2. CASE Go  BY <2>2, GoOnItsWay
  <2>3. CASE UNCHANGED call
    BY <2>3 DEF OnItsWay
  <2> QED  BY <2>1, <2>2, <2>3 DEF SessionNext, vars
<1> QED
  BY <1>1, <1>2, PTL DEF SessionSpec

\* A call computes in a loop its ufunc declares, the first that holds its
\* operands, or in the one that gives the dtype it was asked for: output_dtype
\* and the loop tables of ufunc.rs, one match each, are one rule, for every
\* numeric dtype, every scalar and every order of calls.
THEOREM SessionComputesInALoop == SessionSpec => []ComputesInALoop
<1>1. OnItsWay(call) => ComputesInALoop
  <2> SUFFICES ASSUME OnItsWay(call) PROVE ComputesInALoop
    OBVIOUS
  <2>1. PICK c : c = call
    OBVIOUS
  <2>2. ASSUME c.stage = "typed", c.asked = None, c.op \in DOMAIN LoopTable
        PROVE  InALoop(c.op, c.from)
    BY <2>1, <2>2, EveryCallInALoop DEF OnItsWay
  <2>3. ASSUME c.stage = "typed", c.asked # None
        PROVE  \/ OutDtype(c.op, c.ins) = c.asked
               \/ c.op = "ldexp" /\ OutDtype(c.op, c.ins) = None
    BY <2>1, <2>3, AskedIsGiven DEF OnItsWay
  <2>4. c.stage = "panicked" => c.asked # None
    BY <2>1 DEF OnItsWay
  <2> QED
    BY <2>1, <2>2, <2>3, <2>4, Zenon DEF ComputesInALoop, InALoop
<1> QED
  BY <1>1, SessionOnItsWay, PTL

\* No operand is cast against the rule of its call, and no result is stored
\* against it: what casting='no' looks at (check_casting) and what dtype= is
\* resolved to are the dtypes the engine computes in.
THEOREM SessionCastsObey == SessionSpec => []CastsObeyTheRule
<1>1. OnItsWay(call) => OperandsObeyTheRule
  <2> SUFFICES ASSUME OnItsWay(call), call.stage = "typed",
                      ~Excused(call.op, call.from), OutDtype(call.op, call.ins) # None,
                      NEW i \in DOMAIN call.from
               PROVE  CanCast(call.from[i], ComputedIn(call.op, call.ins)[i], call.rule)
    BY DEF OperandsObeyTheRule
  <2>1. PICK op, from, ins, rule, asked :
          op = call.op /\ from = call.from /\ ins = call.ins /\ rule = call.rule
          /\ asked = call.asked
    OBVIOUS
  <2>2. Known(op, from) /\ rule \in Rules
    BY <2>1 DEF OnItsWay
  <2>3. CASE asked = None
    <3>1. ins = from /\ (rule = "no" => PassesNo(op, from))
      BY <2>1, <2>3 DEF OnItsWay
    <3> QED  BY <2>1, <2>2, <3>1, OwnOperandsObey
  <2>4. CASE asked # None
    <3>1. ins = Resolved(op, from, asked, rule) /\ ins # <<>>
      BY <2>1, <2>4 DEF OnItsWay
    <3> QED  BY <2>1, <2>2, <3>1, AskedOperandsObey
  <2> QED  BY <2>3, <2>4
<1>2. OperandsObeyTheRule /\ ResultsObeyTheRule => CastsObeyTheRule
  BY DEF CastsObeyTheRule
<1> QED
  BY <1>1, <1>2, SessionOnItsWay, SessionResultsObey, PTL
=============================================================================
