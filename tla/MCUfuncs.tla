------------------------------ MODULE MCUfuncs ------------------------------
(* Instance of Ufuncs: every numeric dtype, Python ints at the limits of the  *)
(* integer types, calls of result_type with two text dtypes among the others. *)
EXTENDS Ufuncs

MCArrays == Numeric

MCScalars ==
    {Scalar("Int", neg, bits) : neg \in BOOLEAN, bits \in {7, 8, 15, 16, 31, 32, 63, 64, 65}}
      \union {Scalar(kind, FALSE, 0) : kind \in {"Bool", "Float", "Complex"}}

MCGiven == Numeric \union {S(1), U(1)}
=============================================================================
