----------------------------- MODULE MCErrState -----------------------------
(* A small instance of ErrState for TLC: errstate objects that set the first *)
(* of two categories and leave the other alone.                              *)
EXTENDS ErrState, TLC

CONSTANTS divide, under

MCDefault == [c \in Cats |-> "warn"]
MCOverrides == [o \in Objects |-> [c \in Cats |-> IF c = divide THEN "call" ELSE Keep]]
Symmetry == Permutations(Threads) \cup Permutations(Objects)
=============================================================================
