---------------------------- MODULE MCWriteLoop ----------------------------
(* Small instances of WriteLoop for TLC: + on one-bit elements. *)
EXTENDS WriteLoop

Xor(x, y) == (x + y) % 2
=============================================================================
