---------------------------- MODULE MCArrayStore ----------------------------
(* Small instances of ArrayStore for TLC. *)
EXTENDS ArrayStore, TLC

Symmetry == Permutations(Handles) \cup Permutations(Buffers)
=============================================================================
