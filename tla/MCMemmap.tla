------------------------------ MODULE MCMemmap ------------------------------
(* Small instances of Memmap for TLC. *)
EXTENDS Memmap

MCContents == {<<>>, <<0, 1>>}
MCShapes == {<<>>, <<0>>, <<2, 2>>}
=============================================================================
