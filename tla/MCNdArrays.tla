------------------------------ MODULE MCNdArrays -------------------------------
EXTENDS Searches

MCShapes == {<<>>, <<0>>, <<1>>, <<3>>, <<6>>, <<2, 3>>, <<3, 1>>, <<2, 0>>, <<2, 2, 2>>}
MCExhausted == {3}
=============================================================================
