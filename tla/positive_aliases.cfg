SPECIFICATION Spec
CONSTANTS
  Handles = {h1, h2}
  Buffers = {b1, b2}
  Vals = {0, 1}
  MaxLen = 2
  NoHandle = NoHandle
  NoBuffer = NoBuffer
  Calls = {"new", "pos", "inplace"}
SYMMETRY Symmetry
PROPERTIES WritesStayInKin
