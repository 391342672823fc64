SPECIFICATION Spec
CONSTANTS
  Handles = {h1, h2}
  Buffers = {b1, b2}
  Vals = {0, 1}
  MaxLen = 3
  NoHandle = NoHandle
  NoBuffer = NoBuffer
  Calls = {"new", "copy", "array", "take", "view", "broadcast_to", "asarray", "reshape_copy", "base", "del", "setitem", "copyto", "inplace", "cow", "sort", "sort_desc", "fill", "imatmul", "shuffle_1d", "shuffle_nd"}
SYMMETRY Symmetry
INVARIANTS StrangersNeverShare
PROPERTIES WritesStayInKin
