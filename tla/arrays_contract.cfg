SPECIFICATION Spec
CONSTANTS
  Handles = {h1, h2, h3}
  Buffers = {b1, b2, b3}
  Vals = {0, 1}
  MaxLen = 2
  NoHandle = NoHandle
  NoBuffer = NoBuffer
  Calls = {"new", "copy", "array", "take", "view", "broadcast_to", "asarray", "reshape_copy", "pos", "base", "del", "setitem", "copyto", "inplace"}
SYMMETRY Symmetry
INVARIANTS BaseOwnsBuffer KinShare BaseIsRoot InBounds
PROPERTIES ImplementsViewContract
