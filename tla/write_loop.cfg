SPECIFICATION Spec
CONSTANTS
  Buffers = {b1, b2}
  Size = 3
  MaxLen = 2
  Vals = {0, 1}
  True = 1
  Op <- Xor
  Entries = {"setitem", "scatter", "copyto", "inplace", "identity", "where"}
INVARIANTS SnapshotSemantics
PROPERTIES Returns
