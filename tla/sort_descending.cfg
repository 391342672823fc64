SPECIFICATION Spec
CONSTANTS
  Handles = {h1, h2}
  Buffers = {b1, b2}
  Vals = {0, 1}
  MaxLen = 3
  NoHandle = NoHandle
  NoBuffer = NoBuffer
  Calls = {"new", "view", "sort_desc"}
SYMMETRY Symmetry
PROPERTIES SortKeepsElements
