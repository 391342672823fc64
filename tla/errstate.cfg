SPECIFICATION ErrSpec
CONSTANTS
  Threads = {t1, t2}
  Objects = {o1, o2}
  divide = divide
  under = under
  Cats = {divide, under}
  Modes = {"warn", "call"}
  Default <- MCDefault
  Keep = Keep
  Overrides <- MCOverrides
  NoState = NoState
  NoObject = NoObject
  Shared = FALSE
  MaxDepth = 2
SYMMETRY Symmetry
INVARIANTS SavedIsScope
PROPERTIES RestoresOnExit
