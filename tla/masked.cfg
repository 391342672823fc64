SPECIFICATION Spec
CONSTANTS
  Objs = {1, 2, 3}
  Buffers = {1, 2, 3, 4}
  Value <- MCValue
  Finite <- MCFinite
  Masked = Masked
  None = None
  NoMask = NoMask
  NewData <- MCNewData
  NewMasks <- MCNewMasks
  Fills = {1}
  Unset = Unset
  Default = 0
  UnaryFns <- MCUnaryFns
  BinaryFns <- MCBinaryFns
  DomainedUnaryFns <- MCDomainedUnaryFns
  DomainedBinaryFns <- MCDomainedBinaryFns
  Rem <- MCRem
  RemFill = 1
  Preds <- MCPreds
  Eq <- MCEq
  Plus <- MCPlus
  Zero = 0
  Reductions <- MCReductions
  Mismatched = FALSE
  MaxLen = 2
  MaxCalls = 3
INVARIANTS TypeOK SameShape ReductionsSeeVisible
PROPERTIES ImplementsMaskedValues
CHECK_DEADLOCK FALSE
