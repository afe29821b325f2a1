SPECIFICATION Spec
CONSTANTS
  c1 = c1 c2 = c2 x = x y = y None = None
  Callers <- MCCallers
  Args <- MCArgs
  MaxCalls = 2
  MaxProcs = 2
  MaxLines = 1
  PipeSize = 1
CHECK_DEADLOCK FALSE
SYMMETRY MCSymmetry
INVARIANTS TypeOK OwnAnswer ReaderNeverBlocks PendingMatchesCalls
