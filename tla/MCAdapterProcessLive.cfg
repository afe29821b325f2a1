SPECIFICATION FairSpec
CONSTANTS
  c1 = c1 c2 = c2 x = x y = y None = None
  Callers <- MCCallers
  Args <- MCArgs
  MaxCalls = 2
  MaxProcs = 1
  MaxLines = 0
  PipeSize = 1
CHECK_DEADLOCK FALSE
PROPERTIES CallEnds
