\* Handlers of two sectors that call, emit, await and fail, in all pairs.
SPECIFICATION ProgramSpec
CONSTANTS
  None = None
  FirstBodies = {"echo1", "twice", "send", "go", "gogo", "again", "renamed", "wait", "waitgo", "set", "match", "own", "return"}
  SecondBodies = {"echo2", "go", "gogo", "again", "wait", "waitgo", "set", "match", "own", "abort", "stop"}
  ThirdBodies = {"echo1", "own", "wait", "set"}
  EchoBodies = {"now", "emits", "awaits", "nested", "waits"}
  Programs <- MCPrograms
  Sectors = {"a", "b"}
  Owner <- MCOwner
  Local <- MCLocal
  SectorVar <- MCSectorVar
  Result <- MCResult
  Points <- MCPoints
  MaxRecords = 12
  Types <- MCTypes
  Payload <- MCPayload
  Task <- MCTask
  Handlers <- MCHandlers
  EntryType = 1
  EntryValue <- MCEntryValue
  MaxQueue = 8
  MaxWaiting = 8
INVARIANTS ProgramTypeOK VariablesBound EmitKeepsType
PROPERTIES EchoReturnsArgument
