\* An event of type 3, which has no handler, is emitted and nobody awaits it.
SPECIFICATION Spec
CONSTANTS
  i1 = i1 i2 = i2 i3 = i3 i4 = i4
  a = a b = b
  None = None
  Types <- MCAllTypes
  Payload <- MCOnePayload
  Task <- MCFourTasks
  Handlers <- MCHandlers
  EntryType = 1
  EntryValue = a
  MaxQueue = 2
  MaxWaiting = 2
INVARIANTS DispatchMakesRunnable
