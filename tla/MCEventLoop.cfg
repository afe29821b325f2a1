\* Safety: every interleaving of up to four tasks, two of them suspended.
SPECIFICATION Spec
CONSTANTS
  i1 = i1 i2 = i2 i3 = i3 i4 = i4
  a = a b = b
  None = None
  Types <- MCAllTypes
  Payload <- MCOnePayload
  Task <- MCFourTasks
  Handlers <- MCHandlers
  EntryType = 1
  EntryValue = a
  MaxQueue = 2
  MaxWaiting = 2
SYMMETRY MCSymmetry
INVARIANTS TypeOK WaiterXorEvent HeapCoversQueues OnePlace AnswerMatchesAwait HandlersStartInOrder
PROPERTIES SmallestTypeFirst
