\* Refinement and turns, with distinguishable events of one type.
SPECIFICATION FairSpec
CONSTANTS
  i1 = i1 i2 = i2 i3 = i3 i4 = i4
  a = a b = b
  None = None
  Types <- MCPairTypes
  Payload <- MCTwoPayloads
  Task <- MCTwoTasks
  Handlers <- MCSingleHandlers
  EntryType = 1
  EntryValue = a
  MaxQueue = 2
  MaxWaiting = 1
PROPERTIES ImplementsEventBus RunnableGetsTurn
