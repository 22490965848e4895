CONSTANTS
  Types <- ChainTypes
  Times <- Instants
  HandlerEntries <- ChainEntries
  Live = FALSE
  MaxIterations = 5
  NoEvent = NoEvent
  MaxHandlers = 3
  MaxReducers = 0
  MaxOutbox = 2
  MaxSeq = 2
SPECIFICATION Spec
INVARIANTS DispatchOrder HopBound
