CONSTANTS
  Types <- ChainTypes
  Times <- Instants
  HandlerEntries <- FanEntries
  Live = TRUE
  MaxIterations = 9
  NoEvent = NoEvent
  MaxHandlers = 2
  MaxReducers = 1
  MaxOutbox = 1
  MaxSeq = 2
SPECIFICATION FairSpec
PROPERTIES RunTerminates ScheduledIsDispatched
