CONSTANTS
  Types = {A, B}
  Times <- Instants
  HandlerEntries <- AllEntries
  Live = TRUE
  MaxIterations = 3
  NoEvent = NoEvent
  MaxHandlers = 1
  MaxReducers = 0
  MaxOutbox = 1
  MaxSeq = 1
SPECIFICATION Spec
INVARIANTS PastPanicOnlyFromStalePush
