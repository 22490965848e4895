CONSTANTS
  Types = {A, B}
  Times <- Instants
  HandlerEntries <- AllEntries
  Live = FALSE
  MaxIterations = 3
  NoEvent = NoEvent
  MaxHandlers = 2
  MaxReducers = 2
  MaxOutbox = 2
  MaxSeq = 3
SPECIFICATION ReplaySpec
INVARIANTS TypeOK ReplayAgrees PastPanicOnlyFromStalePush ReducedView ProductionConsumed
PROPERTIES ClockMonotone ImplementsEventLoop
SYMMETRY Symmetry
