SPECIFICATION Spec
CONSTANTS
  NMsgs = 2
  NRuns = 2
  None = None
  MaxEvents = 4
  Serializable = FALSE
INVARIANTS TypeOK SoleRunsDropNothing HeardOnce HeardInOrder LoneInjectionIsCompleted
