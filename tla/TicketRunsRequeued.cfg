SPECIFICATION Spec
CONSTANTS
  Tickets = {t1}
  Procs = {p1}
  None = None
  Complete = {t1}
  MaxParallel = 1
  MaxEvents = 0
  Serializable = FALSE
PROPERTY CompletedRunNotRequeued
