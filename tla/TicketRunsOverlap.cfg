SPECIFICATION Spec
CONSTANTS
  Tickets = {t1}
  Procs = {p1, p2}
  None = None
  Complete = {t1}
  MaxParallel = 1
  MaxEvents = 2
  Serializable = FALSE
SYMMETRY ProcSymmetry
INVARIANTS TypeOK CrashVerdictSound OnlyKilledRunsLeak SoleRunIsCounted
