SPECIFICATION Spec
CONSTANTS
  Tickets = {t1, t2}
  Procs = {p1, p2}
  None = None
  Complete = {t1}
  MaxParallel = 1
  MaxEvents = 2
  Serializable = TRUE
SYMMETRY ProcSymmetry
PROPERTIES BoardSpec VerdictFinal
