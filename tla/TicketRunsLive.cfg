SPECIFICATION FairSpec
CONSTANTS
  Tickets = {t1}
  Procs = {p1, p2}
  None = None
  Complete = {t1}
  MaxParallel = 1
  MaxEvents = 1
  Serializable = TRUE
PROPERTIES RunNowServed UnattendedIsRecovered
