SPECIFICATION FairSpec
CONSTANTS
  Jobs = {j1, j2}
  None = None
  SkipJobs = {j1}
  Periods = {1, 2}
  MaxTime = 2
  MaxTickets = 2
  MaxEvents = 2
INVARIANTS TypeOK OneTicketPerFire NoOverlap FiresOnSchedule
PROPERTIES DueFiresHappen
CHECK_DEADLOCK FALSE
