SPECIFICATION FairSpec
CONSTANTS
  NMsgs = 1
  NRuns = 5
  None = None
  MaxEvents = 4
  Serializable = TRUE
PROPERTIES MutationsHold FollowUpsSettle
