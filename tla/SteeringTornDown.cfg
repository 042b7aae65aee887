SPECIFICATION Spec
CONSTANTS
  NMsgs = 1
  NRuns = 1
  None = None
  MaxEvents = 1
  Serializable = TRUE
PROPERTIES InjectionsAreNotTornDown
