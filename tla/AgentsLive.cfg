SPECIFICATION FairSpec
CONSTANTS
  Agents = {a1, a2}
  Hosts = {h1, h2}
  None = None
  Cap = 1
  MaxTurns = 1
  MaxAsks = 0
  MaxEvents = 2
  Serializable = TRUE
PROPERTIES MessagesSettle
