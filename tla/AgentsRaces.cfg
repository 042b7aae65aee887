SPECIFICATION Spec
CONSTANTS
  Agents = {a1}
  Hosts = {h1, h2}
  None = None
  Cap = 1
  MaxTurns = 3
  MaxAsks = 1
  MaxEvents = 3
  Serializable = FALSE
SYMMETRY HostSymmetry
INVARIANTS TypeOK SoleHost  AsksAreParked ControlsHitTheirTurn ClearedMeansForgotten
PROPERTIES SettledOnce EndIsFinal
