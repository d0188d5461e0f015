CONSTANTS
  Players = {p1, p2}
  None = None
  MaxStates = 2
  Prototypes <- MCPrototypes
  ThinkInterval = 2
  Lag = 1
  Levels = {1, 2}
  MaxLate = 5
  MaxConditions = 2
  Types <- MCTypes
  decayTo <- MCDecayTo
  decayTime <- MCDecayTime
  stopTime <- MCStopTime
  Buckets = 4
  MaxEntries = 3
  StartHours = {7, 8, 9, 23}
  StartMinutes = {0, 10, 24, 25, 26, 27, 28, 29, 30, 31, 55, 56, 57, 58, 59}
  SaveHours = {8, 24}
  SaveMinutes = {0, 30, 59}
  Days = 3
SPECIFICATION Spec
SYMMETRY Symmetry
INVARIANTS ConditionsInv WheelInv NpcInv SaveInv
PROPERTY TimeIsKept
CHECK_DEADLOCK FALSE
