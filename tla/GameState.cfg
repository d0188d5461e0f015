CONSTANTS
  Players = {p1, p2}
  Staff = {p2}
  Requests = {"NORMAL", "MAINTAIN", "CLOSED", "SHUTDOWN"}
  StartStates = {"NORMAL", "CLOSED"}
  ShutdownAtGlobalSave = {TRUE, FALSE}
  DirectOpen = TRUE
  Kills = TRUE
  MaxQueue = 2
SPECIFICATION FairSpec
INVARIANTS StateInv
PROPERTIES ShutdownIsFinal PassingStatesEnd
CHECK_DEADLOCK FALSE
