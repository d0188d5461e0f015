CONSTANTS
  NetworkReplies = FALSE
  Flushing = FALSE
  Players = {p1, p2, gm}
  Always = {gm}
  SkipValues = {TRUE, FALSE}
  MaxPlayers = 1
  Late = 2
  Protocols = {c1, c2}
  Objects = {o1, o2}
  AllowClones = 2
  ReplaceKickOnLogin = TRUE
  None = None
SPECIFICATION FairSpec
INVARIANTS WaitInv
PROPERTIES  PlacesAreFair 
CHECK_DEADLOCK FALSE
