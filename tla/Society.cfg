CONSTANTS
  Players = {p1, p2}
  None = None
  Partners = {q1, q2, q3}
  Normal = {n}
  GuildIds = {g}
  Parties = {q}
  PrivateIds = {100, 101}
  Guilds = {g1, g2}
  HouseMap <- MCHouseMap
  c1 = c1
  c2 = c2
  h1 = h1
  Rent = 1
  Price = 1
  Period = 2
  WarningsLimit = 1
  Fortune = 2
  MaxTime = 4
  Items = {i1, i2}
  Containers = {i1, i2}
  Bands = {x1, x2}
  Protocols = {c1, c2, c3}
  Objects = {o1, o2}
  AllowClones = 1
  ReplaceKickOnLogin = TRUE
SPECIFICATION Spec
INVARIANTS ChatInv GuildInv HousesInv TradeInv PartyInv SessionInv
PROPERTIES HandsOver
SYMMETRY Symmetry
CHECK_DEADLOCK FALSE
