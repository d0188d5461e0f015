CONSTANTS
  Players = {p4}
  None = None
  Bags = {b1, b2, depot}
  Depot = depot
  DepotLimit = 2
  Tile = Tile
  Player = Player
  Slots = 2
  Room <- MCRoom
  StackSize = 3
  Capacity = 9
  Deepness = 1
  Traded = None
  MaxWorth = 4
  b1 = b1
  b2 = b2
  depot = depot
  Monsters = {m1, m2}
  Spots = {s1, s2}
  w1 = w1
  w2 = w2
  Watchers = {w1, w2}
  Beasts = {x1}
  SeesHidden = {w2}
  Hides = {w2}
  Leavers = {x1}
  Walkers = {w2, x1}
  g1 = g1
  g2 = g2
  s3 = s3
  s4 = s4
  d1 = d1
  Items = {g1, g2, s3, s4, d1}
  Kind <- MCKind
  Order <- MCOrder
  Props <- MCProps
  Recounted = {"path"}
  Lay <- MCLay
  Floor <- MCFloor
  There <- MCThere
  Width = 2
  WestSight = 0
  EastSight = 1
  Shown = 3
  KnownLimit = 2
  MaxItems = 4
SYMMETRY Symmetry
SPECIFICATION Spec
INVARIANTS   ClientInv
CHECK_DEADLOCK FALSE
