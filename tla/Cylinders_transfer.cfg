CONSTANTS
  Bags = {b1, b2, depot}
  Depot = depot
  DepotLimit = 2
  Tile = Tile
  Player = Player
  Slots = 2
  Room <- MCRoom
  Stack = 3
  Capacity = 9
  Deepness = 1
  Traded = None
  MaxWorth = 5
  None = None
  b1 = b1
  b2 = b2
  depot = depot
SPECIFICATION Spec
PROPERTY NothingLostByTransfer
CHECK_DEADLOCK FALSE
