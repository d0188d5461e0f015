CONSTANTS
  Tasks = {a1, a2, m1, m2}
  Mortal = {m1, m2}
  NoTask = NoTask
SPECIFICATION FairSpec
INVARIANTS ListInv InOrder
PROPERTIES EventuallyTaken
CHECK_DEADLOCK FALSE
