CONSTANTS
  Msgs = {m1, m2}
  NoMsg = NoMsg
  MaxUses = 1
SPECIFICATION FairSpec
INVARIANTS OperationsInv LifeInv
PROPERTIES CloseCompletes
CHECK_DEADLOCK FALSE
