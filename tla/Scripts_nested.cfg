CONSTANTS
  Items = {i1, i2}
  Followed = {"sendmail", "tradeaccept"}
  Limit = 2
  MaxTimers = 1
  MaxReloads = 1
SPECIFICATION Spec
INVARIANT HasEnvironment
CHECK_DEADLOCK FALSE
