CONSTANTS
  NetworkReplies = FALSE
  Flushing = TRUE
SPECIFICATION FairSpec
PROPERTIES CloseReturns
CHECK_DEADLOCK FALSE
