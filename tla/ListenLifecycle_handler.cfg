SPECIFICATION FairSpec
CONSTANTS
  MaxGen = 1
  Controllers = {"main", "sigterm"}
  JoinsMayExpire = FALSE
  Failures = {}
  SmartTrigger = FALSE
  StreamingSTT = FALSE
PROPERTY
  HandlerReturns
CHECK_DEADLOCK FALSE
