SPECIFICATION FairSpec
CONSTANTS
  MaxGen = 1
  Controllers = {"main"}
  JoinsMayExpire = TRUE
  Failures = {}
  SmartTrigger = FALSE
  StreamingSTT = TRUE
PROPERTY
  StreamingEnds
