SPECIFICATION FairSpec
CONSTANTS
  MaxGen = 1
  Controllers = {"main", "calendar", "sigterm"}
  JoinsMayExpire = TRUE
  Failures = {"import", "device", "write"}
  SmartTrigger = TRUE
  StreamingSTT = TRUE
PROPERTIES
  CallReturns
  LoopsEnd
CHECK_DEADLOCK FALSE
