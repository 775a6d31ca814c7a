SPECIFICATION FairSpec
CONSTANTS
  MaxGen = 2
  Controllers = {"main", "calendar", "sigterm"}
  JoinsMayExpire = FALSE
  Failures = {"device", "write"}
  SmartTrigger = TRUE
  StreamingSTT = TRUE
INVARIANTS
  TypeOK
  OneThreadPerKind
  CapturePublished
  NoStoppedRead
  InactiveMeansQuiet
PROPERTIES
  SigtermExitsWhenFree
CHECK_DEADLOCK FALSE
