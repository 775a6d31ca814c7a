SPECIFICATION Spec
CONSTANTS
  c1 = c1
  c2 = c2
  Clients = {c1, c2}
  MaxSessions = 2
  FirstTick = 3
  MaxClock = 6
  DayLength = 4
  Offset = 2
  Keep = 1
  MaxCrashes = 1
INVARIANTS
  TypeOK
  WholeSessions
  TablesPresent
  UnusableOnlyByCrash
  NoTornRead
PROPERTIES
  RecentKept
  FreshItemsAreOpen
  ArchiveSpec
SYMMETRY ClientSymmetry
CHECK_DEADLOCK FALSE
