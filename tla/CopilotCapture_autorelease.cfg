SPECIFICATION FairSpec
CONSTANTS
  MaxCaptures = 1
  MaxTurns = 1
  MaxExtras = 0
  Sizes = {tiny, small}
  Tiny = tiny
  Small = small
  tiny = tiny
  small = small
  Patient = TRUE
  LongHolds = {1}
PROPERTIES
  AutoReleases
CHECK_DEADLOCK FALSE
