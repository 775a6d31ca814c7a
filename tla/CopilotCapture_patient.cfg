SPECIFICATION FairSpec
CONSTANTS
  MaxCaptures = 2
  MaxTurns = 1
  MaxExtras = 2
  Sizes = {tiny, small}
  Tiny = tiny
  Small = small
  tiny = tiny
  small = small
  Patient = TRUE
  LongHolds = {1}
INVARIANTS
  TypeOK
  RecordingIsWatched
  FreshCards
  CardsMatchSnippet
  SizeRestored
  TurnsOfThisSession
  MarkerTakenOnce
  HearsNoOtherCapture
PROPERTIES
  ReleaseAnswered
CHECK_DEADLOCK FALSE
