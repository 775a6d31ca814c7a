SPECIFICATION Spec
CONSTANTS
  Requesters = {r1, r2}
  Meetings = {m}
  Cards = {c}
  Others = {o}
  NoPrompt = none
  Limit = 1
  MaxCost = 1
  TTL = 1
  DayLength = 2
  LastDay = 1
  MaxCalls = 3
  MaxFaults = 1
SYMMETRY RequesterSymmetry
INVARIANTS
  TypeOK
  OverdraftBounded
  PaidBeforeServed
  ReportAddsUp
