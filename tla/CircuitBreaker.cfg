SPECIFICATION FairSpec
CONSTANTS
  Keys = {gpt, ollama}
  LocalKeys = {ollama}
  FALLBACK_MODELS = {gpt, gemini}
  Callers = {c1, c2}
  Threshold = 2
  Cooldown = 1
  RetryMax = 1
  NoKey = none
  FailureCap = 2
INVARIANTS
  TypeOK
  TripsOnConsecutiveFailures
PROPERTIES
  CallReturns
  Recovers
