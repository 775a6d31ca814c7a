SPECIFICATION FairSpec
CONSTANTS
  Keys = {gpt}
  LocalKeys = {}
  FALLBACK_MODELS = {}
  Callers = {c1, c2}
  Threshold = 1
  Cooldown = 1
  RetryMax = 0
  NoKey = none
  FailureCap = 2
PROPERTY
  OneTrial
