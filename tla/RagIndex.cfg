SPECIFICATION Spec
CONSTANTS
  Files = {pdf, txt}
  Watched = {pdf}
  Contents <- MCContents
  Says <- MCSays
  pdf = pdf
  txt = txt
  MaxCopies = 2
  MaxUnseen = 1
  Gone = gone
  NoText = noText
  NoFile = noFile
  a = a
  b = b
INVARIANTS
  TablesAgree
  NoStaleText
