SPECIFICATION Spec

CONSTANTS
  Sources = {s1}
  LastVersion = 3
  Convertible = {1, 2, 3}
  Reverts = TRUE
  MAX_ATTEMPTS = 1
  None = None
  Torn = Torn

INVARIANTS SkippedIsUnchanged
