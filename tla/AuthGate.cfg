\* Two requests, with tokens of a key that is replaced, first by a value
\* that does not parse; liveness, so no symmetry.
CONSTANTS
  Callers = {c1, c2}
  TTL = 1
  Horizon = 2
  LastVersion = 2
  Garbage <- MCGarbage
  None = None
  Credentials <- MCCredentials

SPECIFICATION AuthFairSpec
INVARIANTS AuthTypeOK
PROPERTIES AdmittedKeyRecent DegradedMeansNoKey EveryRequestAnswered
