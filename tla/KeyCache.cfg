\* Three calls, so that two wait behind one; a TTL of two ticks inside a
\* horizon of three, so that a slot filled late expires and is filled again;
\* a bad key and its repair.
CONSTANTS
  Callers = {c1, c2, c3}
  TTL = 2
  Horizon = 3
  LastVersion = 2
  Garbage <- MCGarbage
  None = None
SYMMETRY MCCallerSymmetry
SPECIFICATION Spec
INVARIANTS TypeOK LockDiscipline SlotWithinTTL NothingFromBeforeBoot
PROPERTIES KeyWithinTTL SlotMovesForward OneFetchPerExpiry KeepsPromise
