\* Two pages that change twice, once into something that does not convert;
\* liveness, so no symmetry.
SPECIFICATION CmdFairSpec
CONSTANTS
  Sources = {s1, s2}
  LastVersion = 3
  Convertible = {1, 3}
  Reverts = FALSE
  MAX_ATTEMPTS = 2
  None = None
  Torn = Torn
  Cropped = Cropped
INVARIANTS CmdTypeOK ResultMatchesFile IndexedIsReported
PROPERTIES ListedIsOnDisk EveryRunEnds
