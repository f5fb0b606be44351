\* One run after another; two pages of three chunks at most, sent in batches
\* of two, that grow, shrink and change hands, in an index that outgrows a page.
SPECIFICATION Spec

CONSTANTS
  Writers = {w1}
  Cli = {w1}
  LastId = 6
  MaxPlace = 3
  SourceOf <- MCSourceOf
  PlaceOf <- MCPlaceOf
  History <- MCHistory
  BatchSize = 2
  PageSize = 4
  None = None

INVARIANTS TypeOK UnchangedIsSpared
PROPERTIES CleanRunUpToDate IndexMovesForward
