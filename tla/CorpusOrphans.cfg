SPECIFICATION Spec

CONSTANTS
  Writers = {w1}
  Cli = {}
  LastId = 3
  MaxPlace = 3
  SourceOf <- MCSourceOf
  PlaceOf <- MCPlaceOf
  History <- MCHistory
  BatchSize = 2
  PageSize = 3
  None = None

PROPERTIES GoneChunksLeave
