\* Two requests to one replica, and an operator's run beside them; one chunk,
\* whose text changes; liveness, so no symmetry.
SPECIFICATION GateFairSpec

CONSTANTS
  Replicas = {A}
  ReplicaOf <- MCReplicaOf
  MaxPosts = 2
  Writers = {a1, a2, op}
  Cli = {op}
  LastId = 1
  SourceOf <- MCSourceOf
  PlaceOf <- MCPlaceOf
  History <- MCHistory
  BatchSize = 1
  PageSize = 1
  None = None

INVARIANTS GateTypeOK LockGuardsTask RunsBalance
PROPERTIES SuccessMeansReleased CleanRunUpToDate LockComesBack
