SPECIFICATION Spec
CONSTANTS
  identity = identity dynamic = dynamic notes = notes
  wGood = wGood wWrong = wWrong
  Units <- ChainUnits
  SnapshotUnits = {identity, dynamic}
  Dependencies <- ChainDependencies
  RoleOf <- ChainRoleOf
  Sessions = {s1, s2}
  Writers = {wGood}
  Epochs = {e1}
  Watermarks = {m1}
  Approvals = {a1}
  Keys = {k1, k2}
  Hashes = {}
  None = None
  MaxRevision = 5
SYMMETRY Symmetry
INVARIANTS DependencyClosed FormalCommitIsAtomic
PROPERTY KeepsPromise
CHECK_DEADLOCK FALSE
