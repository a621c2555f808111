SPECIFICATION Spec
CONSTANTS
  identity = identity dynamic = dynamic notes = notes
  wGood = wGood wWrong = wWrong
  Units = {identity}
  SnapshotUnits = {identity}
  Dependencies <- SoloDependencies
  RoleOf <- SoloRoleOf
  Sessions = {s1, s2}
  Writers = {wGood, wWrong}
  Epochs = {e1, e2}
  Watermarks = {m1}
  Approvals = {a1, a2}
  Keys = {k1}
  Hashes = {h1}
  None = None
  MaxRevision = 6
SYMMETRY Symmetry
INVARIANTS LedgerIsHistory EvidenceIsOfItsAttempt
PROPERTY AuthorityIsDurable
CHECK_DEADLOCK FALSE
