SPECIFICATION UCFairSpec
CONSTANTS
  Operators = {o1, o2}
  SqliteWriters = {w1}
  Epochs = {e1, e2}
  None = None
  MaxCrashes = 1
  MaxReversals = 1
  MaxWrites = 1
INVARIANTS UCInv EvidenceIsTrue
PROPERTIES LegacyWritersDrain KeepsPromise CutoverCompletes
CHECK_DEADLOCK FALSE
