SPECIFICATION CompatFairSpec
CONSTANTS
  r1 = r1 r2 = r2 r3 = r3 old = old va = va vb = vb
  publish = publish refresh = refresh
  Rows = {r1, r2, r3}
  BaseValue <- ModelBase
  Values = {old, va, vb}
  Operations = {publish, refresh}
  Identities = {publish, refresh}
  Identity <- ModelIdentity
  Clients = {c1, c2}
  MaxIndex = 2
  None = None
  Program <- ModelProgram
  MaxCrashes = 1
  MaxLosses = 1
INVARIANTS HistoryIsWhole BeliefIsHistory TransactionsTakeEffectOnce
PROPERTIES KeepsOperations DoubtEnds
CHECK_DEADLOCK FALSE
