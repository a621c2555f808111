SPECIFICATION CompatSpec
CONSTANTS
  r1 = r1 r2 = r2 r3 = r3 old = old va = va vb = vb
  publish = publish refresh = refresh
  Rows = {r1, r2, r3}
  BaseValue <- ModelBase
  Values = {old, va, vb}
  Operations = {publish}
  Identities = {publish}
  Identity <- ModelIdentity
  Clients = {c1}
  MaxIndex = 2
  None = None
  Program <- ModelProgram
  MaxCrashes = 1
  MaxLosses = 0
INVARIANT KeyIsOneTransaction
CHECK_DEADLOCK FALSE
