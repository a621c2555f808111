SPECIFICATION ProjFairSpec
CONSTANTS
  r1 = r1 r2 = r2 old = old va = va
  Rows = {r1, r2}
  BaseValue <- ModelBase
  Values = {old, va}
  Assignments <- ModelAssignments
  Identities = {i1, i2}
  Clients = {w1}
  Readers = {v1}
  MaxIndex = 1
  None = None
  MaxFormal = 1
  MaxCrashes = 1
  MaxLosses = 1
INVARIANTS ProjInv FileIsHonest ReaderIsFresh BatchShownWhole
PROPERTY FileCatchesUp
CHECK_DEADLOCK FALSE
