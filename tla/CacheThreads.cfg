SPECIFICATION CacheSpec
CONSTANTS
  Threads = {t1, t2, t3}
  MaxCommits = 2
  MaxCloses = 1
  None = None
SYMMETRY Symmetry
INVARIANTS CacheIsHonest BuildsSucceed ReaderHasTables
PROPERTY ReadsAdvance
