SPECIFICATION CacheSpec
CONSTANTS
  Threads = {t1, t2}
  MaxCommits = 2
  MaxCloses = 0
  None = None
SYMMETRY Symmetry
INVARIANT LateReaderHasTables
