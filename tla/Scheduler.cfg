SPECIFICATION SchedFairSpec
CONSTANTS
  t1 = t1 t2 = t2 k1 = k1 k2 = k2
  Targets <- MCTargets
  Voices <- MCVoices
  Failing <- MCVoices
  Ticks <- MCTicks
  Backends <- MCBackends
  StaleAfter = 2
  LongestFetch = 1
  Frequency = 1
  LongestWait = 2
  MaxCrashes = 1
  MaxStarts = 2
  None = None
INVARIANTS SchedInv OutcomeIsAccepted
PROPERTIES FailuresAreCounted LockIsJustified DueTargetIsServed
