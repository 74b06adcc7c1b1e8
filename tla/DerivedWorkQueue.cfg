SPECIFICATION Spec
CONSTANTS
  j1 = j1
  j2 = j2
  j3 = j3
  w1 = w1
  w2 = w2
  pa = pa
  pb = pb
  bg = bg
  fg = fg
  s1 = s1
  Jobs = {j1, j2}
  Workers = {w1, w2}
  ProjectOf <- MixedProjectOf
  KindOf <- MixedKindOf
  ScopeOf <- MCScopeOf
  PriorityOf <- MixedPriorityOf
  MaxAttemptsOf <- MixedMaxAttemptsOf
  AcceleratorKind = bg
  LeaseSeconds = 1
  RetryDelays = {1}
  BatchLimit = 2
  MinBatchSize = 2
  MaxWait = 1
  MaxActiveJobs = 2
  MaxQueueDepth = 1
  MaxDailyTasks = 1
  MaxConcurrency = 1
  PriorityFloor = 1
  DayLength = 2
  MaxClock = 3
SYMMETRY WorkerSymmetry
INVARIANT AcceleratorWithinBudget
PROPERTY SettledIsFinal
PROPERTY ImplementsFencedWork
INVARIANT EveryLeaseIsAccounted
INVARIANT LedgerMatchesQueue
INVARIANT AttemptsDoNotOverlap
INVARIANT SingleHolder
PROPERTY LiveLeaseIsNotTaken
