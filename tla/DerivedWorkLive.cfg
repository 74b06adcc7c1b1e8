SPECIFICATION LiveSpec
CONSTANTS
  j1 = j1
  j2 = j2
  j3 = j3
  w1 = w1
  w2 = w2
  pa = pa
  pb = pb
  bg = bg
  fg = fg
  s1 = s1
  Jobs = {j1, j2}
  Workers = {w1, w2}
  ProjectOf <- MCProjectOf
  KindOf <- MCKindOf
  ScopeOf <- MCScopeOf
  PriorityOf <- MCPriorityOf
  MaxAttemptsOf <- MCMaxAttemptsOf
  AcceleratorKind = bg
  LeaseSeconds = 1
  RetryDelays = {1}
  BatchLimit = 2
  MinBatchSize = 2
  MaxWait = 1
  MaxActiveJobs = 2
  MaxQueueDepth = 1
  MaxDailyTasks = 1
  MaxConcurrency = 1
  PriorityFloor = 1
  DayLength = 10
  MaxClock = 8
PROPERTY EveryJobSettles
