SPECIFICATION Spec
CONSTANTS
  k1 = k1
  k2 = k2
  e1 = e1
  e2 = e2
  e3 = e3
  q1 = q1
  q2 = q2
  i1 = i1
  i2 = i2
  i3 = i3
  t1 = t1
  t2 = t2
  t3 = t3
  Keys = {k1, k2}
  Executions = {e1, e2, e3}
  RequestOf <- MCRequestOf
  JobIds = {i1, i2}
  Tokens = {t1, t2, t3}
  Ttls = {1, 3}
  LeaseSeconds = 1
  RetentionSeconds = 2
  MaxActiveJobs = 1
  MaxRetainedRows = 2
  MaxClock = 5
SYMMETRY KeySymmetry
INVARIANT FinalizedNamesItsJob
PROPERTY LiveLeaseKept
PROPERTY ResultStands
PROPERTY KeyOutlivesJob
PROPERTY DeadlineIsStable
INVARIANT WithinQuota
