SPECIFICATION BoardSpec
CONSTANTS
  h1 = h1
  h2 = h2
  claude = claude
  f1 = f1
  Agents = {h1, claude}
  Elder = claude
  Findings = {f1}
  Priorities = {2}
  TrustScores = {40, 80}
  Timeout = 1
  MaxEscalations = 2
  MaxTasks = 3
  MaxClaims = 1
  UtcOffset = 0
  MaxClock = 4
INVARIANT ClaimsAreAccounted
INVARIANT OneVerificationPerCompletion
PROPERTY OnlyOverdueIsReleased
PROPERTY VerdictsStand
