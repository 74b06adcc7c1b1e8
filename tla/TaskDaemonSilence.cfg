SPECIFICATION FairDaemonSpec
CONSTANTS
  h1 = h1
  h2 = h2
  claude = claude
  f1 = f1
  Agents = {h1, claude}
  Elder = claude
  Findings = {}
  Priorities = {3}
  TrustScores = {80}
  Timeout = 1
  MaxEscalations = 2
  MaxTasks = 1
  MaxClaims = 2
  UtcOffset = 0
  MaxClock = 4
PROPERTY SilentHunterIsReleased
