SPECIFICATION FairSpec
CONSTANTS
  j1 = j1 j2 = j2 a1 = a1
  Jobs = {j1, j2}
  Selected <- MCSelected
  Agents = {a1}
  AgentOf <- MCAgentOf
  Configurations <- MCConfigurations
  PlatformJobs <- MCPlatformJobs
  MaxQueue = 1
  MaxPushes = 1
  MaxRestarts = 1
  None = None
CHECK_DEADLOCK FALSE
INVARIANTS TypeOK NoFalsePass ResultsTrue RejectedNeverRuns
PROPERTIES CommandEnds
