SPECIFICATION Spec
CONSTANTS
  UIntRange = 64
  BlockBytes = 8
  UBBytes = 1472
  Launches <- MCLaunches
  ProgramOf <- MCProgramOf
INVARIANTS
  TypeOK
  InBounds
  NoRace
  ResultsComplete
  ScheduleIndependent
