SPECIFICATION Spec
CONSTANTS
  UIntRange = 64
  BlockBytes = 8
  UBBytes = 1472
  Launches <- MCHalfLaunches
  ProgramOf <- MCProgramOf
INVARIANTS
  KernelUsesTensorDtype
