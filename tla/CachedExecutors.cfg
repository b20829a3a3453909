SPECIFICATION Spec
CONSTANTS
  s1 = s1
  s2 = s2
  None = None
  Streams <- MCStreams
  Kernels <- MCKernels
  Allocations = {1, 2}
  MaxGrowth = 1
INVARIANTS TypeOK BindingsCurrent
