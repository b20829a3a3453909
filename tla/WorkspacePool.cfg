SPECIFICATION Spec
CONSTANTS
  t1 = t1  t2 = t2  s1 = s1  s2 = s2
  b1 = b1  b2 = b2  b3 = b3
  Threads = {t1, t2}
  Streams = {s1, s2}
  Slots <- MCSlots
  Buffers = {b1, b2, b3}
  NullPtr = NullPtr
  None = None
  Ops <- MCOps
  Program <- MCProgram
  CacheSize = 1
  MaxPending = 1
  MaxSince = 1
SYMMETRY MCSymmetry
INVARIANTS TypeOK KernelsSafe BooksExact GraphReplayable
PROPERTIES NoAllocationInCapture
CHECK_DEADLOCK FALSE
