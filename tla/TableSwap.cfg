SPECIFICATION Spec
CONSTANTS
  t1 = t1
  s1 = s1
  s2 = s2
  a1 = a1
  a2 = a2
  None = None
  Threads = {t1}
  Streams = {s1}
  Tables <- MCTables
  Operators = {"rotary_embedding"}
  Shapes = {1}
  Scalars = {1}
  ScalarHash <- MCScalarHash
  MaxPending = 2
  MaxGeneration = 1
  MaxVersion = 0
INVARIANTS
  KernelsReadOwnTable
