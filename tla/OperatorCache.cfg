SPECIFICATION Spec
CONSTANTS
  t1 = t1
  s1 = s1
  s2 = s2
  a1 = a1
  a2 = a2
  None = None
  Threads = {t1}
  Streams <- MCStreams
  Tables <- MCTables
  Operators = {"rms_norm", "add_rms_norm", "rotary_embedding"}
  Shapes = {1}
  Scalars <- MCScalars
  ScalarHash <- MCScalarHash
  MaxPending = 3
  MaxGeneration = 1
  MaxVersion = 1
SYMMETRY Interchangeable
INVARIANTS TypeOK PendingObjectsAlive CachingInvisible
