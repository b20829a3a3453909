SPECIFICATION TerminatingSpec
CONSTANTS
  j1 = j1 j2 = j2 j3 = j3 j4 = j4 j5 = j5 c1 = c1 c2 = c2
  g1 = g1 g2 = g2 w1 = w1 w2 = w2
  Gpus = {g1, g2}
  Threshold = 1
  MaxUtil = 1
  MaxMem = 1
  Jobs = {j1, j3}
  Submitters = {s1}
  Workers = {w1, w2}
  Waiters = {x1}
  None = None
  MaxQueue = 2
  Need <- MCNeed
  Mem <- MCMem
  Malformed = {}
  UsesAll = {}
  ContextOf <- MCContextOf
  PostOutcomes = {"lost"}
  ExternalLoad = FALSE
  EarlyEof = FALSE
  OutputFails = FALSE
CHECK_DEADLOCK FALSE
PROPERTIES WaitAllSound EveryJobFinishes WaitAllReturns
