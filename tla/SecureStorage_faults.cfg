SPECIFICATION Spec
CONSTANTS
  n1 = n1  n2 = n2  n3 = n3  v1 = v1  v2 = v2  v3 = v3  t1 = t1  t2 = t2
  Threads = {t1}
  NoThread = NoThread
  BAD = BAD
  Names = {n1, n2}
  LongNames = {}
  Prefix <- MCNoPrefix
  Values = {v1, v2}
  BigValues = {}
  TextOf <- MCText
  MaxItem = 3
  BootType = 2
  Root = "none"
  Kinds = {"write", "read", "erase", "list"}
  BatchNames <- MCBatch
  Factory <- MCFactory
  FactoryWP = FALSE
  HeapMaps <- MCHeap
  MaxFaults = 1
INVARIANTS AckedKeysSurvive MapNamesOwnItems LockDiscipline
PROPERTY ReadsAllowed
SYMMETRY MCSymmetry
