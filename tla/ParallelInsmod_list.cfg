CONSTANTS
  Threads = {t1, t2, t3}
  Lines <- List
  MaxFaults = 1
  Nobody = Nobody
SPECIFICATION FairSpec
INVARIANTS TypeOK HeightOrder AChildForEach AllInserted
PROPERTY Terminates
