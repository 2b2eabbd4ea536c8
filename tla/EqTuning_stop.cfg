CONSTANTS
  Conns = {1, 2}
  Slots = {1, 2}
  Workers = {1, 2}
  MaxUpdates = 1
  MaxFaults = 0
SPECIFICATION FairSpec
PROPERTY StopReturns
