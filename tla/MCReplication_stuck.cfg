SPECIFICATION FairSpec
CONSTANTS
  a = a
  b = b
  c = c
  Instance = {a, b}
  FirstMaster = a
  Fresh = {}
  Electors = {}
  Outside = Outside
  NoMaster = NoMaster
  MaxWrites = 1
  MaxOffline = 1
  MaxCrashes = 0
  MaxTargets = 0
  MaxExpels = 0
  MaxTimeouts = 0
  MaxLate = 0
  MaxElections = 0
PROPERTY EventuallyRecovered
CHECK_DEADLOCK FALSE
