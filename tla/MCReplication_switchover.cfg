SPECIFICATION FairSpec
CONSTANTS
  a = a
  b = b
  c = c
  Instance = {a, b, c}
  FirstMaster = a
  Fresh = {}
  Electors = {}
  Outside = Outside
  NoMaster = NoMaster
  MaxWrites = 2
  MaxOffline = 0
  MaxCrashes = 0
  MaxTargets = 1
  MaxExpels = 1
  MaxTimeouts = 1
  MaxLate = 0
  MaxElections = 0
INVARIANT PromotionNotAhead
INVARIANT MeshInForce
PROPERTY SwitchoverKeepsRows
PROPERTY NobodyWritable
PROPERTY EventuallyRecovered
CHECK_DEADLOCK FALSE
