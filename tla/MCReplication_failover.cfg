SPECIFICATION Spec
CONSTANTS
  a = a
  b = b
  c = c
  Instance = {a, b}
  FirstMaster = a
  Fresh = {b}
  Electors = {}
  Outside = Outside
  NoMaster = NoMaster
  MaxWrites = 1
  MaxOffline = 1
  MaxCrashes = 1
  MaxTargets = 1
  MaxExpels = 0
  MaxTimeouts = 0
  MaxLate = 0
  MaxElections = 0
INVARIANT TypeOK
INVARIANT OneWriter
INVARIANT MeshInForce
INVARIANT PromotionNotAhead
PROPERTY SwitchoverKeepsRows
CHECK_DEADLOCK FALSE
