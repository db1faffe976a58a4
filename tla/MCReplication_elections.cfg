SPECIFICATION Spec
CONSTANTS
  a = a
  b = b
  c = c
  Instance = {a, b}
  FirstMaster = a
  Fresh = {}
  Electors = {a}
  Outside = Outside
  NoMaster = NoMaster
  MaxWrites = 1
  MaxOffline = 1
  MaxCrashes = 0
  MaxTargets = 0
  MaxExpels = 0
  MaxTimeouts = 0
  MaxLate = 1
  MaxElections = 1
INVARIANT PromotionNotAhead
CHECK_DEADLOCK FALSE
