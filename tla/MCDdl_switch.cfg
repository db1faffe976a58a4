SPECIFICATION FairSpec
CONSTANTS
    a = a
    b = b
    c = c
    R1 = R1
    R2 = R2
    Instance = {a, b, c}
    Replicaset = {R1, R2}
    RsOf <- TwoPlusOne
    FirstMaster <- AandC
    RebalancerHome = c
    Kinds = {"index", "drop"}
    MayFail = {}
    BatchSize = 1
    MaxDdl = 2
    MaxUserAborts = 0
    MaxTimeouts = 1
    MaxRestarts = 0
    MaxSwitchovers = 1
    MaxElections = 0
INVARIANTS GlobalNotAheadOfLocal SettledIsCommitted
PROPERTIES CommitAfterAllMasters NoConcurrentApply 
CHECK_DEADLOCK FALSE
