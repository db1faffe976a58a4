SPECIFICATION Spec
CONSTANTS
    a = a
    b = b
    c = c
    R1 = R1
    R2 = R2
    Instance = {a, b, c}
    Replicaset = {R1, R2}
    RsOf <- TwoPlusOne
    FirstMaster <- AandC
    RebalancerHome = c
    Kinds = {"create"}
    MayFail = {c}
    BatchSize = 1
    MaxDdl = 2
    MaxUserAborts = 1
    MaxTimeouts = 1
    MaxRestarts = 0
    MaxSwitchovers = 0
    MaxElections = 0
INVARIANTS TypeOK AbortedIsUndone SettledIsCommitted
PROPERTIES CommitAfterAllMasters
CHECK_DEADLOCK FALSE
