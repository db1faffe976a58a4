SPECIFICATION Spec
CONSTANTS
    a = a
    b = b
    c = c
    R1 = R1
    R2 = R2
    Instance = {a, b, c}
    Replicaset = {R1, R2}
    RsOf <- TwoPlusOne
    FirstMaster <- AandC
    RebalancerHome = c
    Kinds = {"index"}
    MayFail = {c}
    BatchSize = 2
    MaxDdl = 1
    MaxUserAborts = 0
    MaxTimeouts = 1
    MaxRestarts = 0
    MaxSwitchovers = 0
    MaxElections = 0
INVARIANTS AbortedIsUndone

CHECK_DEADLOCK FALSE
