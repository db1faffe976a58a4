SPECIFICATION Spec
CONSTANTS
    a = a
    b = b
    c = c
    R1 = R1
    R2 = R2
    Instance = {a, b, c}
    Replicaset = {R1, R2}
    RsOf <- TwoPlusOne
    FirstMaster <- AandC
    RebalancerHome = c
    Kinds = {"create", "truncate", "global_truncate", "index"}
    MayFail = {c}
    BatchSize = 2
    MaxDdl = 1
    MaxUserAborts = 1
    MaxTimeouts = 0
    MaxRestarts = 1
    MaxSwitchovers = 0
    MaxElections = 1
INVARIANTS CommittedIsApplied
PROPERTIES CommitAfterAllMasters
CHECK_DEADLOCK FALSE
