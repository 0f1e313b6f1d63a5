SPECIFICATION FairSpec
CONSTANTS
    k1 = k1
    k2 = k2
    d1 = d1
    d2 = d2
    p1 = p1
    p2 = p2
    c1 = c1
    c2 = c2
    Keys <- MCKeys
    Departments <- MCDepartment
    Partitions <- MCPartitions
    Consumers <- MCGroup
    NoConsumer = NoConsumer
    NoWork = NoWork
    MaxAttempts = 2
    MaxMessages = 2
    MaxFaults = 1
INVARIANT MarkerImpliesStored CommittedSettled RowsBounded
PROPERTY ImplementsIntake EventuallySettled
