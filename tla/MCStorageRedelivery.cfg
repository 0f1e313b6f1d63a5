SPECIFICATION Spec
CONSTANTS
    k1 = k1
    k2 = k2
    d1 = d1
    d2 = d2
    p1 = p1
    p2 = p2
    c1 = c1
    c2 = c2
    Keys <- MCKeys
    Departments <- MCDepartments
    Partitions <- MCPartitions
    Consumers <- MCOne
    NoConsumer = NoConsumer
    NoWork = NoWork
    MaxAttempts = 2
    MaxMessages = 2
    MaxFaults = 2
INVARIANT FailedStaysUncommitted
