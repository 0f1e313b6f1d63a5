SPECIFICATION FairSpec
CONSTANTS
    k1 = k1
    k2 = k2
    w1 = w1
    w2 = w2
    Keys <- MCKeys
    Sources <- MCSources
    Workers <- MCWorkers
    NoWorker = NoWorker
    LookupAttempts = 2
    MaxAttempts = 2
    MaxEvents = 2
    MaxFaults = 2
INVARIANT CommittedHandled MarkedMeansPublished PapersNeedFaults BlockedOrActive
PROPERTY EventuallyHandled ImplementsIntake
