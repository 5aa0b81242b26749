SPECIFICATION FairSpec
CONSTANTS
    c1 = c1
    c2 = c2
    pol = pol
    None = None
    AllowAll = AllowAll
    Containers = {c1, c2}
    Policies = {pol}
    SyncAtStart = TRUE
    QueueSize = 1
    MaxChanges = 2
    Faults = {}
    MaxFaults = 1
INVARIANT AllAreHandled
CHECK_DEADLOCK FALSE
