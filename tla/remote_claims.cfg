SPECIFICATION Spec
CONSTANTS
    p1 = p1
    p2 = p2
    l1 = l1
    l2 = l2
    None = None
    PUs = {p1}
    Lists = {l1, l2}
    FaultKinds = {"dial", "start", "supervise", "crash"}
    MaxFaults = 1
INVARIANT EnforceAfterInit
INVARIANT SuperviseReported
INVARIANT ExclusionsReachRemotes
INVARIANT StartReported
INVARIANT ContextsAreActive
INVARIANT KillReturns
CHECK_DEADLOCK FALSE
