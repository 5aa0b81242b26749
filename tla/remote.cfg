SPECIFICATION Spec
CONSTANTS
    p1 = p1
    p2 = p2
    l1 = l1
    l2 = l2
    None = None
    PUs = {p1, p2}
    Lists = {l1}
    FaultKinds = {"launch", "dial", "init", "start", "supervise", "exclude", "crash"}
    MaxFaults = 3
INVARIANT RunningIsPoliced
INVARIANT DeletedIsGone
INVARIANT NoOrphan
INVARIANT SuperviseAfterInit
CHECK_DEADLOCK FALSE
