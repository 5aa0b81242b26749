SPECIFICATION Spec
CONSTANTS
    p1 = p1
    p2 = p2
    None = None
    NoAddr = NoAddr
    PUs = {p1, p2}
    Setups <- Claims
INVARIANT CleanupIsForced
INVARIANT GovernedByCurrent
INVARIANT StopLeavesNothing
CHECK_DEADLOCK FALSE
