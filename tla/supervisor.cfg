SPECIFICATION Spec
CONSTANTS
    p1 = p1
    p2 = p2
    None = None
    NoAddr = NoAddr
    PUs = {p1, p2}
    Setups <- AllSetups
INVARIANT Hitless
INVARIANT NoLeftovers
INVARIANT ExclusionsExact
INVARIANT SupervisedIsInstalled
INVARIANT StopCleansIdle
CHECK_DEADLOCK FALSE
