SPECIFICATION FairSpec
CONSTANTS
    p1 = p1
    p2 = p2
    m1 = m1
    m2 = m2
    e1 = e1
    pol1 = pol1
    pol2 = pol2
    AllowAll = AllowAll
    None = None
    PUs = {p1}
    Monitors = {m1, m2}
    Engines = {e1}
    Policies = {pol1, pol2}
    Updates = {pol1, pol2, AllowAll}
    CanStop = TRUE
INVARIANT Paired
INVARIANT EnforcedHasRuntime
PROPERTY ServiceSpec
PROPERTY Answered
PROPERTY StopReturns
CHECK_DEADLOCK FALSE
