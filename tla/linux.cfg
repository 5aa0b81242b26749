SPECIFICATION FairSpec
CONSTANTS
    p1 = p1
    p2 = p2
    None = None
    PUs = {p1, p2}
    CanReuse = FALSE
    MaxFaults = 2
    MaxCrashes = 1
INVARIANT RunningIsPoliced
INVARIANT NoGhost
PROPERTY EndedIsForgotten
