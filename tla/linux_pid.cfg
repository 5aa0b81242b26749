SPECIFICATION Spec
CONSTANTS
    p1 = p1
    p2 = p2
    None = None
    PUs = {p1}
    CanReuse = TRUE
    MaxFaults = 0
    MaxCrashes = 0
INVARIANT RunningIsPoliced
