SPECIFICATION Spec
CONSTANTS
    None = None
    p1 = p1
    n1 = n1
    n2 = n2
    a1 = a1
    a2 = a2
    PUs = {p1}
    Nets = {n1, n2}
    Policies <- Opposite
    Excludable <- TwoIPs
    MaxVersion = 0
    Setups <- Quiet
INVARIANT ExclusionsApplied
