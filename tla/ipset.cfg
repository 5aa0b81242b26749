SPECIFICATION Spec
CONSTANTS
    None = None
    p1 = p1
    n1 = n1
    n2 = n2
    a1 = a1
    a2 = a2
    PUs = {p1}
    Nets = {n1, n2}
    Policies <- Opposite
    Excludable <- OneList
    MaxVersion = 1
    Setups <- AllSetups
SYMMETRY Symmetry
INVARIANT OldOrNew
INVARIANT NoLeftovers
INVARIANT InForce
CHECK_DEADLOCK FALSE
