SPECIFICATION Spec
CONSTANTS
    f1 = f1
    f2 = f2
    None = None
    Flows = {f1, f2}
    MaxConns = 2
    Setups <- AllSetups
SYMMETRY Symmetry
INVARIANT AcceptOnce
INVARIANT AcceptedWasAdmitted
INVARIANT EstablishedIsAuthorized
INVARIANT Agreement
