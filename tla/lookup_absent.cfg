SPECIFICATION Spec
CONSTANTS
    app = app
    env = env
    a = a
    b = b
    Keys = {app, env}
    Strings <- Short
    TagValues <- Short
    Selectors <- Negative
    MaxPolicies = 1
INVARIANT NotEqualIsComplete
