SPECIFICATION Spec
CONSTANTS
    app = app
    env = env
    a = a
    b = b
    Keys = {app, env}
    Strings <- Long
    TagValues <- Long
    Selectors <- FourLengths
    MaxPolicies = 4
INVARIANT SearchIsComplete
