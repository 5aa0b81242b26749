SPECIFICATION Spec
CONSTANTS
    app = app
    env = env
    a = a
    b = b
    Keys = {app, env}
    Strings <- Short
    TagValues <- Short
    Selectors <- Supported
    MaxPolicies = 3
INVARIANT SearchIsSound
INVARIANT SearchIsComplete
