SPECIFICATION Spec
CONSTANTS
    app = app
    env = env
    a = a
    b = b
    Keys = {app, env}
    Strings <- Short
    TagValues <- NonEmpty
    Selectors <- TwoExist
    MaxPolicies = 2
INVARIANT SearchIsSound
