SPECIFICATION Spec
CONSTANTS
    p1 = p1
    p2 = p2
    ip1 = ip1
    ip2 = ip2
    mark = mark
    port = port
    None = None
    PUs = {p1, p2}
    Keys = {ip1, ip2, mark, port}
    Slices <- OwnKeys
    Policies = {1, 2}
    Queues = {0}
    QueueSize = 2
    ChannelSize = 2
    Unparsed = TRUE
INVARIANT NoPanic
CHECK_DEADLOCK FALSE
