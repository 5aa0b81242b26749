SPECIFICATION FairSpec
CONSTANTS
    k1 = k1
    k2 = k2
    c1 = c1
    c2 = c2
    t1 = t1
    t2 = t2
    t3 = t3
    t4 = t4
    None = None
    Keys = {k1, k2}
    Clients = {c1, c2}
    Ops = {"Add", "Update", "AddOrUpdate", "LockedModify"}
    Timers = {t1, t2, t3}
    Lifetime = 2
    MaxLockWait = 1
INVARIANT EntryWillExpire
PROPERTY EntriesLeave
