SPECIFICATION FairSpec
CONSTANTS
    a = a
    b = b
    s1 = s1
    root = root
    p1 = p1
    None = None
    Lease = {a, b}
    Client = {c1, c2}
    Reaper = {r1}
    Store = {s1}
    Root = {root}
    Project = {p1}
    L3 = {a, b}
    MaxCrashes = 1
    StoreOf <- OneStore
    RootOf <- SharedRoot
    ProjectOf <- OneProject
INVARIANTS ProjectExclusive
PROPERTIES ExpiredReclaimed ImplementsL3Slot
CHECK_DEADLOCK FALSE
