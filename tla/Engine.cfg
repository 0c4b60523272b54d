SPECIFICATION Spec
CONSTANTS
    Accounts = {a1, a2}
    Mispinned = {}
    Requests = {r1, r2}
    Controllers = {c1}
    Main = Main
    None = None
    HasOSLock = TRUE
    MaxEngines = 2
    MaxWork = 1
CHECK_DEADLOCK FALSE
SYMMETRY Symm
INVARIANTS
    TypeOK
    RequestsKeepEngine
    TeardownOrdered
