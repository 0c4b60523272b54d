SPECIFICATION FairSpec
CONSTANTS
    Accounts = {a1, a2}
    Mispinned = {a2}
    Requests = {r1}
    Controllers = {c1}
    Main = Main
    None = None
    HasOSLock = FALSE
    MaxEngines = 2
    MaxWork = 1
CHECK_DEADLOCK FALSE
INVARIANTS
    NothingLeftAtExit
PROPERTIES
    ImplementsSessions
    EngineSettles
    HonestCloseReason
