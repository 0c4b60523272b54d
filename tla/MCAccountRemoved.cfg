SPECIFICATION MCSpec
CONSTANTS
    Systems = {"servers"}
    p1 = p1
    Procs = {p1, p2}
    Probes = {q1}
    Networks = {n1, n2}
    Faults = {"rest"}
    None = None
    Retries = 1
    MaxInodes = 2
    MaxKeys = 2
    Puts = {t1, t2}
    BootThread = BootThread
    Default = "on"
    MaxEngines = 2
    Devices = {"p", "q"}
    Shared = {"s"}
    Direct = {"o"}
    Derived = {"d"}
    Own = {"c"}
    MaxWrites = 2
    MaxSpaces = 1
    Members = {"o1", "w1"}
    Owners = {"o1"}
    Writers = {"o1", "w1"}
    Created = {1, 2}
    Canon = 0
    RetryAttempts = 1
    MaxAsks = 3
    MaxRestarts = 1
    MaxSet = 0
CHECK_DEADLOCK FALSE
INVARIANT OneInstance
