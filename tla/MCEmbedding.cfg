SPECIFICATION MCSpec
CONSTANTS
    Systems = {"download", "shared", "frames", "closing", "busy"}
    Size = 2
    Pinned = TRUE
    MaxGens = 3
    MaxFaults = 3
    Docs = {d1}
    q1 = q1
    p1 = p1
    Queries = {q1, q2}
    Procs = {p1, p2}
    NoProc = NoProc
    Frames = 2
    Burst = 2
    MaxThreads = 1
    MayClose = FALSE
    MayFail = TRUE
CHECK_DEADLOCK FALSE
INVARIANTS InstalledVerified ChildSound
PROPERTIES EmbedderSettles
