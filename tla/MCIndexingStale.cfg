SPECIFICATION MCSpec
CONSTANTS
    Systems = {"embedder"}
    s1 = s1
    Spaces = {s1, s2}
    MaxDeltas = 3
    MaxFails = 1
    Objects = {o1, o2}
    Batch = 1
    MaxChanges = 3
    MaxBoots = 3
    AlignFaults = {}
    MayRebuild = TRUE
    MayRestore = FALSE
    Embedders = {FALSE}
    TornRuns = {}
CHECK_DEADLOCK FALSE
INVARIANT VectorCurrent
