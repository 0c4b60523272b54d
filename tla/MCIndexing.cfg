SPECIFICATION MCSpec
CONSTANTS
    Systems = {"two spaces", "one space", "crashes", "rebuilds", "restores", "embedder", "drops",
               "body"}
    s1 = s1
    Spaces = {s1, s2}
    MaxDeltas = 3
    MaxFails = 1
    Objects = {o1, o2}
    Batch = 1
    MaxChanges = 3
    MaxBoots = 3
    AlignFaults = {"cursor", "gen", "max", "cut"}
    MayRebuild = TRUE
    MayRestore = FALSE
    Embedders = {FALSE}
    TornRuns = {}
CHECK_DEADLOCK FALSE
INVARIANTS WorkersSound IndexMatches EmbedVouches BodyIndexed
PROPERTIES IndexerSettles
