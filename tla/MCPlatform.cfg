SPECIFICATION MCSpec
CONSTANTS
    Systems = {"push", "token", "stream", "embedded"}
    Spaces = {"s1", "s2"}
    Chats = {"a", "b"}
    Muted = {"a"}
    Registered = {"s1"}
    Unknown = Unknown
    MaxChanges = 1
    MaxFails = 1
    Tokens = {"t1", "t2"}
    None = None
    MaxCalls = 3
    MaxForwardFails = 2
    MaxStarts = 1
    Buffer = 2
    MaxFlips = 5
    Threads = {"t", "u"}
    Overlap = FALSE
    MaxRuns = 3
CHECK_DEADLOCK FALSE
INVARIANTS SyncsHonest EmbeddedSafe
PROPERTIES PlatformSettles
