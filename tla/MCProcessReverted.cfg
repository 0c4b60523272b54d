SPECIFICATION MCSpec
CONSTANTS
    Systems = {"rows"}
    r1 = r1
    Callers = {c1, c2, c3}
    Immediate = FALSE
    MaxFrames = 8
    Requests = {r1, r2}
    Subs = {s1, s2}
    Ids = {p1}
    IndexIds = {x1}
    OtherTypes = {"done"}
    MaxValue = 1
    Buffer = 1
    MaxEvents = 2
    MaxEngines = 2
    DrainsTimely = FALSE
    Subscribers = {r1, r2}
    Keys = {account, s1}
    Account = account
    Patterns = {{"process", "other"}, {"process"}}
    Standing = {"process"}
    MaxPublished = 2
    MaxFailures = 2
    Timely = TRUE
CHECK_DEADLOCK FALSE
INVARIANT AckedKept
