SPECIFICATION MCSpec
CONSTANTS
    Systems = {"chat", "payload", "store", "definitions", "objects", "values", "query",
               "fence", "text", "markdown", "files"}
    None = None
    Accounts = {{"a1", "a2"}, {"b1"}}
    Trusting = {"b1"}
    AgentDevices = {"a1"}
    Msgs = {1, 2}
    NoMsg = NoMsg
    Linked = {{"b1"}}
    MaxText = 1
    MaxMentions = 1
    MaxChanges = 3
    MaxReads = 1
    Files = {1, 2, 3}
    Headers = {"", "text/plain"}
    Extensions = {"", "html", "pyc"}
    Contents = {"png", "html", "pycText"}
    Thumb = "thumb"
    Readers = {"r"}
    Avatars = {"png", "svg", "html"}
    MaxSteps = 4
CHECK_DEADLOCK FALSE
INVARIANTS ChatAgrees LocalStoreSound SchemaKept ReadsHonest MarkdownStable FilesHonest
PROPERTIES SavesExact
