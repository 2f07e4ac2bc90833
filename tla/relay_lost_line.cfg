SPECIFICATION Spec
CONSTANTS
    Protocols = {"openai"}
    Kinds = {"thinking", "chunk", "done"}
    MaxEvents = 2
    MaxUnread = 3
INVARIANTS
    EveryChunkRelayed
CHECK_DEADLOCK FALSE
