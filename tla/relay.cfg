SPECIFICATION Spec
CONSTANTS
    Protocols = {"openai", "anthropic", "responses", "nonstream"}
    Kinds = {"thinking", "chunk", "citation", "tool_use", "image", "done", "error"}
    MaxEvents = 3
    MaxUnread = 3
INVARIANTS
    TypeOK
    FramesInOrder
    CompletedText
    LosesOnlyAbandoned
PROPERTIES
    StreamEnds
CHECK_DEADLOCK FALSE
