SPECIFICATION Spec
CONSTANTS
    c1 = c1
    c2 = c2
    Chats = {c1, c2}
    N = 3
    NoChat = NoChat
    Destinations = {c2}
    ChatOf <- TwoChats
    Bodies = {"text"}
    MaxUnsolicited = 1
    Environment = {"slow", "silent", "publish_fails", "send_fails"}
INVARIANTS
    TypingEndsWithBridge
    NoLingeringEntry
    QueuesAreFifo
    OneRoute
    MisalignmentHasACause
    StrayAnswersHaveACause
PROPERTY KeepsContract
CHECK_DEADLOCK FALSE
