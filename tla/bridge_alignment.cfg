SPECIFICATION Spec
CONSTANTS
    c1 = c1
    c2 = c2
    Chats = {c1}
    N = 2
    NoChat = NoChat
    Destinations = {NoChat}
    ChatOf <- OneChat
    Bodies = {"text"}
    MaxUnsolicited = 0
    Environment = {"slow"}
INVARIANT ReplyAlignsWithMessage
CHECK_DEADLOCK FALSE
