SPECIFICATION FairSpec
CONSTANTS
    c1 = c1
    c2 = c2
    Chats = {c1, c2}
    N = 2
    NoChat = NoChat
    Destinations = {NoChat}
    ChatOf <- TwoChats
    Bodies = {"text", "media"}
    MaxUnsolicited = 0
    Environment = {"slow", "stop", "subscription_ends"}
PROPERTIES
    EveryBridgeResolves
    ShutdownCompletes
CHECK_DEADLOCK FALSE
