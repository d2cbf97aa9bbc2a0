SPECIFICATION Spec
CONSTANTS
    Calls <- ToolEvents
    Op <- OpOf
    Via <- PathOf
    Segments <- LengthOf
    Denied = {}
INVARIANT EveryToolReachesTheApi
CHECK_DEADLOCK FALSE
