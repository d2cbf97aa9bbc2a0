SPECIFICATION FairSpec
CONSTANTS
    Calls <- MixedCalls
    Op <- OpOf
    Via <- PathOf
    Segments <- LengthOf
    Denied = {}
INVARIANTS
    OkMeansDone
    NothingTwiceOrAfterAGap
    EventsInOrder
    HealthNeverFlatters
PROPERTY EverythingEnds
CHECK_DEADLOCK FALSE
