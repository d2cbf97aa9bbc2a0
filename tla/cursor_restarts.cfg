SPECIFICATION FairSpec
CONSTANTS
    p1 = p1
    b1 = b1
    offset1 = offset1
    tmp1 = tmp1
    Pollers = {p1}
    Bots = {b1}
    Files = {offset1, tmp1}
    BotOf <- OnePollerBot
    FileOf <- OnePollerFile
    TmpOf <- OnePollerTmp
    N = 3
    Kind <- MixedKinds
    Allowed = {1, 2}
    MaxCrashes = 2
    MaxIoErrors = 1
    MaxMisreads = 1
    MaxStops = 1
INVARIANTS
    ConfirmedIsHandled
    OffsetFileSkipsOnlyHandled
    HandledInOrder
    RepeatsNeedALostOffset
PROPERTIES
    OffsetFileAdvances
    EveryUpdateIsHandled
CHECK_DEADLOCK FALSE
