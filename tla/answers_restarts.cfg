SPECIFICATION RestartSpec
CONSTANTS
    p1 = p1
    b1 = b1
    offset1 = offset1
    tmp1 = tmp1
    c1 = c1
    Pollers = {p1}
    Bots = {b1}
    Files = {offset1, tmp1}
    BotOf <- OneBot
    FileOf <- OneFile
    TmpOf <- OneTmp
    N = 2
    Kind <- Messages
    Allowed = {1, 2}
    Chats = {c1}
    ChatOf <- OneChat
    MaxCrashes = 1
    MaxIoErrors = 1
    MaxMisreads = 1
    MaxStops = 1
    MaxExpiries = 1
    MaxUnsolicited = 1
CONSTRAINT TwoTroubles
INVARIANTS
    ConfirmedReachesTheAgent
    AnsweredOnce
    CrossedThreadsHaveACause
    DroppedAnswersOutlivedAProcess
CHECK_DEADLOCK FALSE
