SPECIFICATION IntakeFairSpec
CONSTANTS
    m1 = m1
    m2 = m2
    f1 = f1
    f2 = f2
    f3 = f3
    x = x
    y = y
    Updates <- Edits
    Messages = {m1, m2}
    Files = {f1, f2, f3}
    PrefixOf <- SharedPrefix
    Prefixes = {x, y}
    MaxCrashes = 2
    MaxBreaks = 1
    Voices = {f1, f2}
    Worded = {3}
    Enabled = TRUE
    Nothing = Nothing
    Silent = Silent
    Failure = Failure
INVARIANTS
    WrongFileHasACause
    TranscriptIsOfTheVoice
    ChildrenAreReaped
PROPERTIES
    PublishedFilesStay
    EveryMessageGoesOut
CHECK_DEADLOCK FALSE
