SPECIFICATION Spec
CONSTANTS
    Longest = 7
    Texts <- TextsUpToLongest
    Limit = 3
INVARIANTS
    SegmentsAreTheText
    SegmentsAreSendable
    NoNeedlessBreak
CHECK_DEADLOCK FALSE
