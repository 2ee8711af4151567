CONSTANTS
    MaxFiles = 4
    Displayed = 2
    Depth = 1
    Contents <- MCContents
    Modes = {"REPEAT", "IN_ORDER", "RANDOM", "NO_REPEAT"}
    MaxRandom = 1
    MaxReads = 3
    MaxPicks = 2
    MaxEnds = 1
SPECIFICATION Spec

PROPERTY RepeatRepeats
CHECK_DEADLOCK FALSE
