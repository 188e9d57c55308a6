\* Every window with no disk failing: windows inside one block after its
\* first byte return stale bytes.
CONSTANTS
    N = 2
    M = 1
    ShardSize = 2
    Size = 7
    MaxDown = 0
    FailMidRead = FALSE
    Windows <- AllWindows
SPECIFICATION Spec
CHECK_DEADLOCK FALSE
INVARIANT RangeCorrect
