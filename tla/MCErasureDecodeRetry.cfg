\* N = 2, M = 2, two disks failing at any time, windows of one block read
\* from its start: a second pass of the read loop counts old successes again.
CONSTANTS
    N = 2
    M = 2
    ShardSize = 2
    Size = 7
    MaxDown = 2
    FailMidRead = TRUE
    Windows <- OneBlockWindows
SPECIFICATION Spec
CHECK_DEADLOCK FALSE
INVARIANT RangeCorrect
