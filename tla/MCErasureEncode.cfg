\* Two data and one parity shard of 2 bytes, two writers needed, one writer
\* that may fail at any block, and every object of up to 9 bytes (up to three
\* blocks, every last-block size).
CONSTANTS
    N = 2
    M = 1
    ShardSize = 2
    MinSuccess = 2
    Sizes = {0, 1, 2, 3, 4, 5, 6, 7, 8, 9}
    MaxFail = 1
SPECIFICATION Spec
INVARIANT WriteFaultTolerant
CHECK_DEADLOCK FALSE
