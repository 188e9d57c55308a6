\* N = 2, M = 2: a two-block part with a one-byte last block, up to M disks
\* failing before the read starts (so populate must open parity shards and
\* reconstruct), every window except those inside one block after its start.
CONSTANTS
    N = 2
    M = 2
    ShardSize = 2
    Size = 5
    MaxDown = 2
    FailMidRead = FALSE
    Windows <- OtherWindows
SPECIFICATION Spec
CHECK_DEADLOCK FALSE
INVARIANT TypeOK RangeCorrect
PROPERTY CompletesRead
