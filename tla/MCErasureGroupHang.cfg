\* One failed OpenFile out of three disks, with minSuccess 2: SaveTempFile
\* should tolerate it and return, but the encoder blocks on that disk's pipe.
CONSTANTS
    Disks = {d1, d2, d3}
    MinSuccess = 2
    Chunks = 1
    MaxFaults = 1
    MaxCalls = 1
SPECIFICATION Spec
CHECK_DEADLOCK FALSE
PROPERTY SaveReturns
