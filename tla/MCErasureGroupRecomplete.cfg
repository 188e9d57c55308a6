\* No faults: InitUpload, CompleteUpload, then CompleteUpload again.  The
\* second call fails on every disk and its revert un-publishes data/D.
CONSTANTS
    Disks = {d1, d2, d3}
    MinSuccess = 3
    Chunks = 1
    MaxFaults = 0
    MaxCalls = 5
SPECIFICATION Spec
CHECK_DEADLOCK FALSE
PROPERTY CompletedStaysPublished
