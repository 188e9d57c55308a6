\* Three disks with a quorum of two, shards of two pipe blocks, up to five
\* group calls in any order and two I/O faults in all.
CONSTANTS
    Disks = {d1, d2, d3}
    MinSuccess = 2
    Chunks = 2
    MaxFaults = 2
    MaxCalls = 5
SPECIFICATION Spec
CHECK_DEADLOCK FALSE
INVARIANT TypeOK OkMeansQuorum
PROPERTY SaveReturnsUnlessStranded
