\* Two uploads of one object, two part writes, one I/O error and six calls
\* in any order: long enough for an abort, a completion over an earlier
\* completion and the paired reverts of both.
CONSTANTS
    NUploads = 2
    MaxWrites = 2
    MaxFaults = 1
    MaxCalls = 6
SPECIFICATION Spec
CHECK_DEADLOCK FALSE
INVARIANT PartsPaired
PROPERTY FailedCallChangesNothing RevertUndoes
