\* Every file of 0..9 bytes with checksum blocks of 1..4 bytes and every
\* object of 1..3 parts of 0..3 bytes, with every window that does not start
\* at an object's very end (the walk returns all of part 0 for them).
CONSTANTS
    MaxSize = 9
    MaxBlockSize = 4
    MaxParts = 3
    MaxPartSize = 3
    EndWindows = FALSE
SPECIFICATION SpecAll
INVARIANT BoundariesTypeOK WindowCorrect ChecksummedReadCorrect PartReadCorrect
