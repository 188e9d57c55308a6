\* Three goroutines on one timed RWMutex made with a context that may be
\* cancelled: readers sharing, writers excluding, timeouts and cancellation.
CONSTANTS
    Procs = {p1, p2, p3}
    HasCtx = TRUE
SPECIFICATION Spec
INVARIANT TypeOK StateMatchesHolders
PROPERTY ImplementsNameLock
