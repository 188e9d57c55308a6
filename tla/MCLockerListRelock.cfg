\* No RPC fails: two callers and two lock servers as in MCLockerList.cfg,
\* with timeouts and re-locks only.
CONSTANTS
    c1 = c1
    c2 = c2
    Clients = {c1, c2}
    Servers = {s1, s2}
    ReadQuorum = 1
    WriteQuorum = 2
    MaxFaults = 0
    MaxCalls <- MCMaxCalls
SPECIFICATION Spec
CHECK_DEADLOCK FALSE
PROPERTY ImplementsNameLock
