\* Two callers and two lock servers; a write quorum is both servers and a
\* read quorum one, so every write quorum meets every other quorum.  c1
\* locks once and c2 twice; one RPC error, whose request may be handled
\* late.
CONSTANTS
    c1 = c1
    c2 = c2
    Clients = {c1, c2}
    Servers = {s1, s2}
    ReadQuorum = 1
    WriteQuorum = 2
    MaxFaults = 1
    MaxCalls <- MCMaxCalls
SPECIFICATION Spec
CHECK_DEADLOCK FALSE
INVARIANT TypeOK UnlocksMatchLocks
PROPERTY LockMapDrained
