------------------------------- MODULE NameLock -------------------------------
(***************************************************************************)
(* What read/write locks on names promise their callers: a write lock on a *)
(* name is held by one caller and nobody else, read locks are shared by    *)
(* any number of readers, and a caller gives up only what it holds.        *)
(* Taking a lock is one atomic step here; waiting and timing out are       *)
(* stuttering.  The timed RWMutex of src/pkg/sync (one name) and the      *)
(* lockerList of src/locksys over NameMutex servers are checked against    *)
(* this specification.                                                     *)
(***************************************************************************)
CONSTANTS Procs, Names

VARIABLE holding    \* holding[n][p]: the lock caller p holds on name n

Modes == {"none", "read", "write"}

\* Nobody but p holds n, or p asks to read and all others only read.
Compatible(n, p, m) ==
    \A q \in Procs \ {p} :
        holding[n][q] = "none" \/ (m = "read" /\ holding[n][q] = "read")

Acquire(n, p, m) ==
    /\ holding[n][p] = "none"
    /\ Compatible(n, p, m)
    /\ holding' = [holding EXCEPT ![n][p] = m]

Release(n, p) ==
    /\ holding[n][p] # "none"
    /\ holding' = [holding EXCEPT ![n][p] = "none"]

Init == holding = [n \in Names |-> [p \in Procs |-> "none"]]

Next ==
    \E n \in Names, p \in Procs :
        Release(n, p) \/ \E m \in {"read", "write"} : Acquire(n, p, m)

Spec == Init /\ [][Next]_holding
=============================================================================
