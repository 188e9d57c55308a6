------------------------------- MODULE RWMutex -------------------------------
(***************************************************************************)
(* The read/write mutex with timeout of src/pkg/sync/rwmutex.go.           *)
(* state is the Go field: writeLock (-1), noLock (0) or the number of      *)
(* readers.  setLock and unlock run under mu.mutex, so each is one atomic  *)
(* step.  lock() polls setLock on an exponential ticker until it succeeds,  *)
(* the timeout ticker fires (ErrTimedOut) or the context is cancelled      *)
(* (ErrCancelled); the polling itself changes nothing, so a waiting caller *)
(* either takes the lock in one step or gives up in one step after a       *)
(* failed setLock.  Callers pair Lock with Unlock and RLock with RUnlock.  *)
(***************************************************************************)
EXTENDS Integers, FiniteSets

CONSTANTS
    Procs,      \* goroutines calling the mutex
    HasCtx      \* whether the mutex was made with NewRWMutex(ctx)

VARIABLES
    state,      \* RWMutex.state
    cancelled,  \* whether ctx is done
    pc,         \* "idle", "waiting" (in lock's loop) or "holding"
    isWrite,    \* isWriteLock of p's current call
    ret         \* the error p's last lock call returned

vars == <<state, cancelled, pc, isWrite, ret>>

writeLock == -1
noLock    == 0

\* Seeded fault for mutation testing: a writer that only checks for another
\* writer, as a reader does.
CanSetLockWriterAsReader(st, w) == st # writeLock

\* rwmutex.go:42-54: setLock succeeds on a free mutex for a writer and on
\* any mutex not write-locked for a reader.
CanSetLock(st, w) == IF w THEN st = noLock ELSE st # writeLock

SetLock(st, w) == IF w THEN writeLock ELSE st + 1

\* Seeded fault for mutation testing: unlock decrements whatever lock is
\* held.
UnlockedAnyDecrement(st, w) == IF st # noLock THEN st - 1 ELSE st

\* Seeded fault for mutation testing: a reader's unlock that does not
\* release its share.
UnlockedNoDecrement(st, w) ==
    IF w THEN (IF st = writeLock THEN noLock ELSE st) ELSE st

\* rwmutex.go:96-113: unlock releases only a lock of the matching kind;
\* otherwise it returns false and changes nothing.
Unlocked(st, w) ==
    CASE w /\ st = writeLock                 -> noLock
      [] ~w /\ st # noLock /\ st # writeLock -> st - 1
      [] OTHER                               -> st

Init ==
    /\ state = noLock
    /\ cancelled = FALSE
    /\ pc = [p \in Procs |-> "idle"]
    /\ isWrite = [p \in Procs |-> FALSE]
    /\ ret = [p \in Procs |-> "none"]

\* Lock(timeout) / RLock(timeout): enter lock()'s loop.
Call(p, w) ==
    /\ pc[p] = "idle"
    /\ pc' = [pc EXCEPT ![p] = "waiting"]
    /\ isWrite' = [isWrite EXCEPT ![p] = w]
    /\ UNCHANGED <<state, cancelled, ret>>

\* A setLock of the loop succeeds.
Acquired(p) ==
    /\ pc[p] = "waiting"
    /\ CanSetLock(state, isWrite[p])
    /\ state' = SetLock(state, isWrite[p])
    /\ pc' = [pc EXCEPT ![p] = "holding"]
    /\ ret' = [ret EXCEPT ![p] = "nil"]
    /\ UNCHANGED <<cancelled, isWrite>>

\* After a failed setLock, the select returns ErrTimedOut, or ErrCancelled
\* once the context is done.
GiveUp(p) ==
    /\ pc[p] = "waiting"
    /\ ~CanSetLock(state, isWrite[p])
    /\ \E err \in {"timedout"} \cup (IF cancelled THEN {"cancelled"} ELSE {}) :
          ret' = [ret EXCEPT ![p] = err]
    /\ pc' = [pc EXCEPT ![p] = "idle"]
    /\ UNCHANGED <<state, cancelled, isWrite>>

\* Unlock() / RUnlock() by the holder.
Release(p) ==
    /\ pc[p] = "holding"
    /\ state' = Unlocked(state, isWrite[p])
    /\ pc' = [pc EXCEPT ![p] = "idle"]
    /\ UNCHANGED <<cancelled, isWrite, ret>>

\* The context of NewRWMutex(ctx) is cancelled.
Cancel ==
    /\ HasCtx /\ ~cancelled
    /\ cancelled' = TRUE
    /\ UNCHANGED <<state, pc, isWrite, ret>>

Next ==
    \/ Cancel
    \/ \E p \in Procs :
          \/ \E w \in BOOLEAN : Call(p, w)
          \/ Acquired(p) \/ GiveUp(p) \/ Release(p)

Spec == Init /\ [][Next]_vars

-----------------------------------------------------------------------------
Holders(w) == {p \in Procs : pc[p] = "holding" /\ isWrite[p] = w}

(* Every variable has its type; state stays between writeLock and the    *)
(* number of goroutines.                                                  *)
TypeOK ==
    /\ state \in -1..Cardinality(Procs)
    /\ cancelled \in BOOLEAN
    /\ pc \in [Procs -> {"idle", "waiting", "holding"}]
    /\ isWrite \in [Procs -> BOOLEAN]
    /\ ret \in [Procs -> {"none", "nil", "timedout", "cancelled"}]

(* The state counter agrees with the callers holding the mutex: writeLock *)
(* exactly while a writer holds it, otherwise the number of readers        *)
(* holding it (setLock's increments and unlock's decrements balance).      *)
StateMatchesHolders ==
    state = IF Holders(TRUE) # {} THEN writeLock ELSE Cardinality(Holders(FALSE))

\* The lock each caller holds, as NameLock sees it.
HoldingMap ==
    [p \in Procs |-> IF pc[p] # "holding" THEN "none"
                     ELSE IF isWrite[p] THEN "write" ELSE "read"]

Abstract == INSTANCE NameLock WITH Names <- {"mu"}, holding <- [n \in {"mu"} |-> HoldingMap]

(* RWMutex implements the abstract read/write lock: every successful       *)
(* Lock/RLock and every Unlock/RUnlock is a step NameLock allows, so a     *)
(* writer never shares the mutex with a reader or another writer.          *)
ImplementsNameLock == Abstract!Spec
=============================================================================
