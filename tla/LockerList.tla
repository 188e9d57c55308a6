------------------------------ MODULE LockerList ------------------------------
(***************************************************************************)
(* The quorum lock of src/locksys: LockSys.GetLocker hands each caller a   *)
(* lockerList over a copy of the lock servers, and its Lock, RLock, Unlock *)
(* and RUnlock fan one goroutine out per locker, wait for all of them and  *)
(* succeed when at least writeQuorum (Lock, Unlock) or readQuorum (RLock,  *)
(* RUnlock) of them returned nil.  A locker whose call failed is set to    *)
(* nil for the rest of that lockerList's life.                             *)
(*                                                                         *)
(* One name.  Each server is the NameMutex behind nameLockerRPCReceiver   *)
(* (pkg/sync/name-mutex.go): its lockMap entry for the name, the nameMutex *)
(* objects it created (numbered per server), their RWMutex state and       *)
(* counter.  A server-side lock() takes three steps, each a section under  *)
(* locker.Mutex or one setLock: look up or create the entry, then take the *)
(* object's RWMutex or time out, then count itself and re-insert the       *)
(* object; unlock() is one section.  A remote call either reaches its      *)
(* server's handler or fails with an RPC error before the handler starts;  *)
(* a failed call's request is lost or is handled later by a goroutine of   *)
(* its own, as with any RPC whose reply is lost.                           *)
(***************************************************************************)
EXTENDS Integers, FiniteSets

CONSTANTS
    Clients,        \* callers, each with its own lockerList
    Servers,        \* the lock servers (LockSys.lockers)
    ReadQuorum,
    WriteQuorum,
    MaxFaults,      \* RPC errors in a behaviour
    MaxCalls        \* MaxCalls[c]: Lock/RLock calls caller c makes

ASSUME /\ 2 * WriteQuorum > Cardinality(Servers)
       /\ ReadQuorum + WriteQuorum > Cardinality(Servers)

VARIABLES
    nmap,       \* nmap[s]: the object server s's lockMap holds, or NoObj
    ost,        \* ost[s][o]: RWMutex.state of object o of server s
    cnt,        \* cnt[s][o]: nameMutex.counter of object o of server s
    hd,         \* hd[g]: the phase of handler goroutine g and its object
    pc,         \* "idle", "lock" or "unlock" (in a call), "held" or "failed"
    isWrite,    \* whether c's calls are Lock/Unlock or RLock/RUnlock
    lockers,    \* the non-nil entries of c's lockerList.lockers
    pending,    \* the goroutines of c's call that have not returned
    oks,        \* the lockers whose call returned nil (errs[i] == nil)
    late,       \* late[i]: the request of the i-th failed RPC, still to come
    faults,
    calls

vars == <<nmap, ost, cnt, hd, pc, isWrite, lockers, pending, oks,
          late, faults, calls>>

\* The setLock/unlock of a nameMutex's RWMutex (zero value, no context).
Mu == INSTANCE RWMutex WITH Procs <- Clients, HasCtx <- FALSE, state <- 0,
        cancelled <- FALSE, pc <- [c \in Clients |-> "idle"],
        isWrite <- [c \in Clients |-> FALSE], ret <- [c \in Clients |-> "none"]

\* Objects a server references at once: the map entry and one per handler.
MaxObjs == Cardinality(Clients) + MaxFaults + 1
NoObj   == 0
Objs    == 1..MaxObjs

Requests == [s : Servers, w : BOOLEAN, unlock : BOOLEAN]
NoReq    == [s |-> "none", w |-> FALSE, unlock |-> FALSE]
Live     == Clients \X Servers      \* goroutine i of c's current call
Late     == {"late"} \X (1..MaxFaults)  \* the handler of a late request
Phases   == {"none", "waiting", "acquired"}
Idle     == [ph |-> "none", o |-> NoObj]

Quorum(w) == IF w THEN WriteQuorum ELSE ReadQuorum

\* The request goroutine i of c's current call sends to server s.
Req(c, s) == [s |-> s, w |-> isWrite[c], unlock |-> pc[c] = "unlock"]

\* The request handler goroutine g serves, and whether it is under way.
Job(g) == IF g \in Late THEN late[g[2]] ELSE Req(g[1], g[2])
Active(g) == IF g \in Late THEN late[g[2]] # NoReq ELSE g[2] \in pending[g[1]]

\* The server a handler goroutine runs on.
ServerOf(g) == IF g \in Late THEN late[g[2]].s ELSE g[2]

\* Object o of server s is unreachable when neither the map m nor the
\* pointer of a handler (h) refers to it: Go collects it, so a new object
\* may reuse its number, and its state is reset to the zero value.
Unreferenced(s, o, m, h) ==
    /\ m[s] # o
    /\ \A g \in Live \cup Late : h[g].o # o \/ ServerOf(g) # s

Collect(s, os, m, h, v) ==
    [v EXCEPT ![s] = [o \in Objs |->
        IF o \in os /\ Unreferenced(s, o, m, h) THEN 0 ELSE v[s][o]]]

\* name-mutex.go:29-35: the object found in the map, or new(nameMutex).
Entry(s) ==
    IF nmap[s] # NoObj THEN nmap[s]
    ELSE CHOOSE o \in Objs : Unreferenced(s, o, nmap, hd)

\* Seeded fault for mutation testing: an error leaves lockers[i] set.
DoneKeepLocker(g, ok) ==
    IF g \in Late
    THEN /\ late' = [late EXCEPT ![g[2]] = NoReq]
         /\ UNCHANGED <<pending, oks, lockers>>
    ELSE LET c == g[1]
             s == g[2]
         IN  /\ pending' = [pending EXCEPT ![c] = @ \ {s}]
             /\ oks' = IF ok THEN [oks EXCEPT ![c] = @ \cup {s}] ELSE oks
             /\ UNCHANGED <<lockers, late>>

\* Handler g's call returns (ok: a nil error) to goroutine i of its caller,
\* which sets lockers[i] to nil on an error; a late handler answers nobody.
Done(g, ok) ==
    IF g \in Late
    THEN /\ late' = [late EXCEPT ![g[2]] = NoReq]
         /\ UNCHANGED <<pending, oks, lockers>>
    ELSE LET c == g[1]
             s == g[2]
         IN  /\ pending' = [pending EXCEPT ![c] = @ \ {s}]
             /\ oks' = IF ok THEN [oks EXCEPT ![c] = @ \cup {s}] ELSE oks
             /\ lockers' = IF ok THEN lockers
                           ELSE [lockers EXCEPT ![c] = @ \ {s}]
             /\ UNCHANGED late

ClientVars == <<pc, isWrite, faults, calls>>

\* name-mutex.go:27-43: Lock/RLock look up or create the name's mutex under
\* locker.Mutex, and lock() starts on it.
LockEnter(g) ==
    LET s == Job(g).s
        e == Entry(s)
    IN  /\ Active(g)
        /\ ~Job(g).unlock
        /\ hd[g].ph = "none"
        /\ nmap' = [nmap EXCEPT ![s] = e]
        /\ hd' = [hd EXCEPT ![g] = [ph |-> "waiting", o |-> e]]
        /\ UNCHANGED <<ost, cnt, pending, oks, lockers, late>>
        /\ UNCHANGED ClientVars

\* rwmutex.go:65: a setLock of the object g holds a pointer to succeeds.
Acquired(g) ==
    LET s == Job(g).s
        o == hd[g].o
    IN  /\ hd[g].ph = "waiting"
        /\ Mu!CanSetLock(ost[s][o], Job(g).w)
        /\ ost' = [ost EXCEPT ![s][o] = Mu!SetLock(@, Job(g).w)]
        /\ hd' = [hd EXCEPT ![g].ph = "acquired"]
        /\ UNCHANGED <<nmap, cnt, pending, oks, lockers, late>>
        /\ UNCHANGED ClientVars

\* name-mutex.go:44-51: the lock timed out after a failed setLock
\* (ErrTimedOut); the entry, whatever object it is now, is deleted when g's
\* object has no counted holders.
TimedOut(g) ==
    LET s == Job(g).s
        o == hd[g].o
    IN  /\ hd[g].ph = "waiting"
        /\ ~Mu!CanSetLock(ost[s][o], Job(g).w)
        /\ nmap' = IF cnt[s][o] <= 0 THEN [nmap EXCEPT ![s] = NoObj] ELSE nmap
        /\ hd' = [hd EXCEPT ![g] = Idle]
        /\ ost' = Collect(s, {o, nmap[s]}, nmap', hd', ost)
        /\ cnt' = Collect(s, {o, nmap[s]}, nmap', hd', cnt)
        /\ Done(g, FALSE)
        /\ UNCHANGED ClientVars

\* name-mutex.go:54-62: count the holder and put g's object back in the
\* map; the call returns nil.
LockExit(g) ==
    LET s == Job(g).s
        o == hd[g].o
    IN  /\ hd[g].ph = "acquired"
        /\ nmap' = [nmap EXCEPT ![s] = o]
        /\ hd' = [hd EXCEPT ![g] = Idle]
        /\ cnt' = Collect(s, {nmap[s]}, nmap', hd', [cnt EXCEPT ![s][o] = @ + 1])
        /\ ost' = Collect(s, {nmap[s]}, nmap', hd', ost)
        /\ Done(g, TRUE)
        /\ UNCHANGED ClientVars

\* Seeded fault for mutation testing: unlock keeps the entry at count 0.
ServerUnlockKeepEntry(g) ==
    LET s == Job(g).s
        e == nmap[s]
    IN  /\ Active(g)
        /\ Job(g).unlock
        /\ ost' = IF e = NoObj THEN ost
                  ELSE [ost EXCEPT ![s][e] = Mu!Unlocked(@, Job(g).w)]
        /\ cnt' = IF e = NoObj THEN cnt ELSE [cnt EXCEPT ![s][e] = @ - 1]
        /\ Done(g, TRUE)
        /\ UNCHANGED <<nmap, hd>>
        /\ UNCHANGED ClientVars

\* name-mutex.go:65-82: Unlock/RUnlock release the object the map holds
\* now, if any, drop the entry when its count reaches zero, and return nil.
ServerUnlock(g) ==
    LET s == Job(g).s
        e == nmap[s]
    IN  /\ Active(g)
        /\ Job(g).unlock
        /\ nmap' = IF e # NoObj /\ cnt[s][e] - 1 <= 0
                   THEN [nmap EXCEPT ![s] = NoObj] ELSE nmap
        /\ ost' = IF e = NoObj THEN ost
                  ELSE Collect(s, {e}, nmap', hd,
                               [ost EXCEPT ![s][e] = Mu!Unlocked(@, Job(g).w)])
        /\ cnt' = IF e = NoObj THEN cnt
                  ELSE Collect(s, {e}, nmap', hd, [cnt EXCEPT ![s][e] = @ - 1])
        /\ Done(g, TRUE)
        /\ UNCHANGED hd
        /\ UNCHANGED ClientVars

Init ==
    /\ nmap = [s \in Servers |-> NoObj]
    /\ ost = [s \in Servers |-> [o \in Objs |-> Mu!noLock]]
    /\ cnt = [s \in Servers |-> [o \in Objs |-> 0]]
    /\ hd = [g \in Live \cup Late |-> Idle]
    /\ pc = [c \in Clients |-> "idle"]
    /\ isWrite = [c \in Clients |-> FALSE]
    /\ lockers = [c \in Clients |-> {}]
    /\ pending = [c \in Clients |-> {}]
    /\ oks = [c \in Clients |-> {}]
    /\ late = [i \in 1..MaxFaults |-> NoReq]
    /\ faults = 0
    /\ calls = [c \in Clients |-> 0]

ServerVars == <<nmap, ost, cnt, hd>>

\* GetLocker copies every locker into a new lockerList, and the caller's
\* Lock (w) or RLock starts one goroutine per locker.
Start(c, w) ==
    /\ pc[c] = "idle"
    /\ calls[c] < MaxCalls[c]
    /\ pc' = [pc EXCEPT ![c] = "lock"]
    /\ isWrite' = [isWrite EXCEPT ![c] = w]
    /\ lockers' = [lockers EXCEPT ![c] = Servers]
    /\ pending' = [pending EXCEPT ![c] = Servers]
    /\ oks' = [oks EXCEPT ![c] = {}]
    /\ calls' = [calls EXCEPT ![c] = @ + 1]
    /\ UNCHANGED <<late, faults>>
    /\ UNCHANGED ServerVars

Lock(c)  == Start(c, TRUE)
RLock(c) == Start(c, FALSE)

\* Seeded fault for mutation testing: the release fans out to every locker,
\* nil or not.
ReleaseAll(c) ==
    /\ pc[c] \in {"held", "failed"}
    /\ pc' = [pc EXCEPT ![c] = "unlock"]
    /\ pending' = [pending EXCEPT ![c] = Servers]
    /\ oks' = [oks EXCEPT ![c] = {}]
    /\ UNCHANGED <<isWrite, lockers, late, faults, calls>>
    /\ UNCHANGED ServerVars

\* The caller releases on the same lockerList once its Lock returned, nil
\* or not.  A nil locker returns errNilLocker without a call.
Release(c) ==
    /\ pc[c] \in {"held", "failed"}
    /\ pc' = [pc EXCEPT ![c] = "unlock"]
    /\ pending' = [pending EXCEPT ![c] = lockers[c]]
    /\ oks' = [oks EXCEPT ![c] = {}]
    /\ UNCHANGED <<isWrite, lockers, late, faults, calls>>
    /\ UNCHANGED ServerVars

Unlock(c)  == isWrite[c] /\ Release(c)
RUnlock(c) == ~isWrite[c] /\ Release(c)

\* Goroutine s: the RPC fails before the server's handler starts; lockers[s]
\* becomes nil, and the request is lost or is handled later.
RPCError(c, s) ==
    /\ s \in pending[c]
    /\ hd[<<c, s>>].ph = "none"
    /\ faults < MaxFaults
    /\ faults' = faults + 1
    /\ pending' = [pending EXCEPT ![c] = @ \ {s}]
    /\ lockers' = [lockers EXCEPT ![c] = @ \ {s}]
    /\ \E r \in {NoReq, Req(c, s)} : late' = [late EXCEPT ![faults + 1] = r]
    /\ UNCHANGED <<pc, isWrite, oks, calls>>
    /\ UNCHANGED ServerVars

\* getErrCount(errs, nil) >= quorum.
QuorumMet(c) == Cardinality(oks[c]) >= Quorum(isWrite[c])

\* wg.Wait() returns and the call counts the nil errors against its quorum.
\* The errs slice dies with the call, and the lockerList after its Unlock.
Return(c) ==
    /\ pc[c] \in {"lock", "unlock"}
    /\ pending[c] = {}
    /\ pc' = [pc EXCEPT ![c] =
                IF pc[c] = "unlock" THEN "idle"
                ELSE IF QuorumMet(c) THEN "held"
                ELSE "failed"]
    /\ oks' = [oks EXCEPT ![c] = {}]
    /\ lockers' = IF pc[c] = "unlock" THEN [lockers EXCEPT ![c] = {}] ELSE lockers
    /\ isWrite' = IF pc[c] = "unlock" THEN [isWrite EXCEPT ![c] = FALSE] ELSE isWrite
    /\ UNCHANGED <<pending, late, faults, calls>>
    /\ UNCHANGED ServerVars

Handler(g) ==
    LockEnter(g) \/ Acquired(g) \/ TimedOut(g) \/ LockExit(g) \/ ServerUnlock(g)

Next ==
    \/ \E c \in Clients :
          \/ Lock(c) \/ RLock(c)
          \/ Unlock(c) \/ RUnlock(c)
          \/ Return(c)
          \/ \E s \in Servers : RPCError(c, s)
    \/ \E g \in Live \cup Late : Handler(g)

\* Handler goroutines run when they can, and a waiting lock() either takes
\* the mutex or its ticker fires (a timeout above zero); wg.Wait returns
\* once every goroutine is done, and a caller releases what it locked.
\* Starting a call and RPC errors are not forced.
Fairness ==
    /\ \A c \in Clients : WF_vars(Return(c)) /\ WF_vars(Release(c))
    /\ \A g \in Live \cup Late :
          /\ WF_vars(LockEnter(g)) /\ WF_vars(LockExit(g))
          /\ WF_vars(Acquired(g) \/ TimedOut(g)) /\ WF_vars(ServerUnlock(g))

Spec == Init /\ [][Next]_vars /\ Fairness

-----------------------------------------------------------------------------
InCall == {"lock", "unlock"}
Bound  == Cardinality(Clients) + MaxFaults

(* Every variable has its type; a goroutine runs, and a nil error is     *)
(* counted, only for a locker that is not nil, so a caller's Unlock goes  *)
(* only to servers whose Lock call returned nil.                          *)
TypeOK ==
    /\ nmap \in [Servers -> Objs \cup {NoObj}]
    /\ ost \in [Servers -> [Objs -> -1..Bound]]
    /\ cnt \in [Servers -> [Objs -> -Bound..Bound]]
    /\ hd \in [Live \cup Late -> [ph : Phases, o : Objs \cup {NoObj}]]
    /\ pc \in [Clients -> InCall \cup {"idle", "held", "failed"}]
    /\ isWrite \in [Clients -> BOOLEAN]
    /\ \A c \in Clients : pending[c] \cup oks[c] \subseteq lockers[c]
    /\ lockers \in [Clients -> SUBSET Servers]
    /\ late \in [1..MaxFaults -> Requests \cup {NoReq}]
    /\ faults \in 0..MaxFaults
    /\ \A c \in Clients : calls[c] \in 0..MaxCalls[c]

\* The lock each caller holds, as NameLock sees it: from a Lock/RLock that
\* returned nil until the caller starts to release it.
HoldingMap ==
    [c \in Clients |-> IF pc[c] # "held" THEN "none"
                       ELSE IF isWrite[c] THEN "write" ELSE "read"]

Abstract == INSTANCE NameLock WITH Procs <- Clients, Names <- {"name"},
              holding <- [n \in {"name"} |-> HoldingMap]

(* lockerList implements the abstract read/write lock on the name: a Lock *)
(* that returns nil is an Acquire no other holder conflicts with.  Quorum *)
(* intersection gives this only if every server's NameMutex excludes      *)
(* conflicting holders of its own.                                        *)
ImplementsNameLock == Abstract!Spec

(* Every server-side unlock meets a lock its caller counted: no          *)
(* nameMutex.counter goes below zero.  The owner-less RWMutex and the     *)
(* unlock of whatever object the map holds rely on it; it takes the       *)
(* lockers set to nil after every error, so that an Unlock never reaches  *)
(* a server whose Lock timed out, failed or came back late.               *)
UnlocksMatchLocks == \A s \in Servers, o \in Objs : cnt[s][o] >= 0

(* The lock servers do not leak lockMap entries: callers that release     *)
(* after every Lock, whatever it returned, leave no entry for the name in *)
(* any server's lockMap once they are done, while no RPC fails, however   *)
(* timeouts, unlocks and re-inserts after a parallel unlock interleave.   *)
LockMapDrained == <>[](faults > 0 \/ \A s \in Servers : nmap[s] = NoObj)
====
