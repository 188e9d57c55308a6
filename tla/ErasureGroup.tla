----------------------------- MODULE ErasureGroup -----------------------------
(***************************************************************************)
(* The erasure group of src/datasys/dataspace/erasure/erasure.go over the  *)
(* disk backend of src/datasys/dataspace/disk/disk.go, for one temp file   *)
(* T, one upload U with one part P, and one data ID D.                     *)
(*                                                                         *)
(* A disk's state is four containers: tmp (tmp/T and tmp/T.checksum), up   *)
(* (uploads/U), trash (trash/U) and data (data/D).  A directory holds the  *)
(* part (P.part), its sidecar (P.part.checksum) and data.json.  Every      *)
(* syscall a disk operation makes may fail with an I/O error (a fault);    *)
(* a failed syscall changes nothing and ends the operation.                *)
(*                                                                         *)
(* The group calls are made one at a time by one caller, in any order.     *)
(* InitUpload, UploadPart, AbortUpload, CompleteUpload and RemoveTempFile  *)
(* are one step each: their goroutines touch only their own disk, and the  *)
(* success count is read after wg.Wait.  SaveTempFile is modelled step by  *)
(* step: the encoder (erasure.Write), the N+M io.Pipes, and the per-disk   *)
(* goroutines running xos.WriteFile, because they block on each other.     *)
(* The shard bytes are abstracted to Chunks pipe writes per shard.         *)
(***************************************************************************)
EXTENDS Integers, FiniteSets

CONSTANTS
    Disks,      \* ds.shardDisks (N+M disks)
    MinSuccess, \* ds.minSuccess
    Chunks,     \* blockCount: the pipe writes (blocks) of one shard
    MaxFaults,  \* I/O errors (syscalls or the request body) in a behaviour
    MaxCalls    \* group calls the caller makes

ASSUME MinSuccess \in 1..Cardinality(Disks) /\ Chunks \in Nat \ {0}

VARIABLES
    disk,       \* disk[d]: the containers of disk d
    pc,         \* "idle", or "save" while SaveTempFile runs
    ret,        \* [op, ok]: the last group call that returned
    blk,        \* erasure.Write's block index i
    wret,       \* what erasure.Write returned: "no" (running), "ok", "err"
    inPipe,     \* inPipe[d]: writeShards' goroutine d is blocked in Write
    got,        \* got[d]: blocks disk d's WriteFile has read from its pipe
    ws,         \* ws[d]: WriteFile of disk d: "open", "read", "ok", "err"
    closed,     \* the pipe writers are closed
    faults,     \* faults so far
    calls       \* group calls so far

saveVars == <<blk, wret, inPipe, got, ws, closed>>
vars == <<disk, pc, ret, faults, calls, saveVars>>

\* File contents: a file is absent, holds a complete shard (and sidecar)
\* of the last save, or anything else (being written, or cut short).
Absent  == "absent"
Partial == "partial"
Full    == "full"
Content == {Absent, Partial, Full}

Containers == {"tmp", "up", "trash", "data"}
Dir        == [ex : BOOLEAN, data : Content, sum : Content, json : Content]
NoDir      == [ex |-> FALSE, data |-> Absent, sum |-> Absent, json |-> Absent]
EmptyDir   == [NoDir EXCEPT !.ex = TRUE]
IsEmpty(c) == c.data = Absent /\ c.sum = Absent /\ c.json = Absent

\* The result of a disk operation: the new disk state, and err == nil.
Ok(s)   == [s |-> s, ok |-> TRUE]
Fail(s) == [s |-> s, ok |-> FALSE]

Init ==
    /\ disk = [d \in Disks |-> [c \in Containers |-> IF c = "tmp" THEN EmptyDir ELSE NoDir]]
    /\ pc = "idle"
    /\ ret = [op |-> "none", ok |-> FALSE]
    /\ blk = 0
    /\ wret = "no"
    /\ inPipe = [d \in Disks |-> FALSE]
    /\ got = [d \in Disks |-> 0]
    /\ ws = [d \in Disks |-> "open"]
    /\ closed = FALSE
    /\ faults = 0
    /\ calls = 0

-----------------------------------------------------------------------------
(* Disk operations.  f is the syscall (1 or 2) that fails, 0 for none.    *)

\* os.Rename of a file into an existing directory (a failed rename leaves
\* both names as they were; an existing target file is replaced).
MoveFile(s, from, to, field, fault) ==
    IF s[from][field] = Absent \/ ~s[to].ex \/ fault THEN Fail(s)
    ELSE Ok([s EXCEPT ![to][field] = s[from][field], ![from][field] = Absent])

\* Seeded fault for mutation testing: the error of the data file's rename
\* is dropped, so a rename that moved only the sidecar reports success.
RenameFileDataUnchecked(s, from, to, f) ==
    LET r == MoveFile(s, from, to, "sum", f = 1)
    IN  IF ~r.ok THEN r ELSE Ok(MoveFile(r.s, from, to, "data", f = 2).s)

\* file.go:191-199 RenameFile with bitrot protection: the sidecar first,
\* then the data file; an error of the second rename leaves the first done.
RenameFile(s, from, to, f) ==
    LET r == MoveFile(s, from, to, "sum", f = 1)
    IN  IF ~r.ok THEN r ELSE MoveFile(r.s, from, to, "data", f = 2)

\* file.go:84-101 RemoveFile: both removes are tried; err1 or err2 fails it.
RemoveFile(s, c, f) ==
    LET e1 == s[c].data = Absent \/ f = 1
        e2 == s[c].sum = Absent \/ f = 2
        s1 == IF e1 THEN s ELSE [s EXCEPT ![c].data = Absent]
    IN  [s |-> IF e2 THEN s1 ELSE [s1 EXCEPT ![c].sum = Absent], ok |-> ~e1 /\ ~e2]

\* os.Rename of a directory: it fails if the source is missing or the
\* target is a non-empty directory; an empty target is replaced.
RenameDir(s, from, to, fault) ==
    IF ~s[from].ex \/ (s[to].ex /\ ~IsEmpty(s[to])) \/ fault THEN Fail(s)
    ELSE Ok([s EXCEPT ![to] = s[from], ![from] = NoDir])

\* disk.go:90-92
RemoveTempFile(s, f) == RemoveFile(s, "tmp", f)

\* disk.go:94-102: mkdir uploads/U; ErrUploadIDAlreadyExist if it exists.
InitUpload(s, f) ==
    IF s.up.ex \/ f = 1 THEN Fail(s) ELSE Ok([s EXCEPT !.up = EmptyDir])

\* disk.go:104-112: os.Remove of uploads/U, which fails unless it is empty.
RevertInitUpload(s, f) ==
    IF ~s.up.ex \/ ~IsEmpty(s.up) \/ f = 1 THEN Fail(s) ELSE Ok([s EXCEPT !.up = NoDir])

\* disk.go:114-123: tmp/T{,.checksum} -> uploads/U/P.part{,.checksum}.
UploadPart(s, f) == IF ~s.up.ex THEN Fail(s) ELSE RenameFile(s, "tmp", "up", f)

\* disk.go:125-138: the inverse renames.
RevertUploadPart(s, f) == IF ~s.up.ex THEN Fail(s) ELSE RenameFile(s, "up", "tmp", f)

\* disk.go:144-154: uploads/U -> trash/U.
AbortUpload(s, f) == RenameDir(s, "up", "trash", f = 1)

\* disk.go:156-164: trash/U -> uploads/U.
RevertAbortUpload(s, f) == RenameDir(s, "trash", "up", f = 1)

\* disk.go:166-204: write uploads/U/data.json (O_CREATE, no O_TRUNC; the
\* same parts give the same bytes), then rename uploads/U -> data/D.
CompleteUpload(s, f) ==
    IF ~s.up.ex \/ s.data.ex \/ f = 1 THEN Fail(s)
    ELSE RenameDir([s EXCEPT !.up.json = Full], "up", "data", f = 2)

\* disk.go:206-220: data/D -> uploads/U, then remove data.json (its error
\* is ignored).
RevertCompleteUpload(s, f) ==
    LET r == RenameDir(s, "data", "up", f = 1)
    IN  IF ~r.ok THEN r
        ELSE Ok(IF f = 2 THEN r.s ELSE [r.s EXCEPT !.up.json = Absent])
-----------------------------------------------------------------------------
(* Group calls.                                                            *)

Faulted(f, D) == Cardinality({d \in D : f[d] # 0})

\* erasure.go:148-184, the shape of every fan-out: run Op on every disk,
\* succeed if at least minSuccess succeeded, otherwise run Revert on the
\* disks whose Op returned an error (errs[i] != nil) and fail.
FanOut(Op(_, _), Revert(_, _), name) ==
    /\ pc = "idle" /\ calls < MaxCalls
    /\ \E f \in [Disks -> 0..2] :
         LET r    == [d \in Disks |-> Op(disk[d], f[d])]
             succ == {d \in Disks : r[d].ok}
         IN  /\ faults + Faulted(f, Disks) <= MaxFaults
             /\ IF Cardinality(succ) >= MinSuccess
                THEN /\ disk' = [d \in Disks |-> r[d].s]
                     /\ ret' = [op |-> name, ok |-> TRUE]
                     /\ faults' = faults + Faulted(f, Disks)
                ELSE \E g \in [Disks \ succ -> 0..2] :
                     /\ faults + Faulted(f, Disks) + Faulted(g, Disks \ succ) <= MaxFaults
                     /\ disk' = [d \in Disks |-> IF d \in succ THEN r[d].s
                                                 ELSE Revert(r[d].s, g[d]).s]
                     /\ ret' = [op |-> name, ok |-> FALSE]
                     /\ faults' = faults + Faulted(f, Disks) + Faulted(g, Disks \ succ)
    /\ calls' = calls + 1
    /\ UNCHANGED <<pc, saveVars>>

ErasureInitUpload     == FanOut(InitUpload, RevertInitUpload, "init")
ErasureUploadPart     == FanOut(UploadPart, RevertUploadPart, "part")
ErasureAbortUpload    == FanOut(AbortUpload, RevertAbortUpload, "abort")
ErasureCompleteUpload == FanOut(CompleteUpload, RevertCompleteUpload, "complete")

\* erasure.go:122-146: remove the temp file everywhere; no revert.
ErasureRemoveTempFile ==
    /\ pc = "idle" /\ calls < MaxCalls
    /\ \E f \in [Disks -> 0..2] :
         LET r == [d \in Disks |-> RemoveTempFile(disk[d], f[d])]
         IN  /\ faults + Faulted(f, Disks) <= MaxFaults
             /\ disk' = [d \in Disks |-> r[d].s]
             /\ ret' = [op |-> "remove",
                        ok |-> Cardinality({d \in Disks : r[d].ok}) >= MinSuccess]
             /\ faults' = faults + Faulted(f, Disks)
    /\ calls' = calls + 1
    /\ UNCHANGED <<pc, saveVars>>
-----------------------------------------------------------------------------
(* SaveTempFile (erasure.go:47-120).                                       *)

\* erasure.go:61-89: make the pipes and start WriteFile on every disk.
SaveTempFile ==
    /\ pc = "idle" /\ calls < MaxCalls
    /\ pc' = "save"
    /\ blk' = 0
    /\ wret' = "no"
    /\ inPipe' = [d \in Disks |-> FALSE]
    /\ got' = [d \in Disks |-> 0]
    /\ ws' = [d \in Disks |-> "open"]
    /\ closed' = FALSE
    /\ calls' = calls + 1
    /\ UNCHANGED <<disk, ret, faults>>

\* file.go:37-58: open tmp/T (O_CREATE, no O_TRUNC) and create its
\* sidecar.  An error of either returns at once, before reading the pipe.
WriteFileOpen(d) ==
    /\ pc = "save" /\ ws[d] = "open"
    /\ \/ /\ ws' = [ws EXCEPT ![d] = "read"]
          /\ disk' = [disk EXCEPT ![d].tmp.data = Partial, ![d].tmp.sum = Partial]
          /\ UNCHANGED faults
       \/ /\ faults < MaxFaults
          /\ faults' = faults + 1
          /\ ws' = [ws EXCEPT ![d] = "err"]
          /\ \/ UNCHANGED disk                                  \* OpenFile fails
             \/ disk' = [disk EXCEPT ![d].tmp.data = Partial]   \* createChecksumFile fails
    /\ UNCHANGED <<pc, ret, calls, blk, wret, inPipe, got, closed>>

\* file.go:67-79: io.ReadFull takes the block in the pipe, which releases
\* the encoder's Write; then the block is written to the file and the
\* sidecar.  After the last block WriteFile returns nil.
WriteFileRead(d) ==
    /\ pc = "save" /\ ws[d] = "read" /\ inPipe[d]
    /\ inPipe' = [inPipe EXCEPT ![d] = FALSE]
    /\ got' = [got EXCEPT ![d] = @ + 1]
    /\ \/ /\ ws' = [ws EXCEPT ![d] = IF got[d] + 1 = Chunks THEN "ok" ELSE "read"]
          /\ disk' = IF got[d] + 1 = Chunks
                     THEN [disk EXCEPT ![d].tmp.data = Full, ![d].tmp.sum = Full]
                     ELSE disk
          /\ UNCHANGED faults
       \/ /\ faults < MaxFaults
          /\ faults' = faults + 1
          /\ ws' = [ws EXCEPT ![d] = "err"]
          /\ UNCHANGED disk
    /\ UNCHANGED <<pc, ret, calls, blk, wret, closed>>

\* file.go:72-73: the pipe was closed before the whole shard arrived, so
\* io.ReadFull returns io.EOF or io.ErrUnexpectedEOF.
WriteFileEOF(d) ==
    /\ pc = "save" /\ ws[d] = "read" /\ closed
    /\ ws' = [ws EXCEPT ![d] = "err"]
    /\ UNCHANGED <<disk, pc, ret, faults, calls, blk, wret, inPipe, got, closed>>

\* Seeded fault for mutation testing: the block loop runs while
\* i <= blockCount, one block too many.
EncodeBlockInclusive ==
    /\ pc = "save" /\ wret = "no" /\ blk <= Chunks
    /\ \A d \in Disks : ~inPipe[d]
    /\ inPipe' = [d \in Disks |-> TRUE]
    /\ blk' = blk + 1
    /\ UNCHANGED <<wret, faults, disk, pc, ret, calls, got, ws, closed>>

\* encode.go:142-173: once writeShards of the last block has joined,
\* read the next block from the request body (which may fail) and write
\* its shard to every pipe; a pipe Write blocks until its disk reads it.
\* The writers never fail (nothing closes a pipe's read side), so all stay.
EncodeBlock ==
    /\ pc = "save" /\ wret = "no" /\ blk < Chunks
    /\ \A d \in Disks : ~inPipe[d]
    /\ \/ /\ inPipe' = [d \in Disks |-> TRUE]
          /\ blk' = blk + 1
          /\ UNCHANGED <<wret, faults>>
       \/ /\ faults < MaxFaults
          /\ faults' = faults + 1
          /\ wret' = "err"
          /\ UNCHANGED <<inPipe, blk>>
    /\ UNCHANGED <<disk, pc, ret, calls, got, ws, closed>>

\* encode.go:176-183: every block was written; Write returns its digests.
EncodeDone ==
    /\ pc = "save" /\ wret = "no" /\ blk = Chunks
    /\ \A d \in Disks : ~inPipe[d]
    /\ wret' = "ok"
    /\ UNCHANGED <<disk, pc, ret, faults, calls, blk, inPipe, got, ws, closed>>

\* Seeded fault for mutation testing: wg.Wait for the disk goroutines
\* before closing the pipe writers.
ClosePipesAfterWait ==
    /\ pc = "save" /\ wret # "no" /\ ~closed
    /\ \A d \in Disks : ws[d] \in {"ok", "err"}
    /\ closed' = TRUE
    /\ UNCHANGED <<disk, pc, ret, faults, calls, blk, wret, inPipe, got, ws>>

\* erasure.go:98-100: after Write returns, close every pipe writer.
ClosePipes ==
    /\ pc = "save" /\ wret # "no" /\ ~closed
    /\ closed' = TRUE
    /\ UNCHANGED <<disk, pc, ret, faults, calls, blk, wret, inPipe, got, ws>>

\* erasure.go:101-119: wg.Wait, then fail on Write's error; otherwise
\* every shard whose WriteFile digest is not the encoder's (WriteFile
\* returned an error) has its temp file removed and is not counted.
SaveJoin ==
    LET bad == {d \in Disks : ws[d] = "err"}
    IN  /\ pc = "save" /\ closed
        /\ \A d \in Disks : ws[d] \in {"ok", "err"}
        /\ pc' = "idle"
        /\ IF wret = "err"
           THEN /\ ret' = [op |-> "save", ok |-> FALSE]
                /\ UNCHANGED <<disk, faults>>
           ELSE \E f \in [bad -> 0..2] :
                /\ faults + Faulted(f, bad) <= MaxFaults
                /\ faults' = faults + Faulted(f, bad)
                /\ disk' = [d \in Disks |-> IF d \in bad THEN RemoveTempFile(disk[d], f[d]).s
                                            ELSE disk[d]]
                /\ ret' = [op |-> "save",
                           ok |-> Cardinality(Disks) - Cardinality(bad) >= MinSuccess]
        /\ UNCHANGED <<calls, saveVars>>

SaveStep ==
    \/ EncodeBlock \/ EncodeDone \/ ClosePipes \/ SaveJoin
    \/ \E d \in Disks : WriteFileOpen(d) \/ WriteFileRead(d) \/ WriteFileEOF(d)

Next ==
    \/ SaveTempFile \/ SaveStep
    \/ ErasureRemoveTempFile \/ ErasureInitUpload \/ ErasureUploadPart
    \/ ErasureAbortUpload \/ ErasureCompleteUpload

\* Go schedules every runnable goroutine, and a syscall returns: each step
\* of a running SaveTempFile happens while it stays enabled.  The caller
\* need not make another call.
Fairness ==
    /\ WF_vars(EncodeBlock) /\ WF_vars(EncodeDone) /\ WF_vars(ClosePipes)
    /\ WF_vars(SaveJoin)
    /\ \A d \in Disks : WF_vars(WriteFileOpen(d)) /\ WF_vars(WriteFileRead(d))
                        /\ WF_vars(WriteFileEOF(d))

Spec == Init /\ [][Next]_vars /\ Fairness
-----------------------------------------------------------------------------
(* Every variable has its type.                                            *)
TypeOK ==
    /\ disk \in [Disks -> [Containers -> Dir]]
    /\ pc \in {"idle", "save"}
    /\ ret \in [op : {"none", "save", "remove", "init", "part", "abort", "complete"},
                ok : BOOLEAN]
    /\ blk \in 0..Chunks /\ wret \in {"no", "ok", "err"}
    /\ inPipe \in [Disks -> BOOLEAN] /\ got \in [Disks -> 0..Chunks]
    /\ ws \in [Disks -> {"open", "read", "ok", "err"}] /\ closed \in BOOLEAN
    /\ faults \in 0..MaxFaults /\ calls \in 0..MaxCalls

\* What a successful call of each kind leaves on one disk.
Done(op, s) ==
    CASE op = "save"     -> s.tmp.data = Full /\ s.tmp.sum = Full
      [] op = "remove"   -> s.tmp.data = Absent /\ s.tmp.sum = Absent
      [] op = "init"     -> s.up.ex
      [] op = "part"     -> s.up.ex /\ s.up.data # Absent /\ s.up.sum # Absent
      [] op = "abort"    -> s.trash.ex /\ ~s.up.ex
      [] op = "complete" -> s.data.ex /\ s.data.json = Full /\ ~s.up.ex
      [] OTHER           -> TRUE

(* A group call that returns nil has done its work on at least minSuccess  *)
(* disks: each disk's error covers every syscall of its operation (both    *)
(* renames of RenameFile, both removes of RemoveFile, data.json and the    *)
(* directory rename), and SaveTempFile counts only disks whose WriteFile   *)
(* read and wrote the whole shard through its pipe.                        *)
OkMeansQuorum ==
    pc = "idle" /\ ret.ok =>
        Cardinality({d \in Disks : Done(ret.op, disk[d])}) >= MinSuccess

\* A disk's WriteFile stopped reading before its shard was complete, while
\* the encoder may still write to its pipe.
Stranded(d) == ws[d] = "err" /\ got[d] < Chunks /\ ~closed

(* SaveTempFile returns unless a disk stops reading its pipe early: when   *)
(* the request body fails, the pipes are closed before wg.Wait, so every   *)
(* WriteFile still reading sees EOF and the call returns its error.        *)
SaveReturnsUnlessStranded ==
    [](pc = "save" => <>(pc = "idle" \/ \E d \in Disks : Stranded(d)))

(* Spec 4.7: SaveTempFile fails only when fewer than minSuccess shard      *)
(* digests match; a call always returns.                                   *)
SaveReturns == [](pc = "save" => <>(pc = "idle"))

(* Spec 5: CompleteUpload publishes the data by a directory rename; once   *)
(* it has returned nil, data/D stays published on at least minSuccess      *)
(* disks whatever calls follow.                                            *)
CompletedStaysPublished ==
    [](pc = "idle" /\ ret = [op |-> "complete", ok |-> TRUE] =>
         [](Cardinality({d \in Disks : disk[d].data.ex}) >= MinSuccess))
=============================================================================
