--------------------------- MODULE NamespaceUploads ---------------------------
(***************************************************************************)
(* The multipart-upload lifecycle of the namespace disk layer              *)
(* (src/datasys/namespace/disk: create-upload.go, upload-part.go,          *)
(* abort-upload.go, complete-upload.go) over xos.CreatePath/RemovePath     *)
(* (src/pkg/os/os.go), for one bucket, one object and one part number.    *)
(* Every call and its revert is one step of a single caller, in any order. *)
(* Inside a call every syscall that changes a name (mkdir, rename, remove, *)
(* the write of a temp file) may fail with an I/O error; the faulted       *)
(* syscalls of a call are a set F of their numbers, bounded by MaxFaults  *)
(* over the whole run.  Errors that follow from the tree (ENOENT, EEXIST, *)
(* ENOTEMPTY) are computed, never chosen.  Temp files are not tracked:     *)
(* they are fresh names that nothing but their own call reads.             *)
(***************************************************************************)
EXTENDS Integers, FiniteSets, Sequences

CONSTANTS
    NUploads,   \* upload IDs 1..NUploads; the version a completion writes is its upload's
    MaxWrites,  \* UploadPart calls (each writes a distinct part content 1..MaxWrites)
    MaxFaults,  \* I/O errors over the whole run
    MaxCalls    \* calls the caller makes

VARIABLES
    fs,         \* fs[p]: the content of path p, 0 when p does not exist
    ret,        \* the last call: its name, upload and error
    writes,     \* UploadPart calls made
    faults,     \* I/O errors so far
    calls,      \* calls made
    last,       \* last[u]: u's last successful forward call, which may be reverted
    drops       \* times the bucket was renamed away (RevertCreateBucket, DeleteBucket)

vars == <<fs, ret, writes, faults, calls, last, drops>>

Uploads == 1..NUploads

(***************************************************************************)
(* Paths.  Directories hold 1 when they exist; files hold their content:   *)
(* a part number for .part/.datainfo, the version ID for the default file, *)
(* 1 for the other metadata files.                                         *)
(***************************************************************************)
Up(u)      == <<"uploadids/H/U", u>>         \* uploadIDDir
Part(u)    == <<"uploadids/H/U/P.part", u>>
DInfo(u)   == <<"uploadids/H/U/P.datainfo", u>>
TUp(u)     == <<"trash/H.U", u>>             \* trashUploadIDDir
TUPart(u)  == <<"trash/H.U/P.part", u>>
TUDInfo(u) == <<"trash/H.U/P.datainfo", u>>
TPart(u)   == <<"trash/U.P.part", u>>        \* trashPartFile
TDInfo(u)  == <<"trash/U.P.datainfo", u>>
Meta(u)    == <<"multipart/O/U.objectID", u>>
TMeta(u)   == <<"trash/U.objectID", u>>
Ver(u)     == <<"objects/O/V", u>>           \* versionFile of u's version
VInfo(u)   == <<"objects/O/V.datainfo", u>>
TDflt(u)   == <<"trash/H.default.V", u>>     \* trashDefaultFile
Dflt       == <<"objects/O/objectID", 0>>    \* defaultFile
HDir       == <<"uploadids/H", 0>>
BDir       == <<"buckets/B", 0>>               \* bucketDir
BMeta      == <<"buckets/B/M", 0>>             \* a bucket metadata file
TBMeta     == <<"trash/B.M", 0>>               \* DeleteBucketMetaData's trash name
TBDir      == <<"trash/B", 0>>                 \* DeleteBucket's trash name

PerUpload == {"uploadids/H/U", "uploadids/H/U/P.part", "uploadids/H/U/P.datainfo",
              "trash/H.U", "trash/H.U/P.part", "trash/H.U/P.datainfo",
              "trash/U.P.part", "trash/U.P.datainfo", "multipart/O/U.objectID",
              "trash/U.objectID", "objects/O/V", "objects/O/V.datainfo",
              "trash/H.default.V"}

\* The names inside the bucket directory, and their copies under trash/B.
InBucket == ({"uploadids/H/U", "uploadids/H/U/P.part", "uploadids/H/U/P.datainfo",
              "multipart/O/U.objectID", "objects/O/V", "objects/O/V.datainfo"} \X Uploads)
            \cup {Dflt, HDir, BMeta}
TBOf == [p \in InBucket |-> <<"trash/B/" \o p[1], p[2]>>]
TBPaths == {TBOf[p] : p \in InBucket}
LiveOf == [q \in TBPaths |-> CHOOSE p \in InBucket : TBOf[p] = q]

Paths == (PerUpload \X Uploads) \cup {Dflt, HDir, BDir, BMeta, TBMeta, TBDir} \cup TBPaths

\* The names a reader of the namespace sees (not trash/ or tmp/): the
\* upload and object names, the bucket and its metadata file.
VisibleKinds == {"uploadids/H/U", "uploadids/H/U/P.part", "uploadids/H/U/P.datainfo",
                 "multipart/O/U.objectID", "objects/O/V", "objects/O/V.datainfo"}
Visible(s) == [p \in (VisibleKinds \X Uploads) \cup {Dflt, BDir, BMeta} |-> s[p]]
VisibleOf(s, u) == [k \in VisibleKinds |-> s[<<k, u>>]]

\* The children that move with a directory rename.
Children(d) == CASE d[1] = "uploadids/H/U" -> <<Part(d[2]), DInfo(d[2])>>
                 [] d[1] = "trash/H.U"     -> <<TUPart(d[2]), TUDInfo(d[2])>>
IsDir(p) == p[1] \in {"uploadids/H/U", "trash/H.U"}

\* The modelled parent directory of p must exist (trash/, objects/O and
\* multipart/O are present whenever something is renamed into them).
ParentOK(s, p) == CASE p[1] \in {"uploadids/H/U/P.part", "uploadids/H/U/P.datainfo"}
                        -> s[Up(p[2])] = 1
                    [] p[1] \in {"trash/H.U/P.part", "trash/H.U/P.datainfo"}
                        -> s[TUp(p[2])] = 1
                    [] p[1] = "uploadids/H/U" -> s[HDir] = 1
                    [] p \in InBucket             -> s[BDir] = 1
                    [] p \in TBPaths              -> s[TBDir] = 1
                    [] OTHER -> TRUE

Empty(s, d) == \A i \in 1..2 : s[Children(d)[i]] = 0

-----------------------------------------------------------------------------
(* Syscalls.  A result is the new tree and the error.                      *)

R(s, e) == [s |-> s, err |-> e]

\* os.Rename: ENOENT for a missing source or target directory, ENOTEMPTY
\* onto a non-empty directory; an existing target file or empty directory
\* is replaced.  A directory takes its children along.
Rename(s, from, to, i, F) ==
    CASE s[from] = 0 \/ ~ParentOK(s, to)           -> R(s, "enoent")
      [] IsDir(from) /\ s[to] = 1 /\ ~Empty(s, to) -> R(s, "enotempty")
      [] i \in F                                   -> R(s, "eio")
      [] IsDir(from) ->
           LET cf == Children(from)
               ct == Children(to)
           IN  R([s EXCEPT ![to] = 1, ![from] = 0,
                           ![ct[1]] = s[cf[1]], ![ct[2]] = s[cf[2]],
                           ![cf[1]] = 0, ![cf[2]] = 0], "nil")
      [] OTHER -> R([s EXCEPT ![to] = s[from], ![from] = 0], "nil")

\* os.Remove: ENOENT for a missing name, ENOTEMPTY for a non-empty directory.
Remove(s, p, i, F) ==
    CASE s[p] = 0                                -> R(s, "enoent")
      [] IsDir(p) /\ ~Empty(s, p)                -> R(s, "enotempty")
      [] p = HDir /\ \E u \in Uploads : s[Up(u)] = 1 -> R(s, "enotempty")
      [] i \in F                                 -> R(s, "eio")
      [] OTHER                                   -> R([s EXCEPT ![p] = 0], "nil")

\* A temp file written and renamed into p (CreatePath with a temp file, or
\* WriteFile then os.Rename): the one syscall that can fail is i.
Put(s, p, v, i, F) == IF i \in F THEN R(s, "eio") ELSE R([s EXCEPT ![p] = v], "nil")

\* os.go:38-66 RemovePath(p, base, false) for a file right under an
\* unmodelled directory: ENOENT and ENOTEMPTY count as success.
RemovePath(s, p, i, F) ==
    LET r == Remove(s, p, i, F)
    IN  IF r.err \in {"enoent", "enotempty"} THEN R(r.s, "nil") ELSE r

\* os.go:38-66 RemovePath(uploadIDDir, bucket/uploadids, false): remove the
\* upload dir, then uploadids/H; a non-empty directory ends the walk.
RemoveUpDir(s, u, i, F) ==
    LET r1 == Remove(s, Up(u), i, F)
    IN  CASE r1.err = "enotempty" -> R(r1.s, "nil")
          [] r1.err = "eio"       -> r1
          [] OTHER                -> RemovePath(r1.s, HDir, i + 1, F)

\* mergeErrors (uploads.go:19-37): nil unless one of them failed.
Merge(e1, e2) == IF e1 = "nil" THEN e2 ELSE e1

-----------------------------------------------------------------------------
(* The calls of namespace/disk.  F holds the numbers of the syscalls that *)
(* fail with an I/O error.                                                 *)

\* create-upload.go:20-53.  CreatePath(uploadIDDir, "", true) is MkdirAll of
\* uploadids/H (1) and an exclusive Mkdir (2); the metadata is written to a
\* temp file (3) and moved into multipart/O (6); on either failure the
\* upload dir (4-5, 7-8) and the metadata file (9) are removed again.
CreateUpload(s, u, F) ==
    LET s1 == [s EXCEPT ![HDir] = 1]
        s2 == [s1 EXCEPT ![Up(u)] = 1]
        r6 == Put(s2, Meta(u), 1, 6, F)
        u7 == RemoveUpDir(s2, u, 7, F).s
    IN  CASE s[BDir] = 0    -> R(s, "nobucket")
          [] 1 \in F        -> R(s, "eio")
          [] s[Up(u)] = 1   -> R(s1, "exists")
          [] 2 \in F        -> R(s1, "eio")
          [] 3 \in F        -> R(RemoveUpDir(s2, u, 4, F).s, "eio")
          [] r6.err # "nil" -> R(RemovePath(u7, Meta(u), 9, F).s, "eio")
          [] OTHER          -> r6

\* create-upload.go:56-70: remove the upload dir and the metadata file.
RevertCreateUpload(s, u, F) ==
    LET r1 == RemoveUpDir(s, u, 1, F)
        r3 == RemovePath(r1.s, Meta(u), 3, F)
    IN  R(r3.s, Merge(r1.err, r3.err))

\* upload-part.go:17-69: write the part and its datainfo to temp files
\* (1, 2); move an existing part (3) and datainfo (4) to trash, where a
\* failed datainfo move renames the trash datainfo back (5); move the temp
\* part in (6) and the temp datainfo in (9), undoing on failure (7-8,
\* 10-12).
UploadPart(s, u, n, F) ==
    LET r3 == Rename(s, Part(u), TPart(u), 3, F)
        r4 == Rename(r3.s, DInfo(u), TDInfo(u), 4, F)
        r5 == Rename(r4.s, TDInfo(u), DInfo(u), 5, F)
        \* the tree once the old part is in trash
        t  == CASE r3.err # "nil" -> r3.s
                [] r4.err # "nil" -> r5.s
                [] OTHER          -> r4.s
        r6 == Put(t, Part(u), n, 6, F)
        r9 == Put(r6.s, DInfo(u), n, 9, F)
        Undo(x, i) == LET a == Rename(x, TPart(u), Part(u), i, F)
                      IN  Rename(a.s, TDInfo(u), DInfo(u), i + 1, F).s
    IN  CASE s[BDir] = 0                         -> R(s, "nobucket")
          [] s[Up(u)] = 0                        -> R(s, "notfound")
          [] 1 \in F \/ 2 \in F                  -> R(s, "eio")
          [] r3.err \notin {"nil", "enoent"}     -> r3
          [] r3.err = "nil" /\ r4.err \notin {"nil", "enoent"} -> R(r5.s, r4.err)
          [] r6.err # "nil"                      -> R(Undo(t, 7), "eio")
          [] r9.err # "nil"                      -> R(Undo(Remove(r6.s, Part(u), 10, F).s, 11), "eio")
          [] OTHER                               -> r9

\* Mutant: the revert moves the trashed part back but not its datainfo.
RevertUploadPartPartOnly(s, u, F) ==
    LET s2 == Remove(Remove(s, Part(u), 1, F).s, DInfo(u), 2, F).s
        r3 == Rename(s2, TPart(u), Part(u), 3, F)
    IN  IF s2[TPart(u)] = 0 THEN R(s2, "nil") ELSE R(r3.s, r3.err)

\* upload-part.go:71-92: remove the part and datainfo (1, 2, errors
\* ignored); if a trashed part exists, move both back (3, 4).
RevertUploadPart(s, u, F) ==
    LET s2 == Remove(Remove(s, Part(u), 1, F).s, DInfo(u), 2, F).s
        r3 == Rename(s2, TPart(u), Part(u), 3, F)
        r4 == Rename(r3.s, TDInfo(u), DInfo(u), 4, F)
    IN  IF s2[TPart(u)] = 0 THEN R(s2, "nil")
        ELSE R(r4.s, Merge(r3.err, r4.err))

\* Mutant: a failed metadata move returns without moving the dir back.
AbortUploadNoDirRestore(s, u, F) ==
    LET r1 == Rename(s, Up(u), TUp(u), 1, F)
        r2 == Rename(r1.s, Meta(u), TMeta(u), 2, F)
        r5 == Rename(r2.s, TMeta(u), Meta(u), 5, F)
    IN  CASE s[BDir] = 0      -> R(s, "nobucket")
          [] s[Up(u)] = 0     -> R(s, "notfound")
          [] r1.err # "nil"   -> r1
          [] r2.err # "nil"   -> r2
          [] 4 \in F          -> R(Rename(r5.s, TUp(u), Up(u), 6, F).s, "eio")
          [] OTHER            -> r2

\* abort-upload.go:14-56: move the upload dir (1) and the metadata file
\* (2) to trash, then remove multipart/O if it is empty (4).  On a failed
\* metadata move the dir comes back (3); on a failed removal (the dir is
\* then still there, so CreatePath at line 47 has nothing to do) both
\* come back (5, 6).
AbortUpload(s, u, F) ==
    LET r1 == Rename(s, Up(u), TUp(u), 1, F)
        r2 == Rename(r1.s, Meta(u), TMeta(u), 2, F)
        r5 == Rename(r2.s, TMeta(u), Meta(u), 5, F)
    IN  CASE s[BDir] = 0      -> R(s, "nobucket")
          [] s[Up(u)] = 0     -> R(s, "notfound")
          [] r1.err # "nil"   -> r1
          [] r2.err # "nil"   -> R(Rename(r2.s, TUp(u), Up(u), 3, F).s, r2.err)
          [] 4 \in F          -> R(Rename(r5.s, TUp(u), Up(u), 6, F).s, "eio")
          [] OTHER            -> r2

\* Mutant: only the upload dir comes back from trash.
RevertAbortUploadDirOnly(s, u, F) == Rename(s, TUp(u), Up(u), 1, F)

\* abort-upload.go:58-76: the upload dir (1), then the metadata file (2)
\* back from trash.
RevertAbortUpload(s, u, F) ==
    LET r1 == Rename(s, TUp(u), Up(u), 1, F)
    IN  IF r1.err # "nil" THEN r1 ELSE Rename(r1.s, TMeta(u), Meta(u), 2, F)

\* complete-upload.go:18-98 for the version named after upload u: write
\* three temp files (1-3), move the version file (4) and its datainfo (5)
\* into objects/O; when the version becomes the default, move the old
\* default to trash (7) and the new one in (10); then AbortUpload (its
\* syscalls numbered from 14).  Each failure removes what was added
\* before it (6, 8-9, 11-13, 20-23).  Returns whether there was no
\* default before.
CompleteUpload(s, u, isDefault, F) ==
    LET defaultExists == s[Dflt] # 0
        r4 == Put(s, Ver(u), 1, 4, F)
        r5 == Put(r4.s, VInfo(u), 1, 5, F)
        r7 == Rename(r5.s, Dflt, TDflt(u), 7, F)
        r10 == Put(r7.s, Dflt, u, 10, F)
        t  == IF isDefault \/ ~defaultExists THEN r10.s ELSE r5.s
        ra == AbortUpload(t, u, {i - 13 : i \in F})
        Drop(x, i) == RemovePath(RemovePath(x, Ver(u), i, F).s, VInfo(u), i + 1, F).s
        \* lines 86-90
        a  == IF isDefault THEN Rename(ra.s, TDflt(u), Dflt, 20, F).s
              ELSE IF ~defaultExists THEN RemovePath(ra.s, Dflt, 21, F).s
              ELSE ra.s
    IN  CASE s[BDir] = 0                          -> R(s, "nobucket")
          [] s[Up(u)] = 0                         -> R(s, "notfound")
          [] 1 \in F \/ 2 \in F \/ 3 \in F        -> R(s, "eio")
          [] r4.err # "nil"                       -> r4
          [] r5.err # "nil"                       -> R(RemovePath(r4.s, Ver(u), 6, F).s, "eio")
          [] (isDefault \/ ~defaultExists) /\ r7.err \notin {"nil", "enoent"}
                                                  -> R(Drop(r7.s, 8), r7.err)
          [] (isDefault \/ ~defaultExists) /\ r10.err # "nil"
                -> R(Drop(IF ~defaultExists THEN RemovePath(r7.s, Dflt, 11, F).s ELSE r7.s, 12),
                     "eio")
          [] ra.err # "nil"                       -> R(Drop(a, 22), ra.err)
          [] OTHER                                -> R(ra.s, "nil")

\* complete-upload.go:100-126: RevertAbortUpload (1-2); for a default
\* version, the old default back from trash (3) or, if there is none, the
\* default removed (4); then the version file and datainfo removed (5, 6).
RevertCompleteUpload(s, u, isDefault, F) ==
    LET r1 == RevertAbortUpload(s, u, F)
        r3 == Rename(r1.s, TDflt(u), Dflt, 3, F)
        r4 == IF r3.err = "enoent" THEN RemovePath(r3.s, Dflt, 4, F) ELSE r3
        r2 == IF isDefault THEN r4 ELSE R(r1.s, "nil")
        r5 == RemovePath(r2.s, Ver(u), 5, F)
        r6 == RemovePath(r5.s, VInfo(u), 6, F)
    IN  R(r6.s, Merge(r1.err, Merge(r2.err, Merge(r5.err, r6.err))))

-----------------------------------------------------------------------------
(* The bucket calls of bucket.go.  Renaming the bucket directory moves     *)
(* every name under it.                                                    *)

\* The bucket directory and all its names dropped (renamed to a fresh
\* trash name that nothing reads), or moved to trash/B and back.
DropBucket(s) == [q \in Paths |-> IF q \in InBucket \cup {BDir} THEN 0 ELSE s[q]]
TrashBucket(s) ==
    [q \in Paths |-> CASE q \in InBucket \cup {BDir} -> 0
                       [] q \in TBPaths             -> s[LiveOf[q]]
                       [] q = TBDir                 -> 1
                       [] OTHER                     -> s[q]]
UntrashBucket(s) ==
    [q \in Paths |-> CASE q \in TBPaths \cup {TBDir} -> 0
                       [] q \in InBucket             -> s[TBOf[q]]
                       [] q = BDir                   -> 1
                       [] OTHER                      -> s[q]]

\* bucket.go:52-93: the bucket is built in a temp dir (mkdir 1-4, the
\* metadata file m (5) when there is one, bucket.json 6; a failure leaves
\* the temp dir behind) and renamed into place (7); an existing bucket
\* makes the rename fail (ErrBucketAlreadyExist).
CreateBucket(s, m, F) ==
    CASE \E i \in F : i \in {1, 2, 3, 4, 6} \/ (i = 5 /\ m # 0) -> R(s, "eio")
      [] s[BDir] = 1 -> R(s, "exists")
      [] 7 \in F     -> R(s, "eio")
      [] OTHER       -> R([s EXCEPT ![BDir] = 1, ![BMeta] = m], "nil")

\* bucket.go:95-99: the bucket renamed to a fresh trash name (1).
RevertCreateBucket(s, F) ==
    CASE s[BDir] = 0 -> R(s, "enoent")
      [] 1 \in F     -> R(s, "eio")
      [] OTHER       -> R(DropBucket(s), "nil")

\* bucket.go:144-197: ErrBucketNotFound without a bucket, ErrBucketNotEmpty
\* while objects/ or multipart/ holds a name (uploadids/ is not looked at);
\* then the bucket renamed to trash/B (1), which fails with ENOTEMPTY
\* while an earlier deleted bucket is still there.
DeleteBucket(s, F) ==
    CASE s[BDir] = 0 -> R(s, "notfound")
      [] \E u \in Uploads : s[Ver(u)] # 0 \/ s[VInfo(u)] # 0 \/ s[Meta(u)] # 0
                     -> R(s, "notempty")
      [] s[Dflt] # 0 -> R(s, "notempty")
      [] s[TBDir] = 1 -> R(s, "enotempty")
      [] 1 \in F     -> R(s, "eio")
      [] OTHER       -> R(TrashBucket(s), "nil")

\* bucket.go:199-203: trash/B renamed back (1).
RevertDeleteBucket(s, F) ==
    CASE s[TBDir] = 0 -> R(s, "enoent")
      [] s[BDir] = 1  -> R(s, "enotempty")
      [] 1 \in F      -> R(s, "eio")
      [] OTHER        -> R(UntrashBucket(s), "nil")

\* bucket.go:209-221: a temp file (1) renamed onto the metadata file (2);
\* without the bucket the rename fails (ErrBucketNotFound).
SetBucketMetaData(s, v, F) ==
    CASE 1 \in F          -> R(s, "eio")
      [] s[BDir] = 0      -> R(s, "notfound")
      [] 2 \in F          -> R(s, "eio")
      [] OTHER            -> R([s EXCEPT ![BMeta] = v], "nil")

\* bucket.go:223-227: the metadata file renamed to a fresh trash name (1).
RevertSetBucketMetaData(s, F) ==
    CASE s[BMeta] = 0 -> R(s, "enoent")
      [] 1 \in F      -> R(s, "eio")
      [] OTHER        -> R([s EXCEPT ![BMeta] = 0], "nil")

\* bucket.go:240-250: the metadata file renamed to trash/B.M (1), which
\* replaces what an earlier deletion left there.
DeleteBucketMetaData(s, F) ==
    LET r == Rename(s, BMeta, TBMeta, 1, F)
    IN  IF r.err = "enoent" THEN R(s, "notfound") ELSE r

\* bucket.go:252-256: trash/B.M renamed back (1).
RevertDeleteBucketMetaData(s, F) == Rename(s, TBMeta, BMeta, 1, F)

-----------------------------------------------------------------------------
(* The caller.                                                             *)

\* The syscall numbers of the longest call, and the fault sets of a call.
NSyscalls == 23
FaultSets == {F \in SUBSET (1..NSyscalls) : Cardinality(F) <= MaxFaults}
Syscalls == [create |-> 9, revertCreate |-> 3, part |-> 12, revertPart |-> 4, abort |-> 6,
             revertAbort |-> 2, complete |-> 23, revertComplete |-> 6,
             createBucket |-> 7, revertCreateBucket |-> 1, deleteBucket |-> 1,
             revertDeleteBucket |-> 1, setMeta |-> 2, revertSetMeta |-> 1,
             deleteMeta |-> 1, revertDeleteMeta |-> 1]

\* Upload ids are random 128-bit ids (NewUploadID), so CreateUpload is only
\* ever called with an id that names nothing on disk.
Fresh(u) == /\ \A k \in PerUpload : fs[<<k, u>>] = 0
            /\ \A p \in InBucket : p[2] = u => fs[TBOf[p]] = 0

\* What a call of u (an upload, or 0 for the bucket calls) can change that
\* a reader sees.
Names(s, u) == IF u = 0 THEN <<s[BDir], s[BMeta]>> ELSE VisibleOf(s, u)

NoCall == [op |-> "none", dflt |-> FALSE, before |-> [k \in VisibleKinds |-> 0], drops |-> 0]

Init ==
    /\ fs = [p \in Paths |-> IF p = BDir THEN 1 ELSE 0]
    /\ ret = [op |-> "none", u |-> 0, err |-> "nil"]
    /\ writes = 0
    /\ faults = 0
    /\ calls = 0
    /\ last = [u \in Uploads \cup {0} |-> NoCall]
    /\ drops = 0

\* One call of the caller: its result, and the faults it used.
Call(op, u, r, F) ==
    /\ calls < MaxCalls
    /\ F \subseteq 1..Syscalls[op]
    /\ faults + Cardinality(F) <= MaxFaults
    /\ fs' = r.s
    /\ ret' = [op |-> op, u |-> u, err |-> r.err]
    /\ faults' = faults + Cardinality(F)
    /\ calls' = calls + 1
    /\ drops' = IF op \in {"revertCreateBucket", "deleteBucket"} /\ r.err = "nil"
                THEN drops + 1 ELSE drops

\* A forward call; when it succeeds the caller may later revert it, with
\* the isDefault that the completion actually had (isDefault, or no
\* default existed: CompleteUpload's result).
Forward(op, u, r, F, d) ==
    /\ Call(op, u, r, F)
    /\ last' = [last EXCEPT ![u] = IF r.err = "nil"
                                   THEN [op |-> op, dflt |-> d, before |-> Names(fs, u), drops |-> drops']
                                   ELSE NoCall]

\* The paired revert of u's last successful call, made once.
Revert(op, fwd, u, r, F) ==
    /\ last[u].op = fwd
    /\ Call(op, u, r, F)
    /\ last' = [last EXCEPT ![u] = NoCall]

\* The bucket calls, for a metadata file content in {1, 2}.
BucketStep(F) ==
    /\ UNCHANGED writes
    /\ \/ \E m \in {0, 1} : Forward("createBucket", 0, CreateBucket(fs, m, F), F, FALSE)
       \/ Revert("revertCreateBucket", "createBucket", 0, RevertCreateBucket(fs, F), F)
       \/ Forward("deleteBucket", 0, DeleteBucket(fs, F), F, FALSE)
       \/ Revert("revertDeleteBucket", "deleteBucket", 0, RevertDeleteBucket(fs, F), F)
       \/ \E v \in {1, 2} : Forward("setMeta", 0, SetBucketMetaData(fs, v, F), F, FALSE)
       \/ Revert("revertSetMeta", "setMeta", 0, RevertSetBucketMetaData(fs, F), F)
       \/ Forward("deleteMeta", 0, DeleteBucketMetaData(fs, F), F, FALSE)
       \/ Revert("revertDeleteMeta", "deleteMeta", 0, RevertDeleteBucketMetaData(fs, F), F)

\* The upload calls on upload u.
UploadStep(u, F) ==
        \/ Fresh(u) /\ Forward("create", u, CreateUpload(fs, u, F), F, FALSE) /\ UNCHANGED writes
        \/ Revert("revertCreate", "create", u, RevertCreateUpload(fs, u, F), F) /\ UNCHANGED writes
        \/ /\ writes < MaxWrites
           /\ Forward("part", u, UploadPart(fs, u, writes + 1, F), F, FALSE)
           /\ writes' = writes + 1
        \/ Revert("revertPart", "part", u, RevertUploadPart(fs, u, F), F) /\ UNCHANGED writes
        \/ Forward("abort", u, AbortUpload(fs, u, F), F, FALSE) /\ UNCHANGED writes
        \/ Revert("revertAbort", "abort", u, RevertAbortUpload(fs, u, F), F) /\ UNCHANGED writes
        \/ \E d \in BOOLEAN :
              /\ Forward("complete", u, CompleteUpload(fs, u, d, F), F, d \/ fs[Dflt] = 0)
              /\ UNCHANGED writes
        \/ /\ Revert("revertComplete", "complete", u,
                     RevertCompleteUpload(fs, u, last[u].dflt, F), F)
           /\ UNCHANGED writes

Next == \E F \in FaultSets : BucketStep(F) \/ \E u \in Uploads : UploadStep(u, F)

Spec == Init /\ [][Next]_vars

-----------------------------------------------------------------------------
(* Properties.                                                             *)

\* A part file and its datainfo always come from the same UploadPart, live,
\* in trash or inside a trashed upload or bucket, in histories without I/O
\* errors: UploadPart trashes and replaces the pair, RevertUploadPart puts
\* the trashed pair back, and AbortUpload, CompleteUpload and the bucket
\* calls move them together, in any order of calls on two uploads.
PartsPaired ==
    faults = 0 =>
        \A u \in Uploads :
            /\ fs[Part(u)] = fs[DInfo(u)]
            /\ fs[TPart(u)] = fs[TDInfo(u)]
            /\ fs[TUPart(u)] = fs[TUDInfo(u)]
            /\ fs[TBOf[Part(u)]] = fs[TBOf[DInfo(u)]]

\* CreateUpload, AbortUpload and the bucket calls are failure-atomic: when
\* one returns an error (an I/O error in one of its syscalls, or a state
\* error), its undo path (create-upload.go:38-50, abort-upload.go:34-44)
\* or its single final rename has left every name a reader of the
\* namespace can see as it was, of every upload, the default and the bucket.
FailedCallChangesNothing ==
    [][ret'.op \in {"create", "abort", "createBucket", "deleteBucket", "setMeta", "deleteMeta"}
       /\ ret'.err # "nil"
          => Visible(fs') = Visible(fs)]_vars

\* In a history without I/O errors, the paired revert of an upload's last
\* successful call (RevertCreateUpload, RevertUploadPart, RevertAbortUpload,
\* RevertCompleteUpload) or of the last bucket call (RevertCreateBucket,
\* RevertDeleteBucket, RevertDeleteBucketMetaData), made after any calls on
\* other uploads, that returns nil gives back exactly the names it had
\* before the call, unless the bucket was renamed away in between (a bucket
\* call moves every name of the upload with it).
RevertUndoes ==
    [][ret'.op \in {"revertCreate", "revertPart", "revertAbort", "revertComplete",
                    "revertCreateBucket", "revertDeleteBucket", "revertDeleteMeta"}
       /\ faults' = 0 /\ ret'.err = "nil" /\ drops = last[ret'.u].drops
          => Names(fs', ret'.u) = last[ret'.u].before]_vars
=============================================================================
