# TLA+ models of goat

These modules model the data path of goat, an S3-compatible object store. The
source is under `src/`. These parts are modelled:

- the block-boundary arithmetic;
- the bitrot-protected file reader;
- the erasure-coded encoder and decode reader;
- the dataspace erasure group over its disks: `SaveTempFile` with its pipes
  and per-disk writers, and the upload lifecycle as quorum fan-outs with
  reverts;
- the timed read/write mutex and the named mutex built on it;
- the namespace layer's multipart-upload lifecycle on one disk
  (`CreateUpload`, `UploadPart`, `AbortUpload`, `CompleteUpload`), the
  bucket calls (`CreateBucket`, `DeleteBucket`, `SetBucketMetaData`,
  `DeleteBucketMetaData`) and all their reverts, syscall by syscall.

Each is checked with TLC over small but complete input sets. `PROJECT.json`
lists every component, every run, the mutants, the map from definitions to
source lines, the findings and the hazards.

## The system and how its parts interact

A `PUT` goes through two layers before reaching the disks:

1. **The namespace layer** (`src/datasys/namespace`) names objects.
2. **The dataspace layer** (`src/datasys/dataspace`) stores their bytes. Its
   erasure group (`dataspace/erasure/erasure.go`) runs `SaveTempFile`. That
   function splits the stream with `erasure.Write` (`pkg/erasure/encode.go`)
   into N data shards and M parity shards per block.
3. **The disks.** Each shard goes through an `io.Pipe` to one disk's
   `SaveTempFile`. That call writes a file with a `.checksum` sidecar holding
   one digest per block (`pkg/os/file.go`, `checksum-file.go`).

A `GET` goes the other way:

1. **The data reader.** The erasure data reader
   (`dataspace/erasure/data-reader.go`) walks the object's parts with
   `boundary.CalcPartBoundaries`. It asks each part for its own (offset,
   length).
2. **The decode reader.** For each part, `erasure.NewReader`
   (`pkg/erasure/decode.go`) works out the stripe geometry with `Info.Compute`.
   It then opens shard readers lazily, one goroutine per shard (`populate`,
   `readShards`). If shards are missing it reconstructs the block with
   Reed–Solomon, and it trims the first and last block.
3. **The shard readers.** Each one is an `OpenFile` of a bitrot-protected shard
   file. It uses `boundary.CalcBoundaries` to find the blocks, and a
   `checksummedReader` that verifies every block against its digest.

Locking (`pkg/sync/name-mutex.go` and `locksys/`) serialises operations on a
name. Each lock server runs a `NameMutex` (a map from names to counted
`RWMutex` objects) behind an RPC receiver (`name-lock-server.go`). A caller takes a `lockerList` from
`LockSys.GetLocker` and locks the name on every server at once. It succeeds
on a read or write quorum of them.

## Modules

| Module | Models | State and actions |
|---|---|---|
| `Boundary` | `boundary.go` (`CalcBoundaries`, `CalcPartBoundaries`) and `info.go` (`Compute`) | Pure operators returning records named after the Go results. `PartWalk` is the loop of `CalcPartBoundaries`, written as a RECURSIVE operator. |
| `MCBoundary` | Consumers of that arithmetic: `OpenFile` + `checksummedReader` (`ChecksummedRead`, `CsBlocks`) and the data reader's part walk (`PartRequests`, `ReadParts`) | One variable `input` ranges over every valid input. An invariant then holds for all of them. |
| `ErasureDecode` | `decode.go` (`NewReader`, `readBlock`, `populate`, `readShards`, `Read`) together with the layout `encode.go` writes (`FileShard`, `ShardFile`) | See below. |
| `MCErasureDecode` | Window sets for the decode runs | — |
| `ErasureEncode` | `encode.go` (`Write`, `readDataShards`, `writeShards`) | The reader position, the block index, the live writers and the bytes each writer accepted. `GetWriters` models writer acquisition. `Block` is one whole iteration of the block loop (shrink, read, encode, write, and the count of live writers); which writers fail in it is a nondeterministic choice. |
| `ErasureGroup` | `erasure.go` (the group calls) over `disk.go` (every mutating disk operation and its revert) and `file.go` (`WriteFile`, `RemoveFile`, `RenameFile`), with the encoder's block loop of `encode.go` | See below. |
| `NamespaceUploads` | `namespace/disk` `create-upload.go`, `upload-part.go`, `abort-upload.go`, `complete-upload.go`, `bucket.go` over `pkg/os/os.go` (`CreatePath`, `RemovePath`) | See below. |
| `NameLock` | Abstract specification: read/write locks on names, with atomic acquisition | `holding[n][p]`. Actions `Acquire` and `Release`. |
| `RWMutex` | `pkg/sync/rwmutex.go` | `state` as in Go. Each `setLock`/`unlock` (under `mu.mutex`) is one step. The polling loop of `lock()` is one step to take the lock or one step to give up after a failed `setLock` (timeout, or cancellation once `ctx` is done). |
| `LockerList` | `locksys/locker.go` (`Lock`, `RLock`, `Unlock`, `RUnlock`, `getErrCount`), `locksys.go` (`GetLocker`), the RPC client and receiver (`remote-name-locker.go`, `name-lock-server.go`), and on every server the `NameMutex` of `pkg/sync/name-mutex.go`, whose objects use `RWMutex` | See below. |

### How ErasureDecode corresponds to decode.go

**State.** Variables keep the reader's field names: `index`, `shardIndex`,
`byteIndex`, `bytesAvailable`, `blockOffset`, `blockLength`, `readersLen`, and
so on.

**Shard slots.** A shard slot is a Go slice. It is modelled by two variables:

- `buf[i]`, the backing array, with capacity ShardSize;
- `blen[i]`, the slice's length.

This way reslicing within capacity, and the in-place `copy` of the skip, behave
exactly as in Go.

**Shard readers.** A reader is modelled as `rd[i]`: its position and end in
the shard file. A failed reader, or one never opened, is `NoReader`.

**Bytes.** A byte is its position in the object. Parity bytes, zero padding
(`Zero`) and garbage from an inconsistent reconstruction (`Garbage`) are
negative. This makes the check of a correct read simple: the output must be
`offset, offset+1, …`.

**Actions.** Each action is one whole step of the code:

| Action | Code |
|---|---|
| `ReadBlockStart` | The head of `readBlock`: eof check, slice restore and shrink, the choice between `populate` and `readShards` |
| `Populate` | One `populate` round, with its goroutines |
| `ReadShards` | One `readShards` round, and the loop's bookkeeping of `successCount`, `from` and `count` |
| `Post` | The rest of `readBlock`: `blockOffset`, `ReconstructData`, the skip loop, the last-block cut, `bytesAvailable` |
| `Copy` | One `Read` call's copy loop |
| `Fail(i)` | Disk i fails: its file can no longer be opened, and an open reader errors |

**Goroutine rounds are atomic.** A round of goroutines is one atomic action,
with `Fail` steps allowed between rounds. Each goroutine writes only its own
slot, and the counters are read after `wg.Wait()`. Interleaving the goroutines
inside a round therefore gives the same states.

**`Reconstruct`.** This is the contract of klauspost `ReconstructData`:

- shards that are present must have equal length, or the call fails with
  `ErrShardSize`;
- if all data shards are present, the call returns at once;
- with fewer than N shards present, it fails with `ErrTooFewShards`;
- otherwise it solves from the first N shards present.

The solution is correct only if those N shards hold the same block. When they
do not, the model writes `Garbage`.

### How ErasureGroup corresponds to erasure.go and disk.go

**State.** `disk[d]` is one disk's tree for one temp name T, upload ID U,
part P and data ID D. Its containers are `tmp` (the temp dir), `up`
(`uploads/U`), `trash` (`trash/U`) and `data` (`data/D`). Each holds
whether it exists, the shard file, its `.checksum` sidecar and `data.json`,
each `Absent`, `Partial` or `Full`. `pc` and `ret` are the single caller's
current call and last result; `faults` counts the I/O errors so far.

**Disk operations** are operators, one per `Disk` method, written syscall by
syscall: `fault` names the syscall that fails (0 for none), and the effect of
the syscalls before it stays. `RenameFile` renames the sidecar, then the data
file; `RemoveFile` tries both removes; renames of directories fail on a
missing source or a non-empty target, as `os.Rename` does.

**Group calls.** `FanOut` is the shape shared by `InitUpload`, `UploadPart`,
`AbortUpload` and `CompleteUpload` of `erasure.go`: the call runs on every
disk (one goroutine each, joined by `wg.Wait`, so one atomic step), succeeds
when at least `minSuccess` disks did, and otherwise runs the revert on the
disks whose call *failed*, as lines 173, 211, 253 and 305 do.

**SaveTempFile** is modelled step by step, because its goroutines block on
each other: `SaveTempFile` starts the disk writers, `EncodeBlock` is one
block of `erasure.Write` (its pipe `Write`s block until each disk reader has
taken the block, `inPipe[d]`), `WriteFileOpen`/`WriteFileRead`/`WriteFileEOF`
are the steps of one disk's `WriteFile`, `ClosePipes` closes the pipe
writers after `Write` returns, and `SaveJoin` is `wg.Wait`, the checksum
comparison and the removal of the bad disks' temp files.

### How NamespaceUploads corresponds to namespace/disk

**State.** `fs[p]` is the content of each path the upload calls touch, 0
when it does not exist: for upload u, `uploadids/H/U` (a directory holding
`P.part` and `P.datainfo`), `multipart/O/U.objectID`, the version files
`objects/O/V` and `V.datainfo` (the version is named after its upload), and
their trash names; `objects/O/objectID` is the default file, holding the
version it names; `uploadids/H` is the shared per-object directory. `ret`
is the last call's result; `last[u]` is u's last successful forward call
and the visible names of u before it (key 0 is the bucket, whose names are
`buckets/B` and one metadata file `buckets/B/M`). `trash/B` is the fixed
name `DeleteBucket` moves the bucket to, and every bucket path has its
image under it (`TBOf`); `RevertCreateBucket` moves the bucket to a fresh
trash name, which the model drops (`DropBucket`). `drops` counts those two
renames, a history variable only the properties read.

**Syscalls.** `Rename` and `Remove` are `os.Rename`/`os.Remove`: ENOENT,
ENOTEMPTY and a missing target directory follow from the tree; a number in
the fault set F makes that syscall fail with EIO. `Put` is a temp file
renamed into place (`CreatePath` with a temp file), `RemovePath` and
`RemoveUpDir` are `xos.RemovePath`, whose walk up stops at a non-empty
directory.

**Calls.** One operator per method, with the syscalls numbered in the order
the code makes them, every error path and every undo step included. The
caller (`Next`) makes any call on any upload; `create` uses a fresh ID (IDs
come from `NewUploadID`, 128 random bits); a revert is made once, for u's
last successful call, with the `isDefault` the completion actually had
(`isDefault` or no earlier default, `CompleteUpload`'s result). The upload
calls start with the bucket-exists check (`ErrBucketNotFound`), and
`CreateBucket` builds the bucket in `tmp/` and publishes it with one
rename. There is no
caller of this layer in `src/`, so the order of calls is left free.

### How LockerList corresponds to locksys

**State, server side.** Each server holds the `NameMutex` that
`nameLockerRPCReceiver` wraps. `nmap[s]` is its `lockMap` entry for the
name: the number of a `nameMutex` object, or `NoObj`. `ost[s][o]` is that
object's `RWMutex` state, and `cnt[s][o]` is its `counter`. `hd[g]` is the
phase of handler goroutine `g` (`none`, `waiting` on the object's lock, or
`acquired`), with the object it holds a pointer to. An object that neither
the map nor any handler refers to is garbage: `Collect` resets it to the zero
value, and `Entry` reuses the lowest such number for `new(nameMutex)`.

**State, caller side.** `pc[c]` is where caller `c` is: idle, in a lock or
unlock call, or back from its Lock with the lock `held` or `failed`.
`lockers[c]` holds the entries of c's `lockerList.lockers` that are not nil.
`pending[c]` holds the goroutines of the current call that have not
finished. `oks[c]` holds the servers whose call returned nil. `late[i]` is
the request of the i-th failed RPC, if it still reaches its server.

**Actions.**
- `Lock` and `RLock` are `GetLocker` followed by the fan-out. `Unlock` and
  `RUnlock` fan out to the lockers that are not nil.
- A handler's `lock()` takes the steps of `name-mutex.go`, each one a
  section under `locker.Mutex` or one `setLock`. `LockEnter` looks up or
  creates the entry. `Acquired` is a `setLock` that succeeds, using
  `RWMutex`'s `CanSetLock` and `SetLock` through `INSTANCE`. `TimedOut`
  gives up, and deletes the entry when the object's counter is not
  positive. `LockExit` increments the counter and puts the object back in
  the map. `ServerUnlock` is `Unlock`/`RUnlock`: it releases whatever object
  the map holds and drops the entry when its counter reaches zero.
- `TimedOut`, `LockExit` and `ServerUnlock` return to the caller's goroutine
  (`Done`). On an error the goroutine sets the locker to nil.
- `RPCError` is a call that fails before its handler starts. Its request
  is lost, or runs later in a handler of its own (`Late`) that answers
  nobody.
- `Return` is `wg.Wait` followed by the `getErrCount` quorum test.

**Caller and transport.** There is no caller of `locksys` in `src/`. The
model's caller releases after every Lock, whether it succeeded or failed.
The RPC client type is not in `src/` either. Its calls are modelled as
at-most-once: a failed call's request is lost, or it arrives later.

## Runs

| Run | Expect | What it shows |
|---|---|---|
| `boundary` | pass | `CalcBoundaries` yields exactly every window of every file of at most 9 bytes, with blocks of 1–4 bytes (880 inputs). The part walk returns every window that does not start at the end of an object of at most 3 parts of 0–3 bytes (1380 inputs). A bitrot-protected read returns every window except those starting after the first byte of the short final block of a multi-block file (`InShortLastBlock`); those, and only those, fail with `ErrUnexpectedEOF`, because the early return of `CalcBoundaries` (boundary.go:23-27) reports `lastBlockSize` = the block size. |
| `decode_tolerant` | pass | N=2, M=2, two blocks with a one-byte last block, up to two disks lost before the read: every window (except those the skip bug breaks) is read correctly, using parity and reconstruction, and the read reaches EOF. |
| `decode_skip` | violation | A window inside one block that starts after the block's first byte returns a stale byte. |
| `decode_retry` | violation | Two failed reads (M=2) make `successCount` count earlier successes twice, and the data is reconstructed from a buffer that was never read. |
| `rwmutex` | pass | Three goroutines on one RWMutex with a context, including timeouts and cancellation: the mutex refines `NameLock`, and `state` always counts its holders. |
| `encode_last_block` | violation | With N=2, a 1-byte object (or any object whose last block fits in its first data shard) is not written. `io.ReadFull` of the untouched shard returns `io.EOF`, which `readDataShards` treats as an error. The trace also loses one writer at `GetWriters`, within the M the write tolerates, so the failure comes from `io.EOF` alone. |
| `lockers_relock` | violation | No RPC errors, two callers, two servers with write quorum 2. c1 write-locks both servers, but on s2 it has taken the object's mutex and not yet incremented `counter`. c2's Lock on s2 times out and deletes the entry (name-mutex.go:47). c2's RLock creates a second object, c1's `LockExit` puts the first one back, and both callers hold the name: the lockerList does not implement `NameLock`. |
| `group` | pass | Three disks, minSuccess 2, any order of up to five group calls with two I/O faults: a call that returns nil has done its work on minSuccess disks (`OkMeansQuorum`), and `SaveTempFile` returns unless a disk stopped reading its pipe early (`SaveReturnsUnlessStranded`). |
| `save_hang` | violation | One failed `OpenFile` of three disks with minSuccess 2: the encoder blocks forever writing to that disk's pipe, and `SaveTempFile` never returns. |
| `ns_uploads` | pass | One bucket and two uploads of one object, up to six bucket and upload calls and paired reverts in any order, one I/O error at any syscall. Without I/O errors, each upload's `part` and `D.info` files exist together in every directory the calls move them through (`PartsPaired`). A failed `CreateUpload`, `AbortUpload` or bucket call puts every visible name back (`FailedCallChangesNothing`). In a history without I/O errors, a revert that returns nil restores the names its call changed, unless the bucket was renamed away since the call (`RevertUndoes`). |
| `lockers` | pass | Two callers (one Lock call and two) take and release read or write locks through lockerLists, over two servers, each a `NameMutex`, with write quorum 2 and read quorum 1. Locks time out, and one RPC error may lose its request or deliver it late. Every typed field is in range and a caller only counts and unlocks lockers that are not nil (`TypeOK`). No server's `counter` goes below zero (`UnlocksMatchLocks`). Without RPC errors, every server's `lockMap` entry is eventually removed (`LockMapDrained`). |
| `recomplete` | violation | Without any fault, repeating a `CompleteUpload` that succeeded fails on every disk, and the revert then renames `data/D` back to `uploads/U` on all of them. |

The six violations are the findings in `PROJECT.json`. Each one is a code bug
at the line named there.

### Why the passing decode runs use restricted windows and failures

A third decode bug has no run of its own. A disk lost after block 0 is
replaced by a reader opened at `blockOffset`, which `decode.go:139` has
moved backwards to -2. With N=1, M=1 and `FailMidRead = TRUE`, the read
then fails on its first failure, and TLC finds `CompletesRead` violated.
It is a hazard in `PROJECT.json`.

The passing decode runs avoid the windows and failure timings that the
violation runs show to be wrong:

`decode_tolerant` fails disks only before the read starts and leaves out
single-block windows with a skip. Within those limits it checks every window.
It keeps at most M disks down: with more, `populate` indexes past its slots
and panics instead of returning an error, which no run checks.

Every passing property has a mutant that breaks it. Each mutant is a plausible
slip in the code it replaces:

- a strict `<` instead of `<=`;
- advancing by ShardSize instead of by what was read;
- a skip that is never shifted out;
- a part offset that is never trimmed.

**The decode runs and the encoder bug.** `decode_tolerant` reads a part of 5
bytes with N=2, so its last block is 1 byte. `encode_last_block` shows that
`Write` cannot produce that part when the reader holds exactly 5 bytes. The
decode model reads the layout spec 4.4 describes, with zero padding. `Write`
does produce that layout when the reader holds more bytes than `size`, as in
the package tests, except that the padding then holds reader bytes. A correct
read never returns padding, so its content makes no difference.

### The namespace bugs the model shows

`ns_uploads` states only what holds. While modelling, TLC showed four ways
the namespace upload calls leave the store wrong, and three more in the
bucket calls; they are hazards in `PROJECT.json`, with no run of their own:

- **Dangling default after one I/O error** (complete-upload.go:87). A
  default completion of an object with no default, whose final `AbortUpload`
  fails, renames a trashed default that does not exist and leaves the new
  `objectID` naming the version lines 92-93 then remove. Two calls: create,
  complete.
- **Lost part after one I/O error** (upload-part.go:49). When moving the old
  datainfo to trash fails, the code renames the trashed *datainfo* back, not
  the trashed part, and returns: the part stays in trash.
- **Cross-upload revert failure, no fault at all** (create-upload.go:61).
  Create u1, abort u1, create u2, revert create u2: the last step removes the
  empty `uploadids/H`, and revert abort u1 then fails with ENOENT.
- **Reverts out of order** (complete-upload.go:116). Two completions
  reverted in the order they were made: the first removes the current
  default, the second restores one naming a removed version.

- **A revert that discards a value** (bucket.go:226). Set metadata, set
  metadata again, revert: `RevertSetBucketMetaData` moves the file to
  trash instead of restoring the first value, so the bucket has no
  metadata. spec.md (4.5) says `Op; RevertOp` leaves the tree as before.
- **A second delete fails** (bucket.go:190, marked FIXME at 194). Delete
  bucket, create bucket, delete bucket: the last call fails with ENOTEMPTY
  because `trash/<bucket>` is a fixed name that is never cleaned.
- **Reverting a bucket discards its uploads** (bucket.go:98). Delete
  bucket, create bucket, create u1, part u1, revert create bucket: the
  bucket, u1 with it, goes to trash, and revert part u1 then returns nil
  with u1 gone.

`FailedCallChangesNothing` is therefore stated for `CreateUpload` and
`AbortUpload` and the bucket calls only, and `RevertUndoes` for reverts
other than `RevertSetBucketMetaData` that return nil in histories without
I/O errors, with no bucket rename since their call.

## Bounds

The bounds are small, but large enough for every branch to be taken.

**`MCBoundary`.** The block runs enumerate every size 0..9, block size 1..4,
offset and length. This covers all of the following:

- zero-sized files;
- exact multiples of the block size;
- one-block files;
- windows ending on block boundaries.

The part runs enumerate every object of 1–3 parts of 0–3 bytes, so they
include empty parts and windows that cross several parts.

**Decode.**

- ShardSize = 2 is the smallest size at which a skip and a short last shard
  differ from a full shard.
- The sizes give two or three blocks, so a shard file has more than one block
  and a late-opened reader must seek.
- The passing runs use N=1 and N=2. N=2 has real striping; N=1 exercises
  retries with several parity shards.

**ErasureGroup.** Three disks are the smallest group where a quorum of two
differs from all; two blocks per shard let a disk fail between blocks. Five
calls reach every call after every other (a repeated call included), and two
faults let one call fail on one disk while its revert also fails. The hang
and the un-publishing need only one block, one fault and three calls.
The run reaches 431,499 states in about a minute.

**NamespaceUploads.** Two uploads are the fewest for one upload's call to
touch another's names (the shared `uploadids/H`, the default file); two
part writes let a part overwrite an earlier one and move it to trash; six
calls reach create, part, complete over an earlier completion and a
revert, and a bucket revert between an upload call and its revert; the
bucket starts existing, and two metadata values let a set overwrite an
earlier one; one I/O error may hit any of the up to 23 syscalls of a call (two
errors in one call mostly hit the best-effort undo paths, whose errors the
code ignores). 108,300 states, about 80 seconds. `PartsPaired` takes the place of a type
invariant: every action writes `fs` only with 0, 1, a part number or a
version, so a type check would restate the actions.

**Integers.** `uint64` subtraction is modelled modulo `UintWrap` = 2^20. That
is large enough that a wrapped value can never be mistaken for a real one.

**Locks.** Three goroutines are enough for every mix of readers and
writers on the RWMutex.

**LockerList.** The run uses two callers and two servers, with write quorum
2 and read quorum 1. This is the smallest setting in which:
- a write quorum needs every server, so one timeout fails a Lock;
- a Lock can fail with part of the servers taken;
- a server's lock can time out because the other caller holds it, so that
  `TimedOut` can delete an entry whose object another handler holds.

c1 makes one Lock/RLock call and c2 two, so c2 can lock again on a server
whose entry c1's unlock or timeout has just removed or re-inserted. Objects
that nothing refers to are collected, which keeps the numbering of
`nameMutex` objects finite (three per server). One RPC error, lost or
handled late, covers every fault order between two calls. The run reaches
206,701 states in about 85 seconds. `lockers_relock` uses the same bounds
with no RPC errors.

The run also shows what the code does not promise. One Lock request that
is handled after its RPC failed leaves that server's entry in place for good:
its locker is nil, so no Unlock goes there. With the `faults > 0` escape
removed, `LockMapDrained` fails on exactly this trace. With timeout 0
(no deadline, rwmutex.go:57) two callers that hold parts of the servers
would wait for each other for ever. No caller in `src/` passes timeout 0,
so the model's timeout is always positive.

## Fairness

`Spec` has `WF_vars(ReaderStep)`. This assumes that the caller keeps calling
`Read` until it gets EOF or an error, and that every goroutine returns once its
`ReadFull` returns. `Fail` has no fairness, because disks need not fail.

The runs set `CHECK_DEADLOCK FALSE` because the reader really does stop, at EOF
or at an error. `CompletesRead` is the property that says the stop is EOF.

`ErasureGroup` has weak fairness on every step inside `SaveTempFile` (the
encoder, each disk's `WriteFile` goroutine, the close and the join): each is a
goroutine that runs when it can. The caller has none: it need not make
another call. The runs set `CHECK_DEADLOCK FALSE` because the caller's calls
are bounded.

`NamespaceUploads` has no fairness and checks only safety: it models a
caller that need not call again. Its run sets `CHECK_DEADLOCK FALSE` because
the calls are bounded by `MaxCalls`.

`LockerList` has weak fairness on the steps the code runs by itself:
- each step of a handler goroutine (`LockEnter`, `LockExit`,
  `ServerUnlock`): a goroutine that can run does run;
- a waiting `lock()` either takes the object's mutex or gives up
  (`Acquired \/ TimedOut`), because the ticker fires before a positive
  timeout runs out;
- `wg.Wait` returning;
- the caller's release after its Lock.

Starting a call and RPC errors are not forced. The run sets
`CHECK_DEADLOCK FALSE` because the calls are bounded by `MaxCalls`.

`RWMutex` assumes no fairness and checks only safety. The lock loop
polls on a backoff ticker and may time out, so the code does not promise that
a waiter ever gets the lock. `rwmutex` never stops: a goroutine can always call again.

## Not modelled (yet) and plan

These parts are not modelled: hashing, JSON and ACL metadata, the S3 Select
engine (`sql`, `csv`, `json`, `message.go`), RPC plumbing, tickers and ID
generation (of which `NamespaceUploads` keeps only that an upload ID is
fresh). They are pure conversion or I/O, with no state machine that
matters to the properties.

`disk.go`'s reads (`Get`, `data-reader.go`) are covered only through the
decode and boundary models; `NewDisk` only as the layout it creates.

The namespace layer's read side (`uploads.go` `ListUploads`, `ListParts`,
`GetUpload`; `bucket.go` `ListBuckets`, `GetBucket`, `BucketExist`,
`GetBucketMetaData`) and `list-object.go` are not modelled: they read and
format directory listings and change no state. The bucket model has one
bucket and one metadata file name; `bucket.json` and the metadata files
`CreateBucket` writes are folded into that one name.

The next modules, in priority order:

1. **The composed data reader** over `ErasureDecode`, with shard slices reused
   across parts. Slots are allocated with part 0's geometry only.
2. An abstract single-store upload lifecycle that `ErasureGroup` refines once
   its revert bug is set aside.
