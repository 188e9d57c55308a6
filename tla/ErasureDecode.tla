---------------------------- MODULE ErasureDecode ----------------------------
(***************************************************************************)
(* decodeReader (src/pkg/erasure/decode.go): reads the window (offset,     *)
(* length) of a part of Size bytes stored as N data and M parity shards.   *)
(* A byte is abstracted to its identity: a data byte is its position in    *)
(* the part (positions >= Size are the zero padding of the last block), a  *)
(* parity byte a distinct code below Garbage, Zero a byte of a freshly     *)
(* made buffer, Garbage a byte solved from shards of different blocks.     *)
(* A shard slice is its backing array buf[i] (capacity ShardSize) and its  *)
(* length blen[i]: reslicing within capacity shows what the array holds.   *)
(* The goroutines of one populate or readShards round each touch only      *)
(* their own slot, and a disk failure only the slot it hits, so a round    *)
(* is one action and Fail interleaves between rounds.                      *)
(***************************************************************************)
EXTENDS Boundary, Integers, Sequences, SequencesExt, FiniteSets

CONSTANTS
    N, M, ShardSize, Size,  \* info.DataCount, ParityCount, ShardSize, Size
    Windows,      \* the (offset, length) windows NewReader is called with
    MaxDown,      \* most shard disks that fail during one read
    FailMidRead   \* whether a disk may fail once the first shard is opened

ASSUME /\ N \in Nat \ {0} /\ M \in Nat /\ ShardSize \in Nat \ {0}
       /\ Size \in Nat \ {0} /\ MaxDown \in Nat /\ FailMidRead \in BOOLEAN

NS         == N + M                 \* len(dr.readers), len(dr.shards)
Slots      == 0 .. NS - 1
Geo        == Compute(N, Size, ShardSize)
BlockCount == Geo.blockCount
UintWrap   == 2^20   \* stands for 2^64: a wrapped uint64 never counts down to 0
Zero       == -1
Garbage    == -2
NoReader   == [pos |-> -1, end |-> -1]

\* Shard s of block k as Write (encode.go) stored it; the last block's
\* shards are lastShardSize long.
ShardLen(k) == IF k = BlockCount - 1 THEN Geo.lastShardSize ELSE ShardSize
FileShard(s, k) ==
    IF s < N THEN [j \in 1..ShardLen(k) |-> k * Geo.blockSize + s * ShardLen(k) + j - 1]
    ELSE [j \in 1..ShardLen(k) |-> -3 - (((s - N) * BlockCount + k) * ShardSize + j)]
ShardFile(s) == FlattenSeq([k \in 1..BlockCount |-> FileShard(s, k - 1)])
FileLen      == ShardPartSize(N, Size, ShardSize)

VARIABLES
    win,                                  \* the window and NewReader's fixed results
    shardSize, skip, readInLast, blockOffset, blockLength, index,
    shardIndex, byteIndex, bytesAvailable, \* Read's cursor
    readersLen, successCount, count, from, pc,   \* readBlock's loops
    rd,          \* dr.readers: section [pos, end) of the shard file, or NoReader
    ok,          \* dr.errs[i] = nil
    buf, blen,   \* dr.shards
    down,        \* shard disks that have failed
    output,      \* the bytes Read has returned
    status       \* "reading", or how the reader ended

blockVars  == <<shardSize, skip, readInLast, blockOffset, blockLength, index>>
cursorVars == <<shardIndex, byteIndex, bytesAvailable>>
loopVars   == <<readersLen, successCount, count, from, pc>>
slotVars   == <<rd, ok, buf, blen>>
vars == <<win, blockVars, cursorVars, loopVars, slotVars, down, output, status>>

Store(a, seq) == [j \in DOMAIN a |-> IF j <= Len(seq) THEN seq[j] ELSE a[j]]
SlotsFrom(lo, hi) == { j \in Slots : lo <= j /\ j < hi }
Sub64(a, b) == IF a >= b THEN a - b ELSE a - b + UintWrap

\* NewReader (decode.go:213-276) for a window that passed its size check.
NewReader(w) ==
    LET b   == CalcBoundaries(Size, Geo.blockSize, BlockCount, w.offset, w.length)
        lss == IF b.blocksToSkip + b.blocksToRead # BlockCount
               THEN ShardSize ELSE Geo.lastShardSize
    IN  /\ win = [offset |-> w.offset, length |-> w.length,
                  blocksToRead |-> b.blocksToRead, lastShardSize |-> lss]
        /\ blockOffset = b.blocksToSkip * ShardSize
        /\ blockLength = lss + (b.blocksToRead - 1) * ShardSize
        /\ skip = b.bytesToSkipInFirstBlock
        /\ readInLast = b.bytesToReadInLastBlock

Init ==
    /\ \E w \in Windows : NewReader(w)
    /\ shardSize = ShardSize /\ index = 0
    /\ shardIndex = 0 /\ byteIndex = 0 /\ bytesAvailable = 0
    /\ readersLen = 0 /\ successCount = 0 /\ count = 0 /\ from = 0 /\ pc = "idle"
    /\ rd = [i \in Slots |-> NoReader] /\ ok = [i \in Slots |-> FALSE]
    /\ buf = [i \in Slots |-> [j \in 1..ShardSize |-> Zero]]
    /\ blen = [i \in Slots |-> ShardSize]
    /\ down = {} /\ output = <<>> /\ status = "reading"

-----------------------------------------------------------------------------
\* Read (decode.go:191-193) needs a block: readBlock (decode.go:103-124)
\* returns io.EOF after the last one, else restores the slices after a
\* skipped first block, shrinks them for the last, and on the first block
\* opens N shard readers.
ReadBlockStart ==
    /\ status = "reading" /\ pc = "idle" /\ bytesAvailable = 0
    /\ IF index = win.blocksToRead
       THEN status' = "eof" /\ UNCHANGED <<shardSize, blen, loopVars>>
       ELSE LET restored == IF index = 1 /\ skip > 0 THEN [i \in Slots |-> shardSize] ELSE blen
                shrink   == index = win.blocksToRead - 1 /\ shardSize # win.lastShardSize
            IN  /\ shardSize' = IF shrink THEN win.lastShardSize ELSE shardSize
                /\ blen' = IF shrink THEN [i \in Slots |-> win.lastShardSize] ELSE restored
                /\ pc' = IF readersLen = 0 THEN "populate" ELSE "read"
                /\ count' = IF readersLen = 0 THEN N ELSE count
                /\ from' = 0 /\ successCount' = 0
                /\ UNCHANGED <<status, readersLen>>
    /\ UNCHANGED <<win, skip, readInLast, blockOffset, blockLength, index, cursorVars,
                   rd, ok, buf, down, output>>

\* One round of populate (decode.go:39-67): open the next count readers at
\* (blockOffset, blockLength).  Opening fails on a failed disk or outside
\* the shard file (os.OpenFile's "insufficient data").  A slot past
\* len(dr.readers) is an index out of range in the goroutine: a crash.
Opens(j) == j \notin down /\ blockOffset >= 0 /\ blockOffset + blockLength <= FileLen

Populate ==
    /\ status = "reading" /\ pc = "populate"
    /\ IF readersLen = NS \/ readersLen + count > NS
       THEN /\ status' = IF readersLen = NS THEN "error" ELSE "panic"
            /\ UNCHANGED <<rd, ok, readersLen, count, pc>>
       ELSE LET new  == SlotsFrom(readersLen, readersLen + count)
                succ == Cardinality({ j \in new : Opens(j) })
            IN  /\ rd' = [j \in Slots |-> IF j \notin new THEN rd[j]
                            ELSE IF Opens(j) THEN [pos |-> blockOffset, end |-> blockOffset + blockLength]
                            ELSE NoReader]
                /\ ok' = [j \in Slots |-> IF j \in new THEN Opens(j) ELSE ok[j]]
                /\ readersLen' = readersLen + count
                /\ count' = count - succ
                /\ pc' = IF count = succ THEN "read" ELSE "populate"
                /\ UNCHANGED status
    /\ UNCHANGED <<win, blockVars, cursorVars, successCount, from, buf, blen, down, output>>

\* Seeded faults for mutation testing: a read that needs one byte of slack
\* past its slice, and a reader advanced by the full shard size.
ReadOKStrict(j) == j \notin down /\ rd[j].pos + blen[j] < rd[j].end
AdvanceShardSize(r, j) == [r EXCEPT !.pos = @ + ShardSize]
\* io.ReadFull of the whole slice from an open reader (decode.go:76); on a
\* failed disk, or past the end of the section, it fails after copying
\* what the section still had.
ReadOK(j) == j \notin down /\ rd[j].pos + blen[j] <= rd[j].end
Got(j) == LET avail == IF j \in down THEN 0
                       ELSE IF rd[j].end - rd[j].pos < blen[j] THEN rd[j].end - rd[j].pos
                       ELSE blen[j]
          IN  SubSeq(ShardFile(j), rd[j].pos + 1, rd[j].pos + avail)
Advance(r, j) == [r EXCEPT !.pos = @ + blen[j]]

\* One pass of the read loop (decode.go:126-137) with readShards
\* (decode.go:69-100): the readers from slot `from` on read in parallel; a
\* failed one is dropped and its slice emptied.  The successes of ALL open
\* slots are added to successCount; below N the missing readers are opened.
ReadShards ==
    /\ status = "reading" /\ pc = "read"
    /\ LET reading == { j \in SlotsFrom(from, readersLen) : rd[j] # NoReader }
           ok2     == [j \in Slots |-> IF j \in reading THEN ReadOK(j) ELSE ok[j]]
           total   == successCount + Cardinality({ j \in SlotsFrom(0, readersLen) : ok2[j] })
       IN  /\ ok' = ok2
           /\ buf' = [j \in Slots |-> IF j \in reading THEN Store(buf[j], Got(j)) ELSE buf[j]]
           /\ rd' = [j \in Slots |-> IF j \notin reading THEN rd[j]
                       ELSE IF ReadOK(j) THEN Advance(rd[j], j) ELSE NoReader]
           /\ blen' = [j \in Slots |-> IF j \in SlotsFrom(from, readersLen) /\ ~ok2[j]
                                       THEN 0 ELSE blen[j]]
           /\ successCount' = total
           /\ IF total >= N
              THEN pc' = "post" /\ UNCHANGED <<from, count>>
              ELSE pc' = "populate" /\ from' = readersLen /\ count' = N - total
    /\ UNCHANGED <<win, blockVars, cursorVars, readersLen, down, output, status>>

\* decoder.ReconstructData of klauspost/reedsolomon: present shards must
\* share one length; with all shards, or all data shards, present it does
\* nothing, with fewer than N it fails, else it solves the missing data
\* shards, in their own arrays, from the first N present shards.
Reconstruct(b, l) ==
    LET present == { i \in Slots : l[i] > 0 }
        L       == l[Min(present)]
        used    == { u \in present : Cardinality({ v \in present : v < u }) < N }
        blocks  == { k \in 0 .. BlockCount - 1 :
                       ShardLen(k) = L /\ \A u \in used : SubSeq(b[u], 1, L) = FileShard(u, k) }
        Solved(d) == IF blocks # {} THEN FileShard(d, CHOOSE k \in blocks : TRUE)
                     ELSE [j \in 1..L |-> Garbage]
        missing == { d \in SlotsFrom(0, N) : l[d] = 0 }
    IN  CASE present = {} \/ \E i \in present : l[i] # L -> [err |-> TRUE]
          [] present = Slots \/ missing = {} -> [err |-> FALSE, buf |-> b, blen |-> l]
          [] Cardinality(present) < N -> [err |-> TRUE]
          [] OTHER -> [err |-> FALSE,
                       buf |-> [i \in Slots |-> IF i \in missing THEN Store(b[i], Solved(i)) ELSE b[i]],
                       blen |-> [i \in Slots |-> IF i \in missing THEN L ELSE l[i]]]

\* Seeded fault: the skipped shard resliced without the copy.
FirstBlockNoShift(b, l, n, s) == b
\* copy(shards[n], shards[n][s:]) (decode.go:158).
FirstBlockShift(b, l, n, s) == [b EXCEPT ![n] = Store(@, SubSeq(@, s + 1, l[n]))]

\* The end of readBlock (decode.go:139-186): advance the shard window,
\* reconstruct when more than N readers were opened, set the cursor, drop
\* the skip from the shard it ends in (a slice start past its length is a
\* crash), cut the last block after bytesToReadInLastBlock, count the block.
Post ==
    /\ status = "reading" /\ pc = "post"
    /\ blockOffset' = blockOffset - shardSize
    /\ blockLength' = blockLength - shardSize
    /\ pc' = "idle"
    /\ LET rs == IF readersLen > N THEN Reconstruct(buf, blen)
                 ELSE [err |-> FALSE, buf |-> buf, blen |-> blen]
           ss == shardSize
           first == index = 0
           last  == index = win.blocksToRead - 1
           n  == IF skip = 0 THEN 0 ELSE IF (skip - 1) \div ss < N THEN (skip - 1) \div ss ELSE N
           s  == skip - n * ss
           l1 == IF first /\ n < N THEN [rs.blen EXCEPT ![n] = ss - s] ELSE rs.blen
           si == IF first THEN n ELSE 0
           t  == IF readInLast = 0 THEN 0
                 ELSE IF (readInLast - 1) \div ss < N - si THEN (readInLast - 1) \div ss ELSE N - si
           e  == si + t
       IN  IF rs.err \/ (first /\ n < N /\ s > rs.blen[n])
           THEN /\ status' = IF rs.err THEN "error" ELSE "panic"
                /\ UNCHANGED <<buf, blen, skip, readInLast, index, cursorVars>>
           ELSE /\ buf' = IF first /\ n < N THEN FirstBlockShift(rs.buf, rs.blen, n, s) ELSE rs.buf
                /\ blen' = IF last /\ e < N
                           THEN [i \in Slots |-> CASE i = e -> readInLast - t * ss
                                                   [] e < i /\ i < N -> 0
                                                   [] OTHER -> l1[i]]
                           ELSE l1
                /\ skip' = IF first THEN s ELSE skip
                /\ shardIndex' = si /\ byteIndex' = 0
                /\ bytesAvailable' = IF last THEN readInLast
                                     ELSE IF first THEN Sub64(N * ss, skip) ELSE N * ss
                /\ readInLast' = IF last THEN readInLast - t * ss ELSE readInLast
                /\ index' = index + 1
                /\ UNCHANGED status
    /\ UNCHANGED <<win, shardSize, readersLen, successCount, count, from, rd, ok, down, output>>

\* One turn of Read's copy loop (decode.go:196-206): copy from the current
\* shard as much as the caller's buffer still takes (any amount, for some
\* caller), then move on when the shard is used up.  A shard index past
\* the last shard is an index out of range.
Copy ==
    /\ status = "reading" /\ pc = "idle" /\ bytesAvailable > 0
    /\ IF shardIndex >= NS
       THEN status' = "panic" /\ UNCHANGED <<cursorVars, output>>
       ELSE LET avail == blen[shardIndex] - byteIndex
            IN  \E c \in IF avail = 0 THEN {0} ELSE 1..avail :
                   /\ output' = output \o SubSeq(buf[shardIndex], byteIndex + 1, byteIndex + c)
                   /\ IF c < avail
                      THEN byteIndex' = byteIndex + c /\ UNCHANGED shardIndex
                      ELSE shardIndex' = shardIndex + 1 /\ byteIndex' = 0
                   /\ bytesAvailable' = Sub64(bytesAvailable, c)
                   /\ UNCHANGED status
    /\ UNCHANGED <<win, blockVars, loopVars, slotVars, down>>

\* A shard disk fails: opening and reading its shard fail from then on.
Fail(i) ==
    /\ status = "reading" /\ i \notin down /\ Cardinality(down) < MaxDown
    /\ FailMidRead \/ readersLen = 0
    /\ down' = down \cup {i}
    /\ UNCHANGED <<win, blockVars, cursorVars, loopVars, slotVars, output, status>>

ReaderStep == ReadBlockStart \/ Populate \/ ReadShards \/ Post \/ Copy
Next == ReaderStep \/ \E i \in Slots : Fail(i)

\* The caller keeps calling Read until it returns an error, and every
\* goroutine of a round returns (shard readers are finite sections).
Spec == Init /\ [][Next]_vars /\ WF_vars(ReaderStep)

-----------------------------------------------------------------------------
(* Every variable has its type: shard slices stay within their capacity    *)
(* and a shard reader's position never passes its end (readShards advances *)
(* it by exactly the bytes ReadFull read).                                 *)
TypeOK ==
    /\ pc \in {"idle", "populate", "read", "post"}
    /\ status \in {"reading", "eof", "error", "panic"}
    /\ down \subseteq Slots /\ readersLen \in 0..NS /\ index \in 0..win.blocksToRead
    /\ \A i \in Slots : /\ blen[i] \in 0..ShardSize /\ Len(buf[i]) = ShardSize
                        /\ rd[i] = NoReader \/ (0 <= rd[i].pos /\ rd[i].pos <= rd[i].end)

(* Range correctness (spec 8): every byte Read returns is the next byte of  *)
(* the window, and at io.EOF the whole window has been returned, whatever  *)
(* the shard slices kept from earlier blocks and reconstructions.          *)
RangeCorrect ==
    /\ IsPrefix(output, Window(win.offset, win.length))
    /\ status = "eof" => output = Window(win.offset, win.length)

(* populate reports running out of readers as "too many read errors" and   *)
(* never crashes with an index out of range.                               *)
NoPanic == status # "panic"

(* With at most M failed disks a caller that keeps calling Read gets all of *)
(* the window and io.EOF: the retry loops of readBlock terminate.          *)
CompletesRead == <>(status = "eof")
=============================================================================
