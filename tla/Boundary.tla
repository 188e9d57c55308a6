------------------------------- MODULE Boundary -------------------------------
(***************************************************************************)
(* The block-boundary arithmetic shared by every read path of goat:        *)
(*   CalcBoundaries      src/pkg/boundary/boundary.go                      *)
(*   CalcPartBoundaries  src/pkg/boundary/boundary.go                      *)
(*   Info.Compute        src/pkg/erasure/info.go                           *)
(* All three are pure functions; they are written here as operators that   *)
(* return records named after the Go result variables.  Inputs are the     *)
(* non-negative integers the callers pass (every caller checks             *)
(* offset + length <= size before calling).                                *)
(***************************************************************************)
EXTENDS Integers, Sequences

(* boundary.go:4-6: the contract check; a violation panics. *)
CalcBoundariesPre(size, offset, length) ==
    ~(offset > size \/ length > size \/ offset + length > size)

(***************************************************************************)
(* CalcBoundaries: the block window and the trims in its first and last    *)
(* block.  bs is the effective block size: the whole (last) block when the *)
(* file has at most one block.  A window that does not reach the final    *)
(* block reports a full block as lastBlockSize, and so does the early      *)
(* return taken when the window fits in its first, partly skipped block.   *)
(* Go's division truncates; for the non-negative inputs it is \div.        *)
(***************************************************************************)
\* Seeded fault for mutation testing: the first block's bytes taken off
\* the length even when nothing is skipped.
SkipRestAlways(length, bs, skipFirst) == length - (bs - skipFirst)

\* boundary.go:20-30: the length left after the partly skipped first block.
SkipRest(length, bs, skipFirst) ==
    IF skipFirst > 0 THEN length - (bs - skipFirst) ELSE length

\* Seeded fault: a window that ends exactly at its first block's end is
\* not taken as fitting in it.
FitsFirstBlockStrict(length, bs, skipFirst) == length < bs - skipFirst

\* boundary.go:23: the window ends inside its partly skipped first block.
FitsFirstBlock(length, bs, skipFirst) == length <= bs - skipFirst

CalcBoundaries(size, blockSize, blockCount, offset, length) ==
    LET lastRaw    == size - (blockCount - 1) * blockSize
        lastBlock  == IF lastRaw = 0 THEN blockSize ELSE lastRaw
        bs         == IF blockCount <= 1 THEN lastBlock ELSE blockSize
        toSkip     == offset \div bs
        skipFirst  == offset - toSkip * bs
        rest       == SkipRest(length, bs, skipFirst)
        needed     == rest \div bs
        r          == rest - needed * bs
        toRead     == (IF skipFirst > 0 THEN 1 ELSE 0) + needed + (IF r > 0 THEN 1 ELSE 0)
    IN  IF skipFirst > 0 /\ FitsFirstBlock(length, bs, skipFirst)
        THEN [blocksToSkip |-> toSkip, blocksToRead |-> 1,
              bytesToSkipInFirstBlock |-> skipFirst,
              bytesToReadInLastBlock |-> length, lastBlockSize |-> bs]
        ELSE [blocksToSkip |-> toSkip, blocksToRead |-> toRead,
              bytesToSkipInFirstBlock |-> skipFirst,
              bytesToReadInLastBlock |-> CASE r > 0 -> r
                                           [] r < 0 -> rest
                                           [] OTHER -> bs,
              lastBlockSize |-> IF toSkip + toRead # blockCount THEN bs ELSE lastBlock]

(***************************************************************************)
(* CalcPartBoundaries: walk the part sizes, first consuming the offset,    *)
(* then the length.  Part indices are 0-based and endPart is exclusive, as *)
(* in the Go code.  When the offset is never found inside a part, startPart *)
(* keeps its zero value and endPart is the number of parts.                *)
(***************************************************************************)
\* Seeded fault for mutation testing: the offset not taken off the part
\* it falls in (boundary.go:65 dropped).
RECURSIVE PartWalkNoTrim(_, _, _, _, _, _)
PartWalkNoTrim(partSizes, i, found, offset, length, startPart) ==
    IF i > Len(partSizes)
    THEN [startPart |-> startPart, endPart |-> Len(partSizes),
          bytesToSkipInStartPart |-> offset, bytesToReadInEndPart |-> length]
    ELSE IF ~found /\ partSizes[i] <= offset
    THEN PartWalkNoTrim(partSizes, i + 1, FALSE, offset - partSizes[i], length, startPart)
    ELSE LET start == IF found THEN startPart ELSE i - 1
         IN  IF length <= partSizes[i]
             THEN [startPart |-> start, endPart |-> i,
                   bytesToSkipInStartPart |-> offset, bytesToReadInEndPart |-> length]
             ELSE PartWalkNoTrim(partSizes, i + 1, TRUE, offset, length - partSizes[i], start)

RECURSIVE PartWalk(_, _, _, _, _, _)
PartWalk(partSizes, i, found, offset, length, startPart) ==
    IF i > Len(partSizes)
    THEN [startPart |-> startPart, endPart |-> Len(partSizes),
          bytesToSkipInStartPart |-> offset, bytesToReadInEndPart |-> length]
    ELSE IF ~found /\ partSizes[i] <= offset
    THEN PartWalk(partSizes, i + 1, FALSE, offset - partSizes[i], length, startPart)
    ELSE LET avail == IF found THEN partSizes[i] ELSE partSizes[i] - offset
             start == IF found THEN startPart ELSE i - 1
         IN  IF length <= avail
             THEN [startPart |-> start, endPart |-> i,
                   bytesToSkipInStartPart |-> offset, bytesToReadInEndPart |-> length]
             ELSE PartWalk(partSizes, i + 1, TRUE, offset, length - avail, start)

CalcPartBoundaries(partSizes, offset, length) ==
    PartWalk(partSizes, 1, FALSE, offset, length, 0)

(***************************************************************************)
(* Info.Compute: stripe geometry of one erasure-coded part.  A size that   *)
(* is an exact multiple of the block size (zero included) has a full last  *)
(* block; a size of zero has no block at all.                              *)
(***************************************************************************)
Compute(dataCount, size, shardSize) ==
    LET blockSize == dataCount * shardSize
        full      == size \div blockSize
        rem       == size - full * blockSize
    IN  IF rem > 0
        THEN [blockCount |-> full + 1, blockSize |-> blockSize, lastBlockSize |-> rem,
              lastShardSize |-> (rem + dataCount - 1) \div dataCount]
        ELSE [blockCount |-> full, blockSize |-> blockSize, lastBlockSize |-> blockSize,
              lastShardSize |-> shardSize]

(* The bytes one part contributes to each shard file (erasure.go:263-264, *)
(* :457-458, data-reader.go:117-118, :173-174).  The Go sum is uint64; at  *)
(* blockCount 0 it wraps round to 0, which the unbounded sum also gives.   *)
ShardPartSize(dataCount, size, shardSize) ==
    LET c == Compute(dataCount, size, shardSize)
    IN  c.lastShardSize + (c.blockCount - 1) * shardSize

\* Reference: the bytes, by position, that a correct read of (offset, length)
\* returns.
Window(offset, length) == [j \in 1..length |-> offset + j - 1]
=============================================================================
