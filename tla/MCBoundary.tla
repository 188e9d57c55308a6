------------------------------ MODULE MCBoundary ------------------------------
(***************************************************************************)
(* Checks the boundary arithmetic of Boundary.tla against reference        *)
(* definitions over every small input, together with the two consumers     *)
(* that turn its results into bytes:                                       *)
(*   - the bitrot-protected file reader, OpenFile + checksummedReader      *)
(*     (src/pkg/os/file.go, src/pkg/os/checksummed-reader.go), which reads *)
(*     a data file whose sidecar holds one digest per block;               *)
(*   - the part walk of the erasure data reader                            *)
(*     (src/datasys/dataspace/erasure/data-reader.go), which turns the     *)
(*     result of CalcPartBoundaries into one (offset, length) request per  *)
(*     part.                                                               *)
(* A byte is represented by its position in the stored stream, so a read   *)
(* is correct when it yields offset, offset+1, ..., offset+length-1.       *)
(* The model walks from one input to any other, so every reachable state   *)
(* is one input and an invariant is checked for all of them.               *)
(***************************************************************************)
EXTENDS Boundary, Integers, Sequences, SequencesExt

CONSTANTS
    MaxSize,        \* largest file / object size enumerated
    MaxBlockSize,   \* largest checksum block size enumerated
    MaxParts,       \* most parts an object has
    MaxPartSize,    \* largest part size enumerated
    EndWindows      \* whether empty windows at the very end of an object are enumerated

ASSUME MaxSize \in Nat /\ MaxBlockSize \in Nat \ {0} /\ EndWindows \in BOOLEAN

VARIABLE input

\* Positions of block k when the stream is cut in blocks of bs bytes.
BlockBytes(size, bs, k) ==
    LET first == k * bs
        last  == IF (k + 1) * bs < size THEN (k + 1) * bs ELSE size
    IN  [j \in 1..(last - first) |-> first + j - 1]

Invalid == <<-1>>   \* stands for a failed read or a slice past its length

(***************************************************************************)
(* Reference consumer of CalcBoundaries: read blocksToRead blocks from     *)
(* blocksToSkip on, drop bytesToSkipInFirstBlock from the first and keep   *)
(* bytesToReadInLastBlock of the last (after the drop when they coincide). *)
(***************************************************************************)
ConsumeWindow(size, blockSize, blockCount, b) ==
    LET lastRaw == size - (blockCount - 1) * blockSize
        bs      == IF blockCount <= 1
                   THEN IF lastRaw = 0 THEN blockSize ELSE lastRaw
                   ELSE blockSize
        n       == b.blocksToRead
        Trim(i) == LET s  == BlockBytes(size, bs, b.blocksToSkip + i)
                       s1 == IF i = 0 THEN SubSeq(s, b.bytesToSkipInFirstBlock + 1, Len(s)) ELSE s
                   IN  IF i < n - 1 THEN s1
                       ELSE IF b.bytesToReadInLastBlock <= Len(s1)
                            THEN SubSeq(s1, 1, b.bytesToReadInLastBlock)
                            ELSE Invalid
    IN  FlattenSeq([i \in 1..n |-> Trim(i - 1)])

(***************************************************************************)
(* OpenFile with bitrot protection and the checksummedReader it returns.   *)
(* WriteFile stored ceil(size/bs) blocks, one digest line each.  OpenFile  *)
(* seeks the data file to blocksToSkip blocks (of lastBlockSize when the   *)
(* file has at most one block) and the sidecar to the blocksToSkip-th      *)
(* digest.  readBlock then reads one digest and a block of header.BlockSize *)
(* bytes, lastBlockSize for the final block of the window, and fails when  *)
(* the digest line or the bytes run out (io.EOF / ErrUnexpectedEOF) or the *)
(* bytes read are not the block the digest was computed over.             *)
(***************************************************************************)
RECURSIVE CsBlocks(_, _, _, _, _, _)
CsBlocks(size, bs, b, idx, pos, acc) ==
    IF idx = b.blocksToRead THEN acc
    ELSE LET k     == b.blocksToSkip + idx
             len   == IF idx = b.blocksToRead - 1 THEN b.lastBlockSize ELSE bs
             whole == BlockBytes(size, bs, k)
             ok    == /\ k * bs < size              \* a digest line exists
                      /\ pos + len <= size           \* ReadFull succeeds
                      /\ pos = k * bs /\ len = Len(whole)  \* digest matches
             s1    == IF idx = 0 THEN SubSeq(whole, b.bytesToSkipInFirstBlock + 1, Len(whole))
                      ELSE whole
             last  == idx = b.blocksToRead - 1
             \* block[:bytesToReadInLastBlock] past len(block) shows stale bytes
             fits  == ~last \/ b.bytesToReadInLastBlock <= Len(s1)
             s2    == IF last THEN SubSeq(s1, 1, b.bytesToReadInLastBlock) ELSE s1
         IN  IF ok /\ fits THEN CsBlocks(size, bs, b, idx + 1, pos + len, acc \o s2)
             ELSE Invalid

\* Mutant: the final block of the window is read with the header's block
\* size, not lastBlockSize.
ChecksummedReadFullLast(size, bs, offset, length) ==
    LET blockCount == (size + bs - 1) \div bs
        b          == CalcBoundaries(size, bs, blockCount, offset, length)
        seek       == IF blockCount <= 1 THEN b.blocksToSkip * b.lastBlockSize
                      ELSE b.blocksToSkip * bs
    IN  CsBlocks(size, bs, [b EXCEPT !.lastBlockSize = bs], 0, seek, <<>>)

ChecksummedRead(size, bs, offset, length) ==
    LET blockCount == (size + bs - 1) \div bs
        b          == CalcBoundaries(size, bs, blockCount, offset, length)
        seek       == IF blockCount <= 1 THEN b.blocksToSkip * b.lastBlockSize
                      ELSE b.blocksToSkip * bs
    IN  CsBlocks(size, bs, b, 0, seek, <<>>)

(***************************************************************************)
(* The erasure dataReader's part walk: parts[startPart:endPart] are read   *)
(* in turn, the first from bytesToSkip, every part but the last to its     *)
(* end, the last for bytesToRead bytes.  Each per-part request goes to     *)
(* erasure.NewReader, which refuses one that overruns the part.            *)
(***************************************************************************)
PartStart(ps, i) == FoldLeft(+, 0, SubSeq(ps, 1, i))

PartRequests(ps, offset, length) ==
    LET pb    == CalcPartBoundaries(ps, offset, length)
        n     == pb.endPart - pb.startPart
        Off(i) == IF i = 0 THEN pb.bytesToSkipInStartPart ELSE 0
        Req(i) == LET p   == pb.startPart + i
                      len == IF i = n - 1 THEN pb.bytesToReadInEndPart ELSE ps[p + 1] - Off(i)
                  IN  [part |-> p, offset |-> Off(i), length |-> len]
    IN  [i \in 1..n |-> Req(i - 1)]

ReadParts(ps, offset, length) ==
    LET reqs == PartRequests(ps, offset, length)
        Bytes(q) == IF q.offset + q.length <= ps[q.part + 1]
                    THEN Window(PartStart(ps, q.part) + q.offset, q.length)
                    ELSE Invalid
    IN  FlattenSeq([i \in DOMAIN reqs |-> Bytes(reqs[i])])

-----------------------------------------------------------------------------
\* A block input names a file size and checksum block size; a part input an
\* object's part sizes.  Both carry every field so that they form one set.
BlockInputs ==
    { [kind |-> "block", size |-> s, bs |-> bs, offset |-> o, length |-> l, parts |-> <<>>] :
        s \in 0..MaxSize, bs \in 1..MaxBlockSize, o \in 0..MaxSize, l \in 0..MaxSize }

ValidBlockInputs ==
    { x \in BlockInputs : CalcBoundariesPre(x.size, x.offset, x.length) }

\* Every object of 1..MaxParts parts of 0..MaxPartSize bytes each.
PartSizes == UNION { [1..n -> 0..MaxPartSize] : n \in 1..MaxParts }

PartInputs ==
    { [kind |-> "parts", size |-> 0, bs |-> 1, offset |-> o, length |-> l, parts |-> ps] :
        ps \in PartSizes, o \in 0..MaxSize, l \in 0..MaxSize }

ValidPartInputs ==
    { x \in PartInputs : /\ x.offset + x.length <= FoldLeft(+, 0, x.parts)
                         /\ EndWindows \/ x.offset < FoldLeft(+, 0, x.parts) }

InitBlocks == input \in ValidBlockInputs
NextBlock  == input' \in ValidBlockInputs
SpecBlocks == InitBlocks /\ [][NextBlock]_input

InitParts == input \in ValidPartInputs
NextParts == input' \in ValidPartInputs
SpecParts == InitParts /\ [][NextParts]_input

InitAll == input \in ValidBlockInputs \cup ValidPartInputs
NextAll == input' \in ValidBlockInputs \cup ValidPartInputs
SpecAll == InitAll /\ [][NextAll]_input

-----------------------------------------------------------------------------
(* The results of CalcBoundaries are block counts and byte counts in range: *)
(* the window's blocks lie inside the file, the skip inside a block, and  *)
(* the last block is a non-empty block (OpenFile and the decoder size      *)
(* their buffers with them).                                               *)
BoundariesTypeOK ==
    LET bc == (input.size + input.bs - 1) \div input.bs
        b  == CalcBoundaries(input.size, input.bs, bc, input.offset, input.length)
    IN  input.kind = "block" =>
        /\ b.blocksToSkip \in 0..bc
        /\ b.blocksToRead \in 0..(bc - b.blocksToSkip)
        /\ b.bytesToSkipInFirstBlock \in 0..(input.bs - 1)
        /\ b.bytesToReadInLastBlock \in 0..input.bs
        /\ b.lastBlockSize \in 1..input.bs

(* CalcBoundaries, for every file size, block size and window, names       *)
(* exactly the blocks and trims that yield the window (the contract the    *)
(* erasure decode reader relies on).                                       *)
WindowCorrect ==
    LET bc == (input.size + input.bs - 1) \div input.bs
        b  == CalcBoundaries(input.size, input.bs, bc, input.offset, input.length)
    IN  input.kind = "block" => ConsumeWindow(input.size, input.bs, bc, b) = Window(input.offset, input.length)

\* A window that starts after the first byte of the short final block of a
\* file of several blocks: the early return of CalcBoundaries
\* (boundary.go:23-27) reports lastBlockSize = blockSize for it, and
\* readBlock then fails with io.ErrUnexpectedEOF.
InShortLastBlock(x) ==
    LET bc == (x.size + x.bs - 1) \div x.bs
    IN  /\ bc > 1 /\ x.size % x.bs # 0
        /\ x.offset \div x.bs = bc - 1 /\ x.offset % x.bs > 0

(* A bitrot-protected read of every window of a stored file returns        *)
(* exactly the bytes of the window (spec 8, range correctness, at the disk *)
(* layer), except the windows of InShortLastBlock, which fail.              *)
ChecksummedReadCorrect ==
    input.kind = "block" /\ ~InShortLastBlock(input) => ChecksummedRead(input.size, input.bs, input.offset, input.length)
        = Window(input.offset, input.length)

(* The erasure data reader's part walk returns exactly the requested window *)
(* of a multi-part object.                                                 *)
PartReadCorrect ==
    input.kind = "parts" => ReadParts(input.parts, input.offset, input.length) = Window(input.offset, input.length)
=============================================================================
