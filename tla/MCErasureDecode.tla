--------------------------- MODULE MCErasureDecode ---------------------------
(***************************************************************************)
(* Model-checking instances of ErasureDecode: the windows NewReader is     *)
(* called with.                                                            *)
(***************************************************************************)
EXTENDS ErasureDecode

\* Every window of the part that passes NewReader's size check.
AllWindows ==
    { w \in [offset : 0..Size, length : 0..Size] : w.offset + w.length <= Size }

\* Windows that lie inside one block but start after its first byte.
SingleBlockSkip(w) ==
    LET b == CalcBoundaries(Size, Geo.blockSize, BlockCount, w.offset, w.length)
    IN  b.blocksToRead = 1 /\ b.bytesToSkipInFirstBlock > 0

\* The windows left once those are set aside.
OtherWindows == { w \in AllWindows : ~SingleBlockSkip(w) }

\* Windows of one whole-shard-aligned block read: no skip, one block.
OneBlockWindows ==
    { w \in AllWindows :
        LET b == CalcBoundaries(Size, Geo.blockSize, BlockCount, w.offset, w.length)
        IN  b.blocksToRead = 1 /\ b.bytesToSkipInFirstBlock = 0 }
=============================================================================
