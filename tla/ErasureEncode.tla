---------------------------- MODULE ErasureEncode ----------------------------
(***************************************************************************)
(* erasure.Write of src/pkg/erasure/encode.go: open the N+M shard writers, *)
(* then for every block read N data shards from the reader, encode, verify *)
(* and write each shard to every writer still alive, concurrently.  A      *)
(* writer whose Write fails is dropped for the rest of the stream, and the *)
(* call fails once fewer than minSuccessWriters remain.  The reader holds  *)
(* exactly size bytes (the request body of SaveTempFile).  Each block's     *)
(* read-encode-write, with its writer goroutines joined by wg.Wait, is one *)
(* step; which live writers fail in it is a nondeterministic choice.       *)
(* Shard contents are not tracked, only how many bytes each writer got.    *)
(***************************************************************************)
EXTENDS Boundary, Integers, FiniteSets

CONSTANTS
    N,          \* info.DataCount
    M,          \* info.ParityCount
    ShardSize,  \* info.ShardSize
    MinSuccess, \* minSuccessWriters
    Sizes,      \* the object sizes written
    MaxFail     \* writers that may fail in one Write call

ASSUME N >= 1 /\ M >= 0 /\ ShardSize >= 1 /\ MinSuccess \in 1..(N + M)

VARIABLES
    size,       \* info.Size, the bytes the reader holds
    pos,        \* bytes consumed from the reader
    block,      \* the block loop's i
    live,       \* writers[i] # nil (errs[i] = nil)
    written,    \* written[w]: bytes writer w accepted
    status      \* "open", "writing", "ok" or "error"

vars == <<size, pos, block, live, written, status>>

Writers == 0..(N + M - 1)

Geo == Compute(N, size, ShardSize)

(***************************************************************************)
(* readDataShards (encode.go:77-99): io.ReadFull into each data shard in    *)
(* turn.  A shard that gets no byte returns io.EOF; one that gets some but *)
(* not all returns io.ErrUnexpectedEOF, accepted only when the bytes read  *)
(* so far make the whole block (the rest is zero-filled).  Result: the     *)
(* error and the bytes consumed.                                           *)
(***************************************************************************)
ReadDataShards(avail, bs, ss) ==
    IF avail >= N * ss THEN [err |-> "nil", read |-> N * ss]
    ELSE LET k == avail \div ss          \* the first shard ReadFull cannot fill
             n == avail - k * ss         \* bytes it gets
         IN  CASE n = 0              -> [err |-> "EOF", read |-> avail]
               [] avail = bs         -> [err |-> "nil", read |-> avail]
               [] OTHER              -> [err |-> "UnexpectedEOF", read |-> avail]

Init ==
    /\ size \in Sizes
    /\ pos = 0
    /\ block = 0
    /\ live = Writers
    /\ written = [w \in Writers |-> 0]
    /\ status = "open"

\* encode.go:47-68: getShardWriter for every shard ID; fail if fewer than
\* minSuccessWriters writers were returned.
GetWriters ==
    /\ status = "open"
    /\ \E F \in SUBSET Writers :
          /\ Cardinality(F) <= MaxFail
          /\ live' = Writers \ F
          /\ status' = CASE Cardinality(Writers \ F) < MinSuccess -> "error"
                         [] Geo.blockCount = 0                     -> "ok"
                         [] OTHER                                  -> "writing"
    /\ UNCHANGED <<size, pos, block, written>>

\* encode.go:142-173 with writeShards (105-140): shrink the shards for the
\* last block, read the data shards, encode, and write to the live writers.
Block ==
    LET last == block = Geo.blockCount - 1
        bs   == IF last THEN Geo.lastBlockSize ELSE Geo.blockSize
        ss   == IF last THEN Geo.lastShardSize ELSE ShardSize
        r    == ReadDataShards(size - pos, bs, ss)
    IN  /\ status = "writing"
        /\ IF r.err # "nil"
           THEN /\ status' = "error"
                /\ pos' = pos + r.read
                /\ UNCHANGED <<block, live, written>>
           ELSE \E F \in SUBSET live :
                   /\ Cardinality((Writers \ live) \cup F) <= MaxFail
                   /\ live' = live \ F
                   /\ written' = [w \in Writers |-> IF w \in live' THEN written[w] + ss
                                                    ELSE written[w]]
                   /\ pos' = pos + r.read
                   /\ block' = block + 1
                   /\ status' = CASE Cardinality(live') < MinSuccess -> "error"
                                  [] last                            -> "ok"
                                  [] OTHER                           -> "writing"
        /\ UNCHANGED size

Next == GetWriters \/ Block

Spec == Init /\ [][Next]_vars

-----------------------------------------------------------------------------
(* Every variable has its type; the reader is never read past its size.    *)
TypeOK ==
    /\ size \in Sizes /\ pos \in 0..size
    /\ block \in 0..Geo.blockCount
    /\ live \subseteq Writers
    /\ written \in [Writers -> Nat]
    /\ status \in {"open", "writing", "ok", "error"}

(* Write fails only when too many shard writers fail (spec 4.4): with at   *)
(* most N+M-minSuccessWriters writers lost, every object of any size is    *)
(* written, the last block included.                                       *)
WriteFaultTolerant ==
    status = "error" => Cardinality(Writers \ live) > N + M - MinSuccess
=============================================================================
