---------------------------- MODULE MCTranslator ----------------------------
(***************************************************************************)
(* Checks the walk of the write loops of Translator against what the     *)
(* loops must cover, over every request that fits in MaxPos bytes.  The  *)
(* state is one request; every step picks another one.                   *)
(***************************************************************************)
EXTENDS Translator

CONSTANT MaxPos

VARIABLE req

Requests ==
    {r \in [fsize : 0..MaxPos, offset : 0..MaxPos, size : 0..MaxPos] :
        r.offset + r.size <= MaxPos}

Init == req \in Requests
Next == \E r \in Requests : req' = r
Spec == Init /\ [][Next]_req

TypeOK == req \in Requests

W == WriteWalk(req.offset, req.size, req.fsize)
\* The write loop of ecryptfs_write/ecryptfs_write2 tiles [start, offset+size)
\* exactly: each step is non-empty and stays inside one page, a zero-fill
\* step (pos < offset) never runs past offset, and the data steps consume
\* exactly size bytes of the caller's buffer.
WalkTiles ==
    /\ \A i \in 1..Len(W) :
          /\ W[i].len > 0
          /\ W[i].start + W[i].len <= PAGE_SIZE
          /\ W[i].pos < req.offset => W[i].pos + W[i].len <= req.offset
          /\ i < Len(W) => W[i + 1].pos = W[i].pos + W[i].len
    /\ Len(W) > 0 =>
          /\ W[1].pos = WriteStart(req.offset, req.fsize)
          /\ W[Len(W)].pos + W[Len(W)].len = req.offset + req.size
    /\ Len(W) = 0 => WriteStart(req.offset, req.fsize) >= req.offset + req.size
    /\ FoldSeq(LAMBDA s, acc : acc + s.len, 0,
               SelectSeq(W, LAMBDA s : s.pos >= req.offset)) = req.size

=============================================================================
