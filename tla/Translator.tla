----------------------------- MODULE Translator -----------------------------
(***************************************************************************)
(* The offset translator of read_write.c: the page arithmetic that the     *)
(* write loops of ecryptfs_write / ecryptfs_write2 and the copy loop of    *)
(* ecryptfs_read2 repeat inline.  A byte position is split into a page     *)
(* index (pos >> PAGE_SHIFT) and an offset in the page (pos & ~PAGE_MASK), *)
(* and every loop iteration is capped so that it never crosses a page     *)
(* boundary.  The walks below are the sequences of iterations the loops   *)
(* perform; the engines (WriteSeq, Write2, Read2) take one step of them   *)
(* per action.                                                            *)
(***************************************************************************)
EXTENDS Naturals, SequencesExt, Bitwise

CONSTANT PAGE_SHIFT

ASSUME PAGE_SHIFT \in Nat

PAGE_SIZE == 2^PAGE_SHIFT

\* pgoff_t ecryptfs_page_idx = (pos >> PAGE_SHIFT)
PageIndex(pos) == shiftR(pos, PAGE_SHIFT)

\* size_t start_offset_in_page = (pos & ~PAGE_MASK); ~PAGE_MASK = PAGE_SIZE-1
OffsetInPage(pos) == pos & (PAGE_SIZE - 1)

\* Start of the write walk: a write beyond EOF starts at the old size so
\* that the gap is zero-filled.
WriteStart(offset, fsize) == IF offset > fsize THEN fsize ELSE offset

\* Mutant: the hole cap (total_remaining_zeros) dropped.
WriteStepLenNoHoleCap(pos, offset, size) ==
    Min({PAGE_SIZE - OffsetInPage(pos), (offset + size) - pos})

\* num_bytes of one write iteration: the rest of the page, capped by the
\* bytes left in the request and, while still in the hole, by the bytes
\* left up to the requested offset.
WriteStepLen(pos, offset, size) ==
    LET len == Min({PAGE_SIZE - OffsetInPage(pos), (offset + size) - pos})
    IN  IF pos < offset THEN Min({len, offset - pos}) ELSE len

\* num_bytes of one iteration of the copy loop of ecryptfs_read2.
ReadStepLen(pos, offset, size) ==
    Min({PAGE_SIZE - OffsetInPage(pos), (offset + size) - pos})

\* int nrpgs = size/PAGE_SIZE; if (size&(PAGE_SIZE-1)) nrpgs++;
BatchPages(size) ==
    size \div PAGE_SIZE + (IF (size & (PAGE_SIZE - 1)) # 0 THEN 1 ELSE 0)

\* nr_pages = (size + PAGE_SIZE - 1) >> PAGE_SHIFT
ReadPages(size) == shiftR(size + PAGE_SIZE - 1, PAGE_SHIFT)

\* One loop iteration as the code computes it.
Step(pos, len) ==
    [pos |-> pos, idx |-> PageIndex(pos), start |-> OffsetInPage(pos), len |-> len]

\* The iterations of the write loop from pos up to offset + size.
RECURSIVE WriteWalkFrom(_, _, _)
WriteWalkFrom(pos, offset, size) ==
    IF pos >= offset + size THEN <<>>
    ELSE LET len == WriteStepLen(pos, offset, size)
         IN  <<Step(pos, len)>> \o WriteWalkFrom(pos + len, offset, size)

WriteWalk(offset, size, fsize) ==
    WriteWalkFrom(WriteStart(offset, fsize), offset, size)

\* Size after the clamp of ecryptfs_read2: if (size > file_size) size = file_size
ReadClamp(size, fsize) == IF size > fsize THEN fsize ELSE size
=============================================================================
