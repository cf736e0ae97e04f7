------------------------------- MODULE Inode -------------------------------
(***************************************************************************)
(* The state the engines of read_write.c share: the eCryptfs inode size    *)
(* (i_size), the upper page cache of the inode (pages with their lock,     *)
(* reference count, PG_uptodate bit and contents) and the lower file:     *)
(* encrypted pages for an ECRYPTFS_ENCRYPTED file, plain bytes otherwise, *)
(* plus the size record in the lower file's metadata header.             *)
(*                                                                         *)
(* Data abstraction: a byte is ZERO, JUNK (content nobody wrote: a decrypted *)
(* extent that was never encrypted, memory read past a mapped page), or   *)
(* <<c, i>>, byte i of the buffer of call number c.  The cipher is an     *)
(* injective tag: a lower page holds Encrypt(d) for the plaintext d it    *)
(* was encrypted from, and decrypting a page never written yields JUNK.   *)
(***************************************************************************)
EXTENDS Translator

CONSTANTS
    NPages,     \* pages of the modelled file
    Threads,    \* callers of the engines
    NoThread,   \* lock owner of an unlocked page
    JUNK,       \* a byte nobody wrote
    NoCt,       \* a lower page never written
    MaxCalls,   \* calls over the whole behaviour (numbers the buffers)
    Modes,      \* modes a file may have: "encrypted", "plain"
    Faults      \* external failures enabled: "grab", "crypto", "lower", "meta", "signal", "alloc"

ASSUME Modes \subseteq {"encrypted", "plain"}
ASSUME Faults \subseteq {"grab", "crypto", "lower", "meta", "signal", "alloc"}

MaxPos == NPages * PAGE_SIZE
Pages == 0..NPages - 1
Positions == 0..MaxPos - 1
\* The plaintext lower file can be written up to 2*MaxPos (see WriteLowerSegment).
LowerLen == 2 * MaxPos
\* The zero byte, as call number 0 (memset) so that all bytes compare.
ZERO == <<0, 0>>
Byte == {ZERO, JUNK} \cup ((1..MaxCalls) \X Positions)
PageData == [0..PAGE_SIZE - 1 -> Byte]
ZeroPage == [i \in 0..PAGE_SIZE - 1 |-> ZERO]
JunkPage == [i \in 0..PAGE_SIZE - 1 |-> JUNK]
AbsentPage == [present |-> FALSE, uptodate |-> FALSE, data |-> ZeroPage]

Encrypt(d) == [plain |-> d]
Decrypt(c) == IF c = NoCt THEN JunkPage ELSE c.plain

VARIABLES
    mode,       \* "encrypted" or "plain": crypt_stat->flags & ECRYPTFS_ENCRYPTED,
                \* fixed for the file; the engines only read it
    isize,      \* i_size of the eCryptfs inode
    metaSize,   \* file size recorded in the lower metadata (encrypted files)
    cache,      \* page index -> [present, uptodate, data]
    owner,      \* page index -> thread holding the page lock, or NoThread
    refs,       \* page index -> references held by calls (get/put_page)
    lowerCt,    \* page index -> Encrypt(data) or NoCt (encrypted lower file)
    lowerBytes, \* lower byte position -> Byte (plaintext lower file)
    kbufs,      \* page-pointer arrays kmalloc'ed by the engines and not freed
    calls,      \* calls started so far (history: numbers the buffers)
    lastWrite   \* history: the last write call that returned

inodeVars == <<mode, isize, metaSize, cache, owner, refs, lowerCt, lowerBytes, kbufs>>

\* Results: "0" or the failure that produced the error code.
Errors == {"EINTR", "EPAGE", "ENOMEM", "EFAULT", "ECRYPT", "EIO", "EMETA"}

\* A returned write call: request, i_size it read, result, the failures its
\* collaborators reported, and the durable file when it started.
WriteRecord ==
    [id : 0..MaxCalls, off : 0..MaxPos, sz : 0..MaxPos, fsize : 0..MaxPos,
     rc : {"0", "none"} \cup Errors, errs : SUBSET Errors,
     before : [Positions -> Byte]]
NoWrite == [id |-> 0, off |-> 0, sz |-> 0, fsize |-> 0, rc |-> "none",
            errs |-> {}, before |-> [x \in Positions |-> ZERO]]

\* The record of the write call c returning rc; errs: failures reported in
\* its last step.
Returned(c, rc, errs) ==
    [id |-> c.id, off |-> c.off, sz |-> c.sz, fsize |-> c.fsize, rc |-> rc,
     errs |-> c.errs \cup errs, before |-> c.before]

InodeTypeOK ==
    /\ mode \in Modes
    /\ isize \in 0..MaxPos
    /\ metaSize \in 0..MaxPos
    /\ cache \in [Pages -> [present : BOOLEAN, uptodate : BOOLEAN, data : PageData]]
    /\ owner \in [Pages -> Threads \cup {NoThread}]
    /\ refs \in [Pages -> Nat]
    /\ lowerCt \in [Pages -> {NoCt} \cup [plain : PageData]]
    /\ lowerBytes \in [0..LowerLen - 1 -> Byte]
    /\ kbufs \in Nat
    /\ calls \in 0..MaxCalls
    /\ lastWrite \in WriteRecord

\* An empty file that has never been written.
InodeInit ==
    /\ mode \in Modes
    /\ isize = 0
    /\ metaSize = 0
    /\ cache = [p \in Pages |-> AbsentPage]
    /\ owner = [p \in Pages |-> NoThread]
    /\ refs = [p \in Pages |-> 0]
    /\ lowerCt = [p \in Pages |-> NoCt]
    /\ lowerBytes = [x \in 0..LowerLen - 1 |-> ZERO]
    /\ kbufs = 0
    /\ calls = 0
    /\ lastWrite = NoWrite

\* ecryptfs_read_lower(data, offset, size, inode): kernel_read of size
\* bytes at offset of the plaintext lower file.
ReadLower(offset, size) == [j \in 0..size - 1 |-> lowerBytes[offset + j]]

\* The bytes of page p as the lower file holds them: decrypted for an
\* encrypted file; otherwise ecryptfs_read_lower_page_segment(page, p, 0,
\* PAGE_SIZE), which reads at (p << PAGE_SHIFT) + offset_in_page.
LowerPage(p) ==
    IF mode = "encrypted" THEN Decrypt(lowerCt[p])
    ELSE ReadLower(p * PAGE_SIZE, PAGE_SIZE)

\* a_ops->readpage (ecryptfs_readpage): fill a page from the lower file.
Readpage(p) == LowerPage(p)

\* The content of byte x that survives the page cache: the lower file.
Durable(x) == LowerPage(PageIndex(x))[OffsetInPage(x)]
DurableFile == [x \in Positions |-> Durable(x)]

\* The content a cached read of byte x returns.
View(x) ==
    LET p == PageIndex(x)
    IN  IF cache[p].present /\ cache[p].uptodate
        THEN cache[p].data[OffsetInPage(x)] ELSE Durable(x)

\* The kernel reclaims a clean page nobody locks or references.  The
\* engines never dirty a page (they write the lower file themselves).
Evict(p) ==
    /\ cache[p].present
    /\ owner[p] = NoThread
    /\ refs[p] = 0
    /\ cache' = [cache EXCEPT ![p] = AbsentPage]
    /\ UNCHANGED <<mode, isize, metaSize, owner, refs, lowerCt, lowerBytes, kbufs, calls, lastWrite>>

\* The page a page-cache lookup returns: the cached one, or a new page,
\* zero-initialised and not up to date.
Grabbed(p) == IF cache[p].present THEN cache[p]
              ELSE [present |-> TRUE, uptodate |-> FALSE, data |-> ZeroPage]

\* Mutant: the source cursor data_offset not added to data.
BufByteNoDataOff(c, k) == <<c.id, k>>

\* Byte k copied in this iteration: (data + data_offset)[k].
BufByte(c, k) == <<c.id, c.dataOff + k>>

\* The page after the memset and memcpy of one write-loop iteration of the
\* call c (ecryptfs_write and ecryptfs_write2 alike): zero from
\* start_offset_in_page to the end of the page when still in the hole or
\* at the start of a page, then the next num_bytes of the buffer when at
\* or past offset.
FilledPage(d, c) ==
    LET start == OffsetInPage(c.pos)
        len   == WriteStepLen(c.pos, c.off, c.sz)
        wipe  == c.pos < c.off \/ start = 0
    IN  [i \in DOMAIN d |->
           IF c.pos >= c.off /\ start <= i /\ i < start + len THEN BufByte(c, i - start)
           ELSE IF wipe /\ i >= start THEN ZERO ELSE d[i]]

\* The cache after one iteration filled the page at pos from the page
\* contents d, SetPageUptodate and unlock_page; the data cursor after it.
FillCache(c, d) ==
    [cache EXCEPT ![PageIndex(c.pos)] =
        [present |-> TRUE, uptodate |-> TRUE, data |-> FilledPage(d, c)]]
NextDataOff(c) ==
    IF c.pos >= c.off THEN c.dataOff + WriteStepLen(c.pos, c.off, c.sz) ELSE c.dataOff

\* Mutant: put_page forgotten.
PutPageMissing(p) == refs

\* put_page(page): drop the reference the call holds.
PutPage(p) == [refs EXCEPT ![p] = @ - 1]

\* Mutant: the loop over the array starts at pgs[1].
BatchHeadSkipFirst(c, n) == {c.pgs[k] : k \in 2..n}
\* The first n pages of a page-pointer array pgs (pgs[0..n-1] in C).
BatchHead(c, n) == {c.pgs[k] : k \in 1..n}

\* Arrays kmalloc(n * sizeof(struct page *)) allocates: kmalloc(0) returns
\* ZERO_SIZE_PTR and allocates nothing.
Kmalloced(n) == IF n > 0 THEN 1 ELSE 0

\* Byte j of the memory mapped at a page with contents d: past the end of
\* the page the code reads memory it does not own.
MappedByte(d, j) == IF j < PAGE_SIZE THEN d[j] ELSE JUNK

\* ecryptfs_write_lower(inode, data, offset, size): kernel_write of the
\* size bytes data[0..size-1] at offset of the plaintext lower file.
WriteLower(data, offset, size) ==
    [x \in 0..LowerLen - 1 |->
        IF offset <= x /\ x < offset + size THEN data[x - offset] ELSE lowerBytes[x]]

\* ecryptfs_write_lower_page_segment(inode, page, offset_in_page, size):
\* write size bytes to the lower file at (page->index << PAGE_SHIFT) +
\* offset_in_page, taken from virt = kmap(page): the start of the page,
\* not virt + offset_in_page.
WriteLowerSegment(p, d, offset_in_page, size) ==
    WriteLower([j \in 0..size - 1 |-> MappedByte(d, j)],
               p * PAGE_SIZE + offset_in_page, size)
=============================================================================
