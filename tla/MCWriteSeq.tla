----------------------------- MODULE MCWriteSeq -----------------------------
(***************************************************************************)
(* ecryptfs_write called by the threads of Threads, MaxCalls times in all, *)
(* on a file that starts empty, while the kernel may reclaim any clean    *)
(* unreferenced page.  Failures of the collaborators are those in Faults. *)
(***************************************************************************)
EXTENDS WriteSeq, WriteContract

vars == <<inodeVars, calls, lastWrite, ws>>

Init == InodeInit /\ WSInit

\* Every call has returned and no more are made: the system may stop.
Finished ==
    /\ calls = MaxCalls
    /\ \A t \in Threads : ws[t].pc = "idle"
    /\ UNCHANGED vars

Next ==
    \/ \E t \in Threads : WSNext(t)
    \/ \E p \in Pages : Evict(p) /\ UNCHANGED ws
    \/ Finished

Spec == Init /\ [][Next]_vars

TypeOK == InodeTypeOK /\ WSTypeOK

AllIdle == \A t \in Threads : ws[t].pc = "idle"

\* Once every ecryptfs_write call has returned, each page cached up to
\* date equals its lower page: a writer that unlocks a page and then
\* encrypts it (read_write.c:184-187) encrypts what the page holds at that
\* moment, so a second writer's change made between the unlock and the
\* encryption is not lost.
CacheCoherent ==
    AllIdle => \A p \in Pages :
                  cache[p].present /\ cache[p].uptodate => LowerPage(p) = cache[p].data

\* After ecryptfs_write returns 0, the gap [old size, offset) that a write
\* past the end of the file opens reads back as zeros from the lower file.
HoleReadsZero == HoleReadsZeroIn(AllIdle)

\* ecryptfs_write returns an error whenever a fatal signal, a page lookup,
\* an encryption or the metadata update failed during the call: the size
\* update after the loop keeps an earlier error (if (!rc) rc = rc2).
ErrorsReported == ErrorsReportedIn

\* The size record ecryptfs_write persists to the metadata covers only
\* pages it already encrypted to the lower file: the walk encrypts each
\* page before the size update after the loop, and a fatal signal or a
\* failed encryption ends the walk before the size reaches the pages it
\* did not write.  A remount that takes the size from the metadata reads
\* no byte nobody wrote.
RecoverableSize == RecoverableSizeIn

\* When every call has returned, ecryptfs_write has unlocked and put every
\* page it got, on the error paths too.
Released == ReleasedIn(AllIdle)

\* The write in progress of each thread, as ExtentFile sees it: its cursor
\* is the loop position pos.
AbsWrites == [t \in Threads |->
                IF ws[t].pc = "idle" THEN [id |-> 0, off |-> 0, sz |-> 0, cur |-> 0]
                ELSE [id |-> ws[t].id, off |-> ws[t].off, sz |-> ws[t].sz,
                      cur |-> ws[t].pos]]

FS == INSTANCE ExtentFile WITH MaxLen <- MaxPos, Writers <- Threads,
        MaxId <- MaxCalls, Unwritten <- JUNK,
        file <- DurableFile, size <- isize, op <- AbsWrites

\* ecryptfs_write on an encrypted file implements the logical file of
\* ExtentFile: through the page cache, read_mapping_page, per-page
\* encryption and page reclaim, the decrypted lower file changes exactly as
\* the page-step walk of spec section 4.2 changes the logical file, and
\* i_size as its size.
RefinesExtentFile == FS!Spec

\* The size of the file never decreases (spec section 3).
SizeMonotone == [][isize' >= isize]_isize
=============================================================================
