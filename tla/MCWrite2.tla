------------------------------ MODULE MCWrite2 ------------------------------
(***************************************************************************)
(* ecryptfs_write2 called by the threads of Threads, MaxCalls times in    *)
(* all, on a file that starts empty, while the kernel may reclaim any     *)
(* clean unreferenced page.  Failures of the collaborators: Faults.       *)
(***************************************************************************)
EXTENDS Write2, WriteContract

vars == <<inodeVars, calls, lastWrite, w2>>

Init == InodeInit /\ W2Init

\* Every thread has stopped (returned with no calls left, or oopsed): the
\* system may stop.
Finished ==
    /\ \A t \in Threads : w2[t].pc = "oops" \/ (w2[t].pc = "idle" /\ calls = MaxCalls)
    /\ UNCHANGED vars

Next ==
    \/ \E t \in Threads : W2Next(t)
    \/ \E p \in Pages : Evict(p) /\ UNCHANGED w2
    \/ Finished

Spec == Init /\ [][Next]_vars

TypeOK == InodeTypeOK /\ W2TypeOK

AllIdle == \A t \in Threads : w2[t].pc = "idle"

\* On an encrypted file, after ecryptfs_write2 returns 0 and before any
\* other call, a read through the page cache returns the caller's buffer
\* at [offset, offset + size): every page the walk filled stays referenced
\* in pgs until ecryptfs_encrypt_pages2 has written it to the lower file, so
\* it is cached up to date or encrypted whenever it can be reclaimed.
\* (A plaintext file fails this through ecryptfs_write_lower_page_segment,
\* which writes from the page base; see README.)
CachedReadBack == mode = "encrypted" => CachedReadBackIn(AllIdle)

\* Every byte below i_size has content somebody wrote: ecryptfs_write2
\* raises i_size to offset + size after the batch encryption, whatever it
\* returned and whichever pages it covered (spec section 9).
NoGarbageBelowSize == NoGarbageBelowSizeIn

\* ecryptfs_write2 returns an error whenever the batch encryption, a page
\* lookup, a lower write or the metadata update failed during the call.
ErrorsReported == ErrorsReportedIn

=============================================================================
