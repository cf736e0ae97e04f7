------------------------------- MODULE System -------------------------------
(***************************************************************************)
(* The engines the file operations of this eCryptfs build call, composed  *)
(* over one inode: every thread of Threads runs one call at a time, an    *)
(* ecryptfs_write2 or an ecryptfs_read2, and threads run concurrently     *)
(* (spec section 5: each call runs on its caller's thread, and pages are  *)
(* the only thing the engines lock).  The kernel may reclaim any clean,   *)
(* unlocked, unreferenced page at any time.                              *)
(***************************************************************************)
EXTENDS Write2, Read2

vars == <<inodeVars, calls, lastWrite, w2, r2, lastRead>>

Init == InodeInit /\ W2Init /\ R2Init

ThreadIdle(t) == w2[t].pc = "idle" /\ r2[t].pc = "idle"

\* Thread t makes no further step: it crashed, or has returned and no
\* calls are left to make.
Stopped(t) == r2[t].pc = "oops" \/ w2[t].pc = "oops" \/ (ThreadIdle(t) /\ calls = MaxCalls)

\* Every thread has stopped: the system may stop.
Finished == (\A t \in Threads : Stopped(t)) /\ UNCHANGED vars

\* A step of thread t: of its write call, or of its read call.
ThreadNext(t) ==
    \/ r2[t].pc = "idle" /\ W2Next(t) /\ UNCHANGED readVars
    \/ w2[t].pc = "idle" /\ R2Next(t) /\ UNCHANGED w2

Next ==
    \/ \E t \in Threads : ThreadNext(t)
    \/ \E p \in Pages : Evict(p) /\ UNCHANGED <<w2, r2, lastRead>>
    \/ Finished

\* A call that can take a step keeps taking steps: the thread running it
\* is scheduled (the only waits are page locks and the collaborators).
Fairness == \A t \in Threads : WF_vars(ThreadNext(t))

Spec == Init /\ [][Next]_vars /\ Fairness
=============================================================================
