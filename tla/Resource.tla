----------------------------- MODULE Resource -----------------------------
(***************************************************************************)
(* RTL_RWLOCK, the readers-writer lock of RtlAcquireResourceExclusive,     *)
(* RtlAcquireResourceShared and RtlReleaseResource (dlls/ntdll/sync.c).    *)
(* Its fields are accessed under rtlCS, a critical section (CritSection),  *)
(* so each visit to it is one step; a thread leaves it before it waits on  *)
(* one of the two semaphores, and starts over when it has been woken.      *)
(*                                                                         *)
(* Clients release what they hold, and a thread that holds the lock shared *)
(* does not wait for it exclusively.  A thread holds at most one share: to *)
(* this code, a second one is that of another thread.  Calls that do not   *)
(* wait and fail change nothing.                                           *)
(***************************************************************************)
EXTENDS Integers, FiniteSets, Threads

CONSTANT MaxResourceDepth   \* bound on recursive acquisitions by the writer

ASSUME ResourceAssumption ==
    /\ IsFiniteSet(Thread) /\ NoThread \notin Thread
    /\ MaxResourceDepth \in Nat \ {0}

VARIABLES iNumberActive, uExclusiveWaiters, uSharedWaiters, hOwningThreadId,
          exclusiveSemaphore, sharedSemaphore,  \* hExclusive-, hSharedReleaseSemaphore
          resourcePc,
          resourceDepth     \* how often a thread holds the lock

waiterCounts == <<uExclusiveWaiters, uSharedWaiters>>
semaphores == <<exclusiveSemaphore, sharedSemaphore>>
resourceVars == <<iNumberActive, waiterCounts, hOwningThreadId, semaphores, resourcePc, resourceDepth>>

\* RtlInitializeResource
ResourceInit ==
    /\ iNumberActive = 0
    /\ uExclusiveWaiters = 0 /\ uSharedWaiters = 0
    /\ hOwningThreadId = NoThread
    /\ exclusiveSemaphore = 0 /\ sharedSemaphore = 0
    /\ resourcePc = [t \in Thread |-> "none"]
    /\ resourceDepth = [t \in Thread |-> 0]

ResourceLocations ==
    {"none", "exclusive", "shared", "waitExclusive", "retryExclusive", "waitShared", "retryShared"}

ResourceGoto(t, to) == resourcePc' = [resourcePc EXCEPT ![t] = to]

-----------------------------------------------------------------------------
(* RtlAcquireResourceExclusive *)

\* The lock is free.
TakeExclusive(t) ==
    /\ resourcePc[t] \in {"none", "retryExclusive"}
    /\ iNumberActive = 0
    /\ iNumberActive' = -1
    /\ hOwningThreadId' = t
    /\ resourceDepth' = [resourceDepth EXCEPT ![t] = 1]
    /\ ResourceGoto(t, "exclusive")
    /\ UNCHANGED <<waiterCounts, semaphores>>

\* The owner again; RtlAcquireResourceShared does the same.
TakeRecursive(t) ==
    /\ resourcePc[t] = "exclusive"
    /\ iNumberActive < 0 /\ hOwningThreadId = t
    /\ resourceDepth[t] < MaxResourceDepth
    /\ iNumberActive' = iNumberActive - 1
    /\ resourceDepth' = [resourceDepth EXCEPT ![t] = @ + 1]
    /\ UNCHANGED <<waiterCounts, hOwningThreadId, semaphores, resourcePc>>

\* Mutant: a thread that was woken is not counted again.
AwaitExclusiveUncounted(t) ==
    /\ resourcePc[t] \in {"none", "retryExclusive"}
    /\ iNumberActive # 0 /\ hOwningThreadId # t
    /\ uExclusiveWaiters' = IF resourcePc[t] = "none" THEN uExclusiveWaiters + 1 ELSE uExclusiveWaiters
    /\ ResourceGoto(t, "waitExclusive")
    /\ UNCHANGED <<iNumberActive, uSharedWaiters, hOwningThreadId, semaphores, resourceDepth>>

\* Taken: counted, then on to the semaphore.
AwaitExclusive(t) ==
    /\ resourcePc[t] \in {"none", "retryExclusive"}
    /\ iNumberActive # 0 /\ hOwningThreadId # t
    /\ uExclusiveWaiters' = uExclusiveWaiters + 1
    /\ ResourceGoto(t, "waitExclusive")
    /\ UNCHANGED <<iNumberActive, uSharedWaiters, hOwningThreadId, semaphores, resourceDepth>>

\* NtWaitForSingleObject( hExclusiveReleaseSemaphore ): any waiter may get the count.
ExclusiveWoken(t) ==
    /\ resourcePc[t] = "waitExclusive"
    /\ exclusiveSemaphore > 0
    /\ exclusiveSemaphore' = exclusiveSemaphore - 1
    /\ ResourceGoto(t, "retryExclusive")
    /\ UNCHANGED <<iNumberActive, waiterCounts, hOwningThreadId, sharedSemaphore, resourceDepth>>

-----------------------------------------------------------------------------
(* RtlAcquireResourceShared *)

\* Mutant: a woken reader counts itself, although the writer has counted it.
TakeSharedTwice(t) ==
    /\ resourcePc[t] \in {"none", "retryShared"}
    /\ iNumberActive >= 0
    /\ iNumberActive' = iNumberActive + 1
    /\ resourceDepth' = [resourceDepth EXCEPT ![t] = 1]
    /\ ResourceGoto(t, "shared")
    /\ UNCHANGED <<waiterCounts, hOwningThreadId, semaphores>>

\* A reader that was woken has been counted by RtlReleaseResource.
TakeShared(t) ==
    /\ resourcePc[t] \in {"none", "retryShared"}
    /\ iNumberActive >= 0
    /\ iNumberActive' = IF resourcePc[t] = "retryShared" THEN iNumberActive ELSE iNumberActive + 1
    /\ resourceDepth' = [resourceDepth EXCEPT ![t] = 1]
    /\ ResourceGoto(t, "shared")
    /\ UNCHANGED <<waiterCounts, hOwningThreadId, semaphores>>

AwaitShared(t) ==
    /\ resourcePc[t] \in {"none", "retryShared"}
    /\ iNumberActive < 0 /\ hOwningThreadId # t
    /\ uSharedWaiters' = uSharedWaiters + 1
    /\ ResourceGoto(t, "waitShared")
    /\ UNCHANGED <<iNumberActive, uExclusiveWaiters, hOwningThreadId, semaphores, resourceDepth>>

\* NtWaitForSingleObject( hSharedReleaseSemaphore )
SharedWoken(t) ==
    /\ resourcePc[t] = "waitShared"
    /\ sharedSemaphore > 0
    /\ sharedSemaphore' = sharedSemaphore - 1
    /\ ResourceGoto(t, "retryShared")
    /\ UNCHANGED <<iNumberActive, waiterCounts, hOwningThreadId, exclusiveSemaphore, resourceDepth>>

-----------------------------------------------------------------------------
(* RtlReleaseResource *)

\* One waiting writer is let through.
WakeWriter ==
    /\ uExclusiveWaiters > 0
    /\ uExclusiveWaiters' = uExclusiveWaiters - 1
    /\ exclusiveSemaphore' = exclusiveSemaphore + 1
    /\ UNCHANGED <<uSharedWaiters, sharedSemaphore>>

ReleaseShared(t) ==
    /\ resourcePc[t] = "shared"
    /\ iNumberActive > 0
    /\ iNumberActive' = iNumberActive - 1
    /\ resourceDepth' = [resourceDepth EXCEPT ![t] = 0]
    /\ ResourceGoto(t, "none")
    /\ IF iNumberActive' = 0 /\ uExclusiveWaiters > 0
       THEN WakeWriter ELSE UNCHANGED <<waiterCounts, semaphores>>
    /\ UNCHANGED hOwningThreadId

ReleaseRecursive(t) ==
    /\ resourcePc[t] = "exclusive"
    /\ iNumberActive < -1
    /\ iNumberActive' = iNumberActive + 1
    /\ resourceDepth' = [resourceDepth EXCEPT ![t] = @ - 1]
    /\ UNCHANGED <<waiterCounts, hOwningThreadId, semaphores, resourcePc>>

\* A waiting writer comes first; otherwise every waiting reader is let through, and
\* is counted at once so that no writer gets in before it.
ReleaseExclusive(t) ==
    /\ resourcePc[t] = "exclusive"
    /\ iNumberActive = -1
    /\ hOwningThreadId' = NoThread
    /\ resourceDepth' = [resourceDepth EXCEPT ![t] = 0]
    /\ ResourceGoto(t, "none")
    /\ \/ WakeWriter /\ iNumberActive' = 0
       \/ /\ uExclusiveWaiters = 0
          /\ iNumberActive' = uSharedWaiters
          /\ sharedSemaphore' = sharedSemaphore + uSharedWaiters
          /\ uSharedWaiters' = 0
          /\ UNCHANGED <<uExclusiveWaiters, exclusiveSemaphore>>

ResourceNext ==
    \E t \in Thread :
        \/ TakeExclusive(t) \/ TakeRecursive(t) \/ AwaitExclusive(t) \/ ExclusiveWoken(t)
        \/ TakeShared(t) \/ AwaitShared(t) \/ SharedWoken(t)
        \/ ReleaseShared(t) \/ ReleaseRecursive(t) \/ ReleaseExclusive(t)

ResourceSpec == ResourceInit /\ [][ResourceNext]_resourceVars

-----------------------------------------------------------------------------
At(loc) == {t \in Thread : resourcePc[t] = loc}
CountAt(loc) == Cardinality(At(loc))

\* iNumberActive counts exactly: the shares that are held, those of readers that
\* have been woken and have not come back to the lock yet, and those whose wake is
\* still in the semaphore; or, negative, how often the writer holds the lock.  So a
\* writer is alone, and woken readers never find a writer ahead of them.
ResourceCounted ==
    \/ /\ iNumberActive = CountAt("shared") + CountAt("retryShared") + sharedSemaphore
       /\ At("exclusive") = {} /\ hOwningThreadId = NoThread
    \/ /\ iNumberActive < 0
       /\ At("exclusive") = {hOwningThreadId} /\ resourceDepth[hOwningThreadId] = -iNumberActive
       /\ At("shared") \cup At("retryShared") = {} /\ sharedSemaphore = 0

\* Nobody is left behind: every wait is counted, in a waiter count or in a
\* semaphore, even when a newcomer takes the wake meant for another; a writer waits
\* only while the lock is held or another writer has been woken, and a reader only
\* while there is a writer that will release the lock to it.
ResourceHope ==
    LET writerWoken == exclusiveSemaphore > 0 \/ At("retryExclusive") # {}
    IN  /\ uExclusiveWaiters + exclusiveSemaphore = CountAt("waitExclusive")
        /\ uSharedWaiters + sharedSemaphore = CountAt("waitShared")
        /\ uExclusiveWaiters > 0 => iNumberActive # 0 \/ writerWoken
        /\ uSharedWaiters > 0 => iNumberActive < 0 \/ writerWoken \/ uExclusiveWaiters > 0
=============================================================================
