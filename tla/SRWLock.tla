------------------------------ MODULE SRWLock ------------------------------
(***************************************************************************)
(* The slim reader/writer lock of ntdll (dlls/ntdll/sync.c).  The lock is  *)
(* a 32-bit word of two 16-bit halves, changed only by compare-and-swap    *)
(* loops, and threads sleep on one of two addresses: exclusive waiters on  *)
(* "owners", shared waiters on the whole structure.  A compare-and-swap    *)
(* loop is one step: it takes effect when the swap succeeds, on the value  *)
(* it read.  The swap, the comparison made by RtlWaitOnAddress and the     *)
(* wake that follows a release are separate steps.                         *)
(***************************************************************************)
EXTENDS Integers, FiniteSets, AddressWait

CONSTANTS Thread,       \* threads using the lock
          Writer,       \* threads that take it exclusive
          Reader,       \* threads that take it shared
          Wrap          \* a short holds 0 .. Wrap-1; 2^16 in the build

\* RtlInitializeSRWLock documents "limited to 2^15-1 waiting threads".
ASSUME SRWAssumption ==
    /\ IsFiniteSet(Thread)
    /\ Writer \subseteq Thread /\ Reader \subseteq Thread
    /\ Wrap \in Nat /\ Wrap % 2 = 0
    /\ 2 * Cardinality(Thread) < Wrap

VARIABLES exclusive_waiters,    \* bit 0: held exclusive; above: exclusive waiters
          owners,               \* number of owners
          pc,                   \* where each thread is
          cmp,                  \* value a waiter passes to RtlWaitOnAddress
          queue                 \* sleepers

vars == <<exclusive_waiters, owners, pc, cmp, queue>>

\* The two addresses slept on.
OwnersAddr == "owners"
LockAddr == "lock"

Locations == {"idle", "exclTry", "exclCmp", "exclSleep", "excl", "sharedTry",
              "sharedCmp", "sharedSleep", "shared", "wakeOne", "wakeAll"}

Add16(x, d) == (x + d) % Wrap
SetBit0(x) == IF x % 2 = 0 THEN x + 1 ELSE x
ClearBit0(x) == x - (x % 2)

Init ==
    /\ exclusive_waiters = 0
    /\ owners = 0
    /\ pc = [t \in Thread |-> "idle"]
    /\ cmp = [t \in Thread |-> <<0, 0>>]
    /\ queue = <<>>

Move(t, from, to) == pc[t] = from /\ pc' = [pc EXCEPT ![t] = to]

-----------------------------------------------------------------------------
(* RtlAcquireSRWLockExclusive *)

\* InterlockedExchangeAdd16: the thread announces itself before it tries.
AnnounceExclusive(t) ==
    /\ Move(t, "idle", "exclTry")
    /\ exclusive_waiters' = Add16(exclusive_waiters, 2)
    /\ UNCHANGED <<owners, cmp, queue>>

\* Mutant: looks only at the exclusive bit.
GrabExclusiveBit0(t) ==
    /\ Move(t, "exclTry", "excl")
    /\ exclusive_waiters % 2 = 0
    /\ owners' = 1
    /\ exclusive_waiters' = SetBit0(Add16(exclusive_waiters, -2))
    /\ UNCHANGED <<cmp, queue>>

\* Mutant: stays counted as a waiter.
GrabExclusiveStillWaiting(t) ==
    /\ Move(t, "exclTry", "excl")
    /\ owners = 0
    /\ owners' = 1
    /\ exclusive_waiters' = SetBit0(exclusive_waiters)
    /\ UNCHANGED <<cmp, queue>>

GrabExclusive(t) ==
    /\ Move(t, "exclTry", "excl")
    /\ owners = 0
    /\ owners' = 1
    /\ exclusive_waiters' = SetBit0(Add16(exclusive_waiters, -2))
    /\ UNCHANGED <<cmp, queue>>

\* The swap stores the same word; the word read is kept for the wait.
FailExclusive(t) ==
    /\ Move(t, "exclTry", "exclCmp")
    /\ owners # 0
    /\ cmp' = [cmp EXCEPT ![t] = <<exclusive_waiters, owners>>]
    /\ UNCHANGED <<exclusive_waiters, owners, queue>>

\* RtlWaitOnAddress(&owners): two bytes are compared.
WaitExclusive(t) ==
    /\ IF owners = cmp[t][2]
       THEN /\ Move(t, "exclCmp", "exclSleep")
            /\ queue' = AddWaiter(queue, t, OwnersAddr)
       ELSE /\ Move(t, "exclCmp", "exclTry")
            /\ UNCHANGED queue
    /\ UNCHANGED <<exclusive_waiters, owners, cmp>>

-----------------------------------------------------------------------------
(* RtlAcquireSRWLockShared *)

CallShared(t) ==
    /\ Move(t, "idle", "sharedTry")
    /\ UNCHANGED <<exclusive_waiters, owners, cmp, queue>>

GrabShared(t) ==
    /\ Move(t, "sharedTry", "shared")
    /\ exclusive_waiters = 0
    /\ owners' = Add16(owners, 1)
    /\ UNCHANGED <<exclusive_waiters, cmp, queue>>

FailShared(t) ==
    /\ Move(t, "sharedTry", "sharedCmp")
    /\ exclusive_waiters # 0
    /\ cmp' = [cmp EXCEPT ![t] = <<exclusive_waiters, owners>>]
    /\ UNCHANGED <<exclusive_waiters, owners, queue>>

\* Mutant: sleeps without comparing.
WaitSharedBlindly(t) ==
    /\ Move(t, "sharedCmp", "sharedSleep")
    /\ queue' = AddWaiter(queue, t, LockAddr)
    /\ UNCHANGED <<exclusive_waiters, owners, cmp>>

\* RtlWaitOnAddress(lock): the whole structure is compared.
WaitShared(t) ==
    /\ IF <<exclusive_waiters, owners>> = cmp[t]
       THEN /\ Move(t, "sharedCmp", "sharedSleep")
            /\ queue' = AddWaiter(queue, t, LockAddr)
       ELSE /\ Move(t, "sharedCmp", "sharedTry")
            /\ UNCHANGED queue
    /\ UNCHANGED <<exclusive_waiters, owners, cmp>>

-----------------------------------------------------------------------------
(* RtlWaitOnAddress returns: woken, or spuriously *)

Return(t) ==
    /\ \/ Move(t, "exclSleep", "exclTry")
       \/ Move(t, "sharedSleep", "sharedTry")
    /\ ~IsQueued(queue, t)
    /\ UNCHANGED <<exclusive_waiters, owners, cmp, queue>>

ReturnSpuriously(t) ==
    /\ \/ Move(t, "exclSleep", "exclTry")
       \/ Move(t, "sharedSleep", "sharedTry")
    /\ IsQueued(queue, t)
    /\ queue' = RemoveWaiter(queue, t)
    /\ UNCHANGED <<exclusive_waiters, owners, cmp>>

-----------------------------------------------------------------------------
(* Releases: the swap, then the wake it decided on *)

ReleaseExclusive(t) ==
    /\ owners' = 0
    /\ exclusive_waiters' = ClearBit0(exclusive_waiters)
    /\ Move(t, "excl", IF exclusive_waiters' # 0 THEN "wakeOne" ELSE "wakeAll")
    /\ UNCHANGED <<cmp, queue>>

\* Mutant: the last reader wakes nobody.
ReleaseSharedSilently(t) ==
    /\ owners' = Add16(owners, -1)
    /\ Move(t, "shared", "idle")
    /\ UNCHANGED <<exclusive_waiters, cmp, queue>>

ReleaseShared(t) ==
    /\ owners' = Add16(owners, -1)
    /\ Move(t, "shared", IF owners' = 0 THEN "wakeOne" ELSE "idle")
    /\ UNCHANGED <<exclusive_waiters, cmp, queue>>

WakeOne(t) ==
    /\ Move(t, "wakeOne", "idle")
    /\ queue' = WakeAddressSingle(queue, OwnersAddr)
    /\ UNCHANGED <<exclusive_waiters, owners, cmp>>

WakeAll(t) ==
    /\ Move(t, "wakeAll", "idle")
    /\ queue' = WakeAddressAll(queue, LockAddr)
    /\ UNCHANGED <<exclusive_waiters, owners, cmp>>

-----------------------------------------------------------------------------
(* The Try variants; a failed try changes nothing *)

TryAcquireExclusive(t) ==
    /\ Move(t, "idle", "excl")
    /\ owners = 0
    /\ owners' = 1
    /\ exclusive_waiters' = SetBit0(exclusive_waiters)
    /\ UNCHANGED <<cmp, queue>>

TryAcquireShared(t) ==
    /\ Move(t, "idle", "shared")
    /\ exclusive_waiters = 0
    /\ owners' = Add16(owners, 1)
    /\ UNCHANGED <<exclusive_waiters, cmp, queue>>

-----------------------------------------------------------------------------
\* The steps a thread takes once it has called an acquire function, up to and
\* including the end of its release.
Continue(t) ==
    \/ GrabExclusive(t) \/ FailExclusive(t) \/ WaitExclusive(t)
    \/ GrabShared(t) \/ FailShared(t) \/ WaitShared(t)
    \/ Return(t)
    \/ ReleaseExclusive(t) \/ ReleaseShared(t) \/ WakeOne(t) \/ WakeAll(t)

Next ==
    \/ \E t \in Writer : AnnounceExclusive(t) \/ TryAcquireExclusive(t)
    \/ \E t \in Reader : CallShared(t) \/ TryAcquireShared(t)
    \/ \E t \in Thread : Continue(t) \/ ReturnSpuriously(t)

Spec == Init /\ [][Next]_vars

\* Every thread is scheduled and every owner eventually releases; nothing
\* obliges a thread to ask for the lock or an alert to be stale.
FairSpec == Spec /\ \A t \in Thread : WF_vars(Continue(t))

-----------------------------------------------------------------------------

\* The threads RtlAcquireSRWLockExclusive has announced and not yet served.
ExclusiveWaiters == {t \in Thread : pc[t] \in {"exclTry", "exclCmp", "exclSleep"}}
ExclusiveOwners == {t \in Thread : pc[t] = "excl"}
SharedOwners == {t \in Thread : pc[t] = "shared"}

\* An exclusive owner is the only owner: RtlAcquireSRWLockExclusive grabs the
\* lock only when it has no owner and RtlAcquireSRWLockShared only when bit 0
\* and the waiter count are zero, whatever was announced or released between.
MutualExclusion ==
    \A t \in ExclusiveOwners : ExclusiveOwners \cup SharedOwners = {t}

\* The word always says who is using the lock: bit 0 and the count above it are
\* the exclusive owner and the exclusive waiters, and "owners" is the number of
\* owners.  Neither half wraps while the documented limit on threads is kept.
WordCountsThreads ==
    /\ exclusive_waiters = 2 * Cardinality(ExclusiveWaiters) + Cardinality(ExclusiveOwners)
    /\ owners = Cardinality(ExclusiveOwners \cup SharedOwners)

\* No wake is lost.  A thread asleep on "owners" while the lock has no owner has
\* an exclusive waiter awake before it or a wake of one on its way; a thread
\* asleep on the structure while no exclusive thread wants the lock has a wake of
\* all on its way.  The releases of RtlReleaseSRWLock* swap first and wake later,
\* and the comparison of RtlWaitOnAddress uses a value read before.
NoStrandedWaiter ==
    \A i \in DOMAIN queue :
        /\ queue[i].addr = OwnersAddr /\ owners = 0 =>
              \/ \E t \in Thread : pc[t] = "wakeOne"
              \/ \E t \in ExclusiveWaiters : ~IsQueued(queue, t)
        /\ queue[i].addr = LockAddr /\ exclusive_waiters = 0 =>
              \E t \in Thread : pc[t] = "wakeAll"

\* Readers that keep coming do not starve the writers: once a writer has announced
\* itself some writer gets the lock.  Which one is not promised, because
\* RtlTryAcquireSRWLockExclusive and a later writer may overtake it.
WritersServed ==
    ExclusiveWaiters # {} ~> ExclusiveOwners # {}
=============================================================================
