---------------------------- MODULE CritSection ----------------------------
(***************************************************************************)
(* RTL_CRITICAL_SECTION (dlls/ntdll/sync.c).  LockCount, starting at -1,   *)
(* is changed by interlocked operations and decides who owns the section;  *)
(* a thread that finds it taken waits for a token in LockSemaphore, which  *)
(* the leaving owner puts there.  Every interlocked operation, and every   *)
(* plain access another thread can observe, is a step of its own.          *)
(*                                                                         *)
(* LockSemaphore holds the handle of a kernel semaphore with a maximum of  *)
(* one after MakeCriticalSectionGlobal (dlls/kernel32/sync.c), and is      *)
(* itself the token otherwise.                                             *)
(*                                                                         *)
(* RtlExitUserProcess kills every other thread, wherever it is, and sets   *)
(* process_detaching; from then on RtlpWaitForCriticalSection does not     *)
(* wait.                                                                   *)
(***************************************************************************)
EXTENDS Integers, FiniteSets, AddressWait, Threads

CONSTANTS MaxDepth,         \* bound on recursive entries of a thread
          MayExit           \* whether a thread may call RtlExitUserProcess

ASSUME CritSectionAssumption ==
    /\ IsFiniteSet(Thread) /\ NoThread \notin Thread
    /\ MaxDepth \in Nat \ {0}
    /\ MayExit \in BOOLEAN

VARIABLES LockCount, RecursionCount, OwningThread,
          hasSemaphore,     \* what get_semaphore finds in LockSemaphore
          LockSemaphore,    \* the token: the 0/1 word, or the semaphore's count
          queue,            \* sleepers of RtlWaitOnAddress
          pc, depth,        \* where a thread is; how often it has entered
          detaching         \* process_detaching

vars == <<LockCount, RecursionCount, OwningThread, hasSemaphore, LockSemaphore,
          queue, pc, depth, detaching>>
fields == <<LockCount, RecursionCount, OwningThread, LockSemaphore>>
flags == <<detaching, hasSemaphore>>

SemAddr == "LockSemaphore"

Move(t, from, to) == pc[t] = from /\ pc' = [pc EXCEPT ![t] = to]

\* RtlInitializeCriticalSectionEx, MakeCriticalSectionGlobal
Init ==
    /\ hasSemaphore \in BOOLEAN
    /\ LockCount = -1
    /\ RecursionCount = 0
    /\ OwningThread = NoThread
    /\ LockSemaphore = 0
    /\ queue = <<>>
    /\ pc = [t \in Thread |-> "out"]
    /\ depth = [t \in Thread |-> 0]
    /\ detaching = FALSE

-----------------------------------------------------------------------------
(* RtlEnterCriticalSection *)

\* InterlockedIncrement: 0 means the section was free.
Increment(t) ==
    /\ pc[t] \in {"out", "in"}
    /\ depth[t] < MaxDepth
    /\ LockCount' = LockCount + 1
    /\ pc' = [pc EXCEPT ![t] = IF LockCount' = 0 THEN "claim" ELSE "check"]
    /\ UNCHANGED <<RecursionCount, OwningThread, LockSemaphore, queue, depth, flags>>

\* The section was taken: by the caller itself, or by another thread.
CheckOwner(t) ==
    /\ IF OwningThread = t
       THEN /\ Move(t, "check", "in")
            /\ RecursionCount' = RecursionCount + 1
            /\ depth' = [depth EXCEPT ![t] = @ + 1]
       ELSE /\ Move(t, "check", IF detaching THEN "claim" ELSE "tryToken")
            /\ UNCHANGED <<RecursionCount, depth>>
    /\ UNCHANGED <<LockCount, OwningThread, LockSemaphore, queue, flags>>

\* The compare-and-swap of RtlTryEnterCriticalSection and of the spin loop.
SwapFree(t) ==
    /\ LockCount = -1
    /\ LockCount' = 0
    /\ Move(t, "out", "claim")
    /\ UNCHANGED <<RecursionCount, OwningThread, LockSemaphore, queue, depth, flags>>

\* RtlTryEnterCriticalSection by the owner.
TryRecursive(t) ==
    /\ pc[t] = "in"
    /\ OwningThread = t
    /\ depth[t] < MaxDepth
    /\ LockCount' = LockCount + 1
    /\ RecursionCount' = RecursionCount + 1
    /\ depth' = [depth EXCEPT ![t] = @ + 1]
    /\ UNCHANGED <<OwningThread, LockSemaphore, queue, pc, flags>>

Claim(t) ==
    /\ Move(t, "claim", "in")
    /\ OwningThread' = t
    /\ RecursionCount' = 1
    /\ depth' = [depth EXCEPT ![t] = @ + 1]
    /\ UNCHANGED <<LockCount, LockSemaphore, queue, flags>>

-----------------------------------------------------------------------------
(* RtlpWaitForCriticalSection, wait_semaphore *)

\* A token is there: the swap of LockSemaphore, or NtWaitForSingleObject.
TakeToken(t) ==
    /\ Move(t, "tryToken", "claim")
    /\ LockSemaphore > 0
    /\ LockSemaphore' = LockSemaphore - 1
    /\ UNCHANGED <<LockCount, RecursionCount, OwningThread, queue, depth, flags>>

NoToken(t) ==
    /\ ~hasSemaphore
    /\ Move(t, "tryToken", "compare")
    /\ LockSemaphore = 0
    /\ UNCHANGED <<fields, queue, depth, flags>>

\* RtlWaitOnAddress(lock, &zero)
SleepOnToken(t) ==
    /\ IF LockSemaphore = 0
       THEN /\ Move(t, "compare", "asleep")
            /\ queue' = AddWaiter(queue, t, SemAddr)
       ELSE /\ Move(t, "compare", "tryToken")
            /\ UNCHANGED queue
    /\ UNCHANGED <<fields, depth, flags>>

Woken(t) ==
    /\ Move(t, "asleep", "tryToken")
    /\ ~IsQueued(queue, t)
    /\ UNCHANGED <<fields, queue, depth, flags>>

\* The five-second timeout, or a stale alert: the wait is simply retried.
TimedOut(t) ==
    /\ Move(t, "asleep", "tryToken")
    /\ IsQueued(queue, t)
    /\ queue' = RemoveWaiter(queue, t)
    /\ UNCHANGED <<fields, depth, flags>>

-----------------------------------------------------------------------------
(* RtlLeaveCriticalSection, RtlpUnWaitCriticalSection *)

LeaveRecursive(t) ==
    /\ pc[t] = "in"
    /\ RecursionCount > 1
    /\ RecursionCount' = RecursionCount - 1
    /\ LockCount' = LockCount - 1
    /\ depth' = [depth EXCEPT ![t] = @ - 1]
    /\ UNCHANGED <<OwningThread, LockSemaphore, queue, pc, flags>>

LeaveLast(t) ==
    /\ Move(t, "in", "decrement")
    /\ RecursionCount = 1
    /\ RecursionCount' = 0
    /\ OwningThread' = NoThread
    /\ depth' = [depth EXCEPT ![t] = 0]
    /\ UNCHANGED <<LockCount, LockSemaphore, queue, flags>>

\* Mutant: posts a token when nobody waits.
DecrementPostsAlways(t) ==
    /\ LockCount' = LockCount - 1
    /\ Move(t, "decrement", "post")
    /\ UNCHANGED <<RecursionCount, OwningThread, LockSemaphore, queue, depth, flags>>

Decrement(t) ==
    /\ LockCount' = LockCount - 1
    /\ Move(t, "decrement", IF LockCount' >= 0 THEN "post" ELSE "out")
    /\ UNCHANGED <<RecursionCount, OwningThread, LockSemaphore, queue, depth, flags>>

\* Mutant: leaves the sleeper asleep.
PostWithoutWake(t) ==
    /\ Move(t, "post", "out")
    /\ LockSemaphore' = 1
    /\ UNCHANGED <<LockCount, RecursionCount, OwningThread, queue, depth, flags>>

\* NtReleaseSemaphore fails at its maximum of one, and RtlRaiseStatus unwinds the
\* caller, which has left the section; InterlockedExchange overwrites.
Post(t) ==
    /\ Move(t, "post", IF hasSemaphore THEN "out" ELSE "wake")
    /\ LockSemaphore' = 1
    /\ UNCHANGED <<LockCount, RecursionCount, OwningThread, queue, depth, flags>>

\* Mutant: the owner field is cleared last.
WakeThenDisown(t) ==
    /\ Move(t, "wake", "out")
    /\ queue' = WakeAddressSingle(queue, SemAddr)
    /\ OwningThread' = NoThread
    /\ UNCHANGED <<LockCount, RecursionCount, LockSemaphore, depth, flags>>

Wake(t) ==
    /\ Move(t, "wake", "out")
    /\ queue' = WakeAddressSingle(queue, SemAddr)
    /\ UNCHANGED <<fields, depth, flags>>

-----------------------------------------------------------------------------
\* RtlExitUserProcess, LdrShutdownProcess: the caller alone survives.
ExitProcess(t) ==
    /\ MayExit /\ ~detaching
    /\ pc[t] \in {"out", "in"}
    /\ pc' = [u \in Thread |-> IF u = t THEN pc[u] ELSE "dead"]
    /\ queue' = <<>>
    /\ detaching' = TRUE
    /\ UNCHANGED <<fields, depth, hasSemaphore>>

Continue(t) ==
    \/ CheckOwner(t) \/ Claim(t) \/ TakeToken(t) \/ NoToken(t) \/ SleepOnToken(t)
    \/ Woken(t) \/ LeaveRecursive(t) \/ LeaveLast(t) \/ Decrement(t) \/ Post(t) \/ Wake(t)

Next ==
    \E t \in Thread :
        \/ Increment(t) \/ SwapFree(t) \/ TryRecursive(t) \/ TimedOut(t)
        \/ Continue(t) \/ ExitProcess(t)

Spec == Init /\ [][Next]_vars

-----------------------------------------------------------------------------
Locations == {"out", "check", "claim", "in", "tryToken", "compare", "asleep",
              "decrement", "post", "wake", "dead"}

\* A thread that owns the section: from the moment LockCount or a token gives it
\* the section until it gives the section up.
Owns(t) == pc[t] \in {"claim", "in", "decrement"} \/ (pc[t] = "check" /\ OwningThread = t)
Waits(t) == pc[t] \in {"check", "tryToken", "compare", "asleep"} /\ ~Owns(t)

\* At most one thread owns the section, whatever waits, times out or gives up;
\* after process_detaching the survivor enters without waiting and is alone.
MutualExclusion == \A t, u \in Thread : Owns(t) /\ Owns(u) => t = u

\* While a thread is in the section its fields describe it: they are written
\* without interlocked operations and read by every thread that enters.
FieldsOfOwner ==
    \A t \in Thread :
        pc[t] = "in" => OwningThread = t /\ RecursionCount = depth[t]

\* The token word is overwritten, and the semaphore is full at one, so a token must
\* never be posted while another is there: RtlpUnWaitCriticalSection would lose it
\* or raise an exception in the thread that leaves.
TokenNotLost ==
    ~detaching =>
        \A t \in Thread : pc[t] = "post" => LockSemaphore = 0

\* As long as threads wait, one after another gets the section, without help from
\* the five-second timeout of RtlpWaitForCriticalSection; only a process exit ends
\* the waiting otherwise.
WaitersServed ==
    (\E t \in Thread : Waits(t)) ~> (detaching \/ \E t \in Thread : pc[t] = "claim")
=============================================================================
