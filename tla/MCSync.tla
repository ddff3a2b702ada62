------------------------------- MODULE MCSync -------------------------------
(***************************************************************************)
(* The synchronization primitives of dlls/ntdll/sync.c that do not rest on *)
(* SRWLock, each in its own small world: a behaviour is one of the         *)
(* primitive that inUse names, and the others stay as they were created.   *)
(***************************************************************************)
EXTENDS CritSection, RunOnce, SList, Resource

CONSTANTS t1, t2

\* One slow thread, and one that can flush the list and push the first entry again
\* before another one, so that the first entry and the depth are as they were.
MCMaxCalls == [t \in User |-> IF t = t1 THEN 1 ELSE 2]

VARIABLE inUse

syncVars == <<vars, onceVars, slistVars, resourceVars, inUse>>

SyncInit ==
    /\ inUse \in {"critical section", "run once", "slist", "resource"}
    /\ Init /\ OnceInit /\ SListInit /\ ResourceInit
    \* An unused list has one initial state, and so has an unused section.
    /\ inUse # "slist" => header.first = NoEntry /\ entryOwner[t1] = Entry
    /\ inUse # "critical section" => ~hasSemaphore

SyncNext ==
    /\ UNCHANGED inUse
    /\ \/ /\ inUse = "critical section" /\ Next
          /\ UNCHANGED <<onceVars, slistVars, resourceVars>>
       \/ /\ inUse = "run once" /\ OnceNext
          /\ UNCHANGED <<vars, slistVars, resourceVars>>
       \/ /\ inUse = "slist" /\ SListNext
          /\ UNCHANGED <<vars, onceVars, resourceVars>>
       \/ /\ inUse = "resource" /\ ResourceNext
          /\ UNCHANGED <<vars, onceVars, slistVars>>

\* A runnable thread runs.  One in the critical section, however often it enters
\* recursively, leaves it in the end; an initialization function returns.
SyncFairness ==
    /\ \A t \in Thread : /\ WF_vars(inUse = "critical section" /\ Continue(t))
                         /\ SF_vars(inUse = "critical section" /\ LeaveLast(t))
    /\ \A t \in Caller : WF_onceVars(inUse = "run once" /\ OnceContinue(t))

SyncSpec == SyncInit /\ [][SyncNext]_syncVars /\ SyncFairness
=============================================================================
