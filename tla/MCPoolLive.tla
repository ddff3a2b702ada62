----------------------------- MODULE MCPoolLive -----------------------------
(***************************************************************************)
(* What must happen in the end, in a thread pool and in a timer queue of   *)
(* dlls/ntdll/threadpool.c: a behaviour is one of the part that inUse      *)
(* names, and the other stays as it was created.                           *)
(***************************************************************************)
EXTENDS MCThreadPool, TimerQueue

CONSTANTS x, y      \* two timers

VARIABLE inUse

liveVars == <<vars, queueVars, inUse>>

LiveInit ==
    /\ inUse \in {"pool", "timer queue"}
    /\ Init /\ QueueInit

LiveNext ==
    /\ UNCHANGED inUse
    /\ \/ inUse = "pool" /\ Next /\ UNCHANGED queueVars
       \/ inUse = "timer queue" /\ QueueNext /\ UNCHANGED vars

\* pool->cs is granted to every thread that keeps trying to enter it, callbacks
\* return, and a worker that is not woken is timed out (as in FairSpec of
\* ThreadPool).  The threads of a timer queue that are runnable run, and time
\* passes.
LiveFairness ==
    /\ \A w \in Worker : /\ SF_vars(inUse = "pool" /\ WorkerStep(w))
                         /\ WF_vars(inUse = "pool" /\ Timeout(w))
    /\ \A c \in Client : SF_vars(inUse = "pool" /\ ClientStep(c))
    /\ WF_queueVars(inUse = "timer queue" /\ ThreadStep)
    /\ WF_queueVars(inUse = "timer queue" /\ DeleteStep)
    /\ WF_queueVars(inUse = "timer queue" /\ QueueTick)
    /\ \A t \in QueueTimer : WF_queueVars(inUse = "timer queue" /\ CallbackInPool(t))

LiveSpec == LiveInit /\ [][LiveNext]_liveVars /\ LiveFairness
=============================================================================
