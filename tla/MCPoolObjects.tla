---------------------------- MODULE MCPoolObjects ----------------------------
(***************************************************************************)
(* The thread pool and the three kinds of objects with a queue of their    *)
(* own in dlls/ntdll/threadpool.c.  The queues share nothing but the       *)
(* workers, so a behaviour is one of the part that inUse names, and the    *)
(* others stay as they were created.                                       *)
(***************************************************************************)
EXTENDS MCThreadPool, PoolTimer, PoolWait, PoolIo

CONSTANTS x, y      \* two timers, waits or I/O objects

\* One-shot and periodic timers; a window that spans two timeouts.
MCSetting ==
    {[timeout |-> 0, period |-> 0, window |-> 0], [timeout |-> 0, period |-> 1, window |-> 0],
     [timeout |-> 1, period |-> 0, window |-> 2], [timeout |-> 2, period |-> 1, window |-> 0],
     [timeout |-> 4, period |-> 0, window |-> 0]}

VARIABLE inUse

poolState == <<pool, items, object, group, csOwner, pc, cur, n, ret, instance, todo, usable>>
objectVars == <<vars, timerVars, waitVars, ioVars, inUse>>

ObjectsInit ==
    /\ inUse \in {"pool", "timers", "waits", "io"}
    /\ Init /\ TimerInit /\ WaitInit /\ IoInit
    \* Wait objects that are not used have one initial state.
    /\ inUse # "waits" => bucketList = <<>>

ObjectsNext ==
    /\ UNCHANGED inUse
    /\ \/ /\ inUse = "pool" /\ Next
          /\ UNCHANGED <<timerState, now, waitVars, ioState>>
       \/ /\ inUse = "timers" /\ TimerNext
          /\ UNCHANGED <<poolState, waitVars, ioState>>
       \/ /\ inUse = "waits" /\ WaitNext
          /\ UNCHANGED <<poolState, timerVars, ioState>>
       \/ /\ inUse = "io" /\ IoNext
          /\ UNCHANGED <<poolState, timerState, now, waitVars>>

ObjectsSpec == ObjectsInit /\ [][ObjectsNext]_objectVars
=============================================================================
