----------------------------- MODULE PoolTimer ------------------------------
(***************************************************************************)
(* The timer objects of the thread pool and the thread that serves them    *)
(* all, timerqueue_thread_proc (dlls/ntdll/threadpool.c).                  *)
(*                                                                         *)
(* The thread keeps timerqueue.cs for a whole iteration of its loop, which *)
(* is one step here, and gives it up only in RtlSleepConditionVariableCS   *)
(* (CondVar).  A timer that expires is submitted to its pool               *)
(* (tp_object_submit, module ThreadPool): callbacks counts its pending     *)
(* callbacks.  timer_pending is membership in pendingTimers.               *)
(***************************************************************************)
EXTENDS Clock, FiniteSets, CondVar, FiniteSetsExt

CONSTANTS PoolTimers,
          TimerThread,  \* the thread of timerqueue_thread_proc
          Setting,      \* arguments of TpSetTimer: timeout, period, window
          MaxCallbacks  \* bound on a timer's pending callbacks

ASSUME PoolTimerAssumption ==
    /\ Setting \subseteq [timeout : Nat, period : Nat, window : Nat] /\ Setting # {} /\ IsFiniteSet(Setting)
    /\ \A s \in Setting : MaxTime + s.timeout < Never

VARIABLES pendingTimers,    \* timerqueue.pending_timers
          timerObject,      \* what struct threadpool_object says of each timer
          timerObjcount,    \* timerqueue.objcount
          threadRunning,    \* timerqueue.thread_running
          timerPc, deadline,
          callbacks

timerState == <<pendingTimers, timerObject, timerObjcount, threadRunning, timerPc, deadline, callbacks>>
timerVars == <<timerState, seen, queue, now>>

NoTimerObject == [state |-> "none", timeout |-> 0, period |-> 0, window |-> 0]
\* A timer that is not pending; its old timeout is not read again.
Unset == [NoTimerObject EXCEPT !.state = "live"]
TimerUpdate == <<"timerqueue.update_event">>

TimerInit ==
    /\ pendingTimers = <<>>
    /\ timerObject = [t \in PoolTimers |-> NoTimerObject]
    /\ timerObjcount = 0 /\ threadRunning = FALSE
    /\ timerPc = "absent" /\ deadline = 0
    /\ callbacks = [t \in PoolTimers |-> 0]
    /\ now = 0

-----------------------------------------------------------------------------
(* timerqueue_thread_proc *)

\* Adds t to the list, before the first timer with a later timeout.
AddPending(list, obj, t) ==
    LET later == {i \in DOMAIN list : obj[t].timeout < obj[list[i]].timeout}
    IN  InsertAt(list, IF later = {} THEN Len(list) + 1 ELSE Min(later), t)

Expired == SelectSeq(pendingTimers, LAMBDA t : timerObject[t].timeout <= now)

\* The next timeout of a periodic timer that has expired is always later than now.
NextTimeout(t) ==
    LET next == timerObject[t].timeout + timerObject[t].period IN IF next <= now THEN now + 1 ELSE next

\* Whether a timer that expires goes back into the queue.
Periodic(t) == timerObject[t].period > 0

\* "Check for expired timers.": the records and the list after the loop.
AfterExpiry ==
    [t \in PoolTimers |-> IF t \in ToSet(Expired) /\ Periodic(t)
                          THEN [timerObject[t] EXCEPT !.timeout = NextTimeout(t)]
                          ELSE IF t \in ToSet(Expired) THEN Unset ELSE timerObject[t]]
StillPending ==
    FoldLeft(LAMBDA list, t : IF Periodic(t) THEN AddPending(list, AfterExpiry, t) ELSE list,
             SelectSeq(pendingTimers, LAMBDA t : t \notin ToSet(Expired)), Expired)

\* "Determine next timeout and use the window length to optimize wakeup times."
NextWakeup(list, obj) ==
    FoldLeft(LAMBDA b, t : IF obj[t].timeout >= b.upper THEN b
                           ELSE [lower |-> obj[t].timeout,
                                 upper |-> Min({b.upper, obj[t].timeout + obj[t].window})],
             [lower |-> Never, upper |-> Never], list).lower

\* One iteration, up to the sleep.
ServeTimers ==
    /\ timerPc = "loop"
    /\ \A t \in ToSet(Expired) : callbacks[t] < MaxCallbacks
    /\ callbacks' = [t \in PoolTimers |-> IF t \in ToSet(Expired) THEN callbacks[t] + 1 ELSE callbacks[t]]
    /\ timerObject' = AfterExpiry
    /\ pendingTimers' = StillPending
    /\ timerPc' = IF timerObjcount > 0 THEN "compare" ELSE "idleCompare"
    /\ deadline' = IF timerObjcount > 0 THEN NextWakeup(pendingTimers', timerObject') ELSE Never
    /\ BeginSleep(TimerThread, TimerUpdate)
    /\ UNCHANGED <<timerObjcount, threadRunning, now>>

\* RtlWaitOnAddress
TimerCompares ==
    /\ timerPc \in {"compare", "idleCompare"}
    /\ IF Unchanged(TimerThread)
       THEN /\ timerPc' = IF timerPc = "compare" THEN "asleep" ELSE "idleAsleep"
            /\ FallAsleep(TimerThread) /\ UNCHANGED deadline
       ELSE timerPc' = "loop" /\ deadline' = 0 /\ UNCHANGED <<seen, queue>>
    /\ UNCHANGED <<pendingTimers, timerObject, timerObjcount, threadRunning, callbacks, now>>

TimerWoken ==
    /\ timerPc \in {"asleep", "idleAsleep"} /\ ~IsQueued(queue, TimerThread)
    /\ timerPc' = "loop" /\ deadline' = 0
    /\ UNCHANGED <<pendingTimers, timerObject, timerObjcount, threadRunning, callbacks, seen, queue, now>>

\* The deadline, or THREADPOOL_WORKER_TIMEOUT, has passed.
TimerTimesOut ==
    /\ \/ timerPc = "asleep" /\ now >= deadline /\ timerPc' = "loop"
       \/ timerPc = "idleAsleep" /\ timerPc' = "timedOut"
    /\ queue' = RemoveWaiter(queue, TimerThread) /\ deadline' = 0
    /\ UNCHANGED <<pendingTimers, timerObject, timerObjcount, threadRunning, callbacks, seen, now>>

\* The condition under which the thread that slept idle exits.
NoObjects == timerObjcount = 0

TimerIdle ==
    /\ timerPc = "timedOut"
    /\ timerPc' = IF NoObjects THEN "absent" ELSE "loop"
    /\ threadRunning' = ~NoObjects
    /\ UNCHANGED <<pendingTimers, timerObject, timerObjcount, deadline, callbacks, seen, queue, now>>

\* A worker of the pool takes a callback.
TimerCallback(t) ==
    /\ callbacks[t] > 0
    /\ callbacks' = [callbacks EXCEPT ![t] = @ - 1]
    /\ UNCHANGED <<pendingTimers, timerObject, timerObjcount, threadRunning, timerPc, deadline, seen, queue, now>>

-----------------------------------------------------------------------------
(* The clients *)

\* TpAllocTimer: tp_timerqueue_lock; it fails, and changes nothing, when the
\* thread is needed and cannot be created.
AllocTimer(t) ==
    /\ timerObject[t].state = "none"
    /\ timerObject' = [timerObject EXCEPT ![t].state = "live"]
    /\ threadRunning' = TRUE
    /\ timerPc' = IF threadRunning THEN timerPc ELSE "loop"
    /\ timerObjcount' = timerObjcount + 1
    /\ UNCHANGED <<pendingTimers, deadline, callbacks, seen, queue, now>>

Cancelled(t) == Remove(pendingTimers, t)
Disarm(t) == pendingTimers' = Cancelled(t) /\ timerObject' = [timerObject EXCEPT ![t] = Unset]

\* Mutant: a wake only when the queue was empty.
TimeoutUpdatedIfEmpty(list, t) == list = <<t>>

\* "Wake up the timer thread when the timeout has to be updated."
TimeoutUpdated(list, t) == Head(list) = t

\* Inserts t with a timeout, wakes the thread.
Arm(t, timeout, s) ==
    LET obj == [timerObject EXCEPT ![t].timeout = timeout, ![t].period = s.period, ![t].window = s.window]
        list == AddPending(Cancelled(t), obj, t)
    IN  /\ timerObject' = obj
        /\ pendingTimers' = list
        /\ IF TimeoutUpdated(list, t) THEN WakeAllConditionVariables({TimerUpdate}) ELSE UNCHANGED <<seen, queue>>

\* TpSetTimer with a timeout in the future,
SetTimer(t, s) ==
    /\ timerObject[t].state = "live" /\ s.timeout > 0
    /\ Arm(t, now + s.timeout, s)
    /\ UNCHANGED <<timerObjcount, threadRunning, timerPc, deadline, callbacks, now>>

\* with a timeout of zero: submitted at once, by the caller,
SetTimerNow(t, s) ==
    /\ timerObject[t].state = "live" /\ s.timeout = 0
    /\ callbacks[t] < MaxCallbacks
    /\ IF s.period > 0 THEN Arm(t, now + s.period, s)
       ELSE Disarm(t) /\ UNCHANGED <<seen, queue>>
    /\ callbacks' = [callbacks EXCEPT ![t] = @ + 1]
    /\ UNCHANGED <<timerObjcount, threadRunning, timerPc, deadline, now>>

\* and with none: cancelled.
CancelTimer(t) ==
    /\ timerObject[t].state = "live" /\ t \in ToSet(pendingTimers)
    /\ Disarm(t)
    /\ UNCHANGED <<timerObjcount, threadRunning, timerPc, deadline, callbacks, seen, queue, now>>

\* TpReleaseTimer: tp_timerqueue_unlock, then shutdown and tp_object_release.
ReleaseTimer(t) ==
    /\ timerObject[t].state = "live"
    /\ timerObject' = [timerObject EXCEPT ![t] = [NoTimerObject EXCEPT !.state = "released"]]
    /\ pendingTimers' = Cancelled(t)
    /\ timerObjcount' = timerObjcount - 1
    /\ IF timerObjcount = 1 THEN WakeAllConditionVariables({TimerUpdate}) ELSE UNCHANGED <<seen, queue>>
    /\ UNCHANGED <<threadRunning, timerPc, deadline, callbacks, now>>

-----------------------------------------------------------------------------
TimerThreadStep == ServeTimers \/ TimerCompares \/ TimerWoken \/ TimerTimesOut \/ TimerIdle
TimerCall(t) ==
    \/ AllocTimer(t) \/ CancelTimer(t) \/ ReleaseTimer(t)
    \/ \E s \in Setting : SetTimer(t, s) \/ SetTimerNow(t, s)
TimerTick ==
    Tick /\ UNCHANGED <<timerState, seen, queue>>
TimerNext ==
    TimerThreadStep \/ (\E t \in PoolTimers : TimerCallback(t) \/ TimerCall(t)) \/ TimerTick

-----------------------------------------------------------------------------
(* Properties *)

Asleep == timerPc \in {"compare", "asleep"} /\ IsAsleep(TimerThread, TimerUpdate)

MaxWindow == Max({s.window : s \in Setting})

\* The thread never sleeps past a pending timer by more than the largest window:
\* the timers stay sorted, whoever inserts one, and a timer that TpSetTimer puts
\* first while the thread sleeps, or is about to, ends the sleep.  As long as there is a timer the thread is
\* running ("it is guaranteed that the timer thread is running").
TimersInTime ==
    /\ \A i \in 1 .. Len(pendingTimers) - 1 :
        timerObject[pendingTimers[i]].timeout <= timerObject[pendingTimers[i + 1]].timeout
    /\ Asleep => \A t \in ToSet(pendingTimers) : deadline <= timerObject[t].timeout + MaxWindow
    /\ timerObjcount = Cardinality({t \in PoolTimers : timerObject[t].state = "live"})
    /\ ToSet(pendingTimers) \subseteq {t \in PoolTimers : timerObject[t].state = "live"}
    /\ timerObjcount > 0 => threadRunning
    /\ threadRunning = (timerPc # "absent")
=============================================================================
