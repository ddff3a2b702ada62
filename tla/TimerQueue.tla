----------------------------- MODULE TimerQueue -----------------------------
(***************************************************************************)
(* A timer queue of the old API (dlls/ntdll/threadpool.c): its thread, the *)
(* callbacks of its timers, which the thread runs itself or hands to the   *)
(* thread pool, and the threads that create, change and delete timers and  *)
(* the queue.                                                              *)
(*                                                                         *)
(* What is done in one critical section of q->cs is one step, except the   *)
(* loop of RtlDeleteTimerQueueEx, which keeps q->cs from one iteration to  *)
(* the next.  A client keeps the API's contract: it does not use a timer   *)
(* it has deleted, nor a queue it has deleted other than from a callback,  *)
(* and no callback waits for its own timer or queue.  RtlCreateTimer of a  *)
(* queue that is quitting fails, and changes nothing.                      *)
(***************************************************************************)
EXTENDS Clock, FiniteSets, SequencesExt

CONSTANTS QueueTimer, NoTimer,
          InTimerThread,    \* timers with WT_EXECUTEINTIMERTHREAD
          DueTime, Period,  \* what the clients ask for
          MaxRuncount       \* bound on a timer's unfinished callbacks

ASSUME TimerQueueAssumption ==
    /\ InTimerThread \subseteq QueueTimer /\ NoTimer \notin QueueTimer
    /\ DueTime \subseteq 0 .. MaxTime /\ Period \subseteq 0 .. MaxTime

VARIABLES timers,       \* q->timers
          timer,        \* struct queue_timer of each timer
          quit,         \* q->quit
          queueEvent,   \* q->event, reset by the wait it ends
          threadPc, threadTimer, threadTimeout, \* timer_queue_thread_proc
          queued,       \* work items of each timer in the thread pool
          deletePc, cursor, following           \* RtlDeleteTimerQueueEx

queueState == <<timers, timer, quit, queueEvent, threadPc, threadTimer, threadTimeout, queued, deletePc, cursor,
                following>>
queueVars == <<queueState, now>>
threadVars == <<threadPc, threadTimer, threadTimeout>>
deleteVars == <<deletePc, cursor, following>>

NotCreated == [state |-> "none", expire |-> 0, period |-> 0, runcount |-> 0, destroy |-> FALSE, event |-> "none", held |-> FALSE]

\* A timer that was freed; its event, if any, was set.
Freed(tm) == [NotCreated EXCEPT !.state = "freed", !.event = IF tm.event = "awaited" THEN "set" ELSE "none"]

\* RtlCreateTimerQueue
QueueInit ==
    /\ timers = <<>>
    /\ timer = [t \in QueueTimer |-> NotCreated]
    /\ quit = FALSE /\ queueEvent = FALSE
    /\ threadPc = "call" /\ threadTimer = NoTimer /\ threadTimeout = Never
    /\ queued = [t \in QueueTimer |-> 0]
    /\ deletePc = "idle" /\ cursor = NoTimer /\ following = NoTimer
    /\ now = 0

\* RtlEnterCriticalSection(&q->cs) gets through.
QueueFree == deletePc # "walk"

-----------------------------------------------------------------------------
(* The functions that must be called with q->cs held, on a list and the       *)
(* records of its timers.                                                     *)

\* queue_add_timer, in the list without the timer.
Insert(list, tm, t) ==
    LET before == {i \in DOMAIN list : tm[t].expire # Never /\ tm[t].expire < tm[list[i]].expire}
        pos == IF before = {} THEN Len(list) + 1 ELSE CHOOSE i \in before : \A j \in before : i <= j
    IN  InsertAt(list, pos, t)

\* Mutant: the thread is woken only for the first timer of the queue.
WakesThreadIfAlone(list, t) == list = <<t>>

\* The condition of queue_add_timer's NtSetEvent.
WakesThread(list, t) == Head(list) = t

\* queue_add_timer, queue_move_timer
MoveTimer(t, tm, setEvent) ==
    LET list == Insert(Remove(timers, t), tm, t)
    IN  /\ timers' = list
        /\ timer' = tm
        /\ queueEvent' = (queueEvent \/ (setEvent /\ WakesThread(list, t)))

\* Mutant: leaves it to a later timer to wake the thread.
RemoveTimerSilently(t, tm) ==
    /\ timers' = Remove(timers, t)
    /\ timer' = [tm EXCEPT ![t] = Freed(@)]
    /\ queueEvent' = queueEvent

\* queue_remove_timer
RemoveTimer(t, tm) ==
    /\ timers' = Remove(timers, t)
    /\ timer' = [tm EXCEPT ![t] = Freed(@)]
    /\ queueEvent' = (queueEvent \/ (quit /\ timers' = <<>>))

\* Mutant: frees the timer whatever its callbacks do.
DestroyTimerNow(t, tm) == RemoveTimer(t, [tm EXCEPT ![t].destroy = TRUE])

\* queue_destroy_timer
DestroyTimer(t, tm) ==
    LET doomed == [tm EXCEPT ![t].destroy = TRUE]
    IN  IF tm[t].runcount = 0 THEN RemoveTimer(t, doomed)
        ELSE MoveTimer(t, [doomed EXCEPT ![t].expire = Never], FALSE)

\* timer_cleanup_callback
CleanupCallback(t) ==
    LET tm == [timer EXCEPT ![t].runcount = @ - 1]
    IN  /\ QueueFree
        /\ IF tm[t].destroy /\ tm[t].runcount = 0 THEN RemoveTimer(t, tm)
           ELSE timer' = tm /\ UNCHANGED <<timers, queueEvent>>

-----------------------------------------------------------------------------
(* timer_queue_thread_proc *)

ThreadMove(from, to) == threadPc = from /\ threadPc' = to

\* The call of NtWaitForSingleObject, with the relative timeout.  A wait that would
\* end after MaxTime ends at MaxTime, where the clock stops: every wait with a
\* timeout does end.
ThreadWaits ==
    /\ ThreadMove("call", "wait")
    /\ threadTimeout' = IF threadTimeout = Never THEN Never ELSE Min({now + threadTimeout, MaxTime})
    /\ UNCHANGED <<timers, timer, quit, queueEvent, threadTimer, queued, deleteVars, now>>

ThreadSignaled ==
    /\ queueEvent
    /\ ThreadMove("wait", "signaled")
    /\ queueEvent' = FALSE
    /\ threadTimeout' = Never
    /\ UNCHANGED <<timers, timer, quit, threadTimer, queued, deleteVars, now>>

ThreadTimedOut ==
    /\ ~queueEvent /\ now >= threadTimeout
    /\ ThreadMove("wait", "expire")
    /\ threadTimeout' = Never
    /\ UNCHANGED <<timers, timer, quit, queueEvent, threadTimer, queued, deleteVars, now>>

\* Frees the queue, when it is done.
ThreadChecks ==
    /\ QueueFree
    /\ ThreadMove("signaled", IF quit /\ timers = <<>> THEN "gone" ELSE "timeout")
    /\ UNCHANGED <<timers, timer, quit, queueEvent, threadTimer, threadTimeout, queued, deleteVars, now>>

\* The next expiration of a timer that has expired.
NextExpire(t) ==
    LET next == timer[t].expire + timer[t].period
    IN  IF timer[t].period = 0 THEN Never ELSE IF next < now THEN now + timer[t].period ELSE next

HasExpired == timers # <<>> /\ ~timer[Head(timers)].destroy /\ timer[Head(timers)].expire <= now

\* queue_timer_expire, in q->cs
ExpireTimer ==
    LET t == Head(timers)
    IN  /\ QueueFree /\ HasExpired
        /\ timer[t].runcount < MaxRuncount
        /\ ThreadMove("expire", "fire")
        /\ threadTimer' = t
        /\ MoveTimer(t, [timer EXCEPT ![t].runcount = @ + 1, ![t].expire = NextExpire(t)], FALSE)
        /\ UNCHANGED <<quit, threadTimeout, queued, deleteVars, now>>

ExpireNothing ==
    /\ QueueFree /\ ~HasExpired
    /\ ThreadMove("expire", "timeout")
    /\ UNCHANGED <<timers, timer, quit, queueEvent, threadTimer, threadTimeout, queued, deleteVars, now>>

\* and after it: a callback the thread runs has returned, or RtlQueueWorkItem
\* has failed,
CallbackInThread ==
    /\ ThreadMove("fire", "timeout")
    /\ CleanupCallback(threadTimer)
    /\ threadTimer' = NoTimer
    /\ UNCHANGED <<quit, threadTimeout, queued, deleteVars, now>>

\* or has handed the timer to the thread pool.
QueueCallback ==
    /\ threadTimer \notin InTimerThread
    /\ ThreadMove("fire", "timeout")
    /\ queued' = [queued EXCEPT ![threadTimer] = @ + 1]
    /\ threadTimer' = NoTimer
    /\ UNCHANGED <<timers, timer, quit, queueEvent, threadTimeout, deleteVars, now>>

\* queue_get_timeout
GetTimeout ==
    LET head == IF timers = <<>> THEN Never ELSE timer[Head(timers)].expire
    IN  /\ QueueFree
        /\ ThreadMove("timeout", "call")
        /\ threadTimeout' = IF head = Never THEN Never ELSE IF head < now THEN 0 ELSE head - now
        /\ UNCHANGED <<timers, timer, quit, queueEvent, threadTimer, queued, deleteVars, now>>

\* timer_callback_wrapper, in the thread pool
CallbackInPool(t) ==
    /\ queued[t] > 0
    /\ queued' = [queued EXCEPT ![t] = @ - 1]
    /\ CleanupCallback(t)
    /\ UNCHANGED <<quit, threadVars, deleteVars, now>>

-----------------------------------------------------------------------------
(* The clients *)

\* RtlCreateTimer
CreateTimer(t, due, period) ==
    /\ timer[t].state = "none"
    /\ ~quit
    /\ MoveTimer(t, [timer EXCEPT ![t].state = "live", ![t].held = TRUE, ![t].expire = now + due,
                                  ![t].period = period], TRUE)
    /\ UNCHANGED <<quit, threadVars, queued, deleteVars, now>>

\* A client may use t; once the queue is deleted, only t's callback may.
Usable(t) == timer[t].held /\ (quit => timer[t].runcount > 0) /\ QueueFree

\* RtlUpdateTimer.  "Can't change a timer if it was once-only or destroyed."
UpdateTimer(t, due, period) ==
    /\ Usable(t)
    /\ timer[t].expire # Never
    /\ MoveTimer(t, [timer EXCEPT ![t].expire = now + due, ![t].period = period], TRUE)
    /\ UNCHANGED <<quit, threadVars, queued, deleteVars, now>>

\* RtlDeleteTimer, with INVALID_HANDLE_VALUE or NULL for its event.
DeleteTimer(t, wait) ==
    /\ Usable(t)
    /\ wait => ~quit
    /\ DestroyTimer(t, [timer EXCEPT ![t].event = IF wait THEN "awaited" ELSE "none", ![t].held = FALSE])
    /\ UNCHANGED <<quit, threadVars, queued, deleteVars, now>>

\* The entry after t in the list; NoTimer is the list's head.
After(list, t) ==
    LET i == SelectInSeq(list, LAMBDA u : u = t) IN IF i < Len(list) THEN list[i + 1] ELSE NoTimer

\* RtlDeleteTimerQueueEx, up to LIST_FOR_EACH_ENTRY_SAFE's first step.
DeleteQueue ==
    /\ deletePc = "idle"
    /\ quit' = TRUE
    /\ IF timers # <<>>
       THEN /\ deletePc' = "walk" /\ UNCHANGED queueEvent
            /\ cursor' = Head(timers) /\ following' = After(timers, Head(timers))
       ELSE deletePc' = "join" /\ queueEvent' = TRUE /\ UNCHANGED <<cursor, following>>
    /\ UNCHANGED <<timers, timer, threadVars, queued, now>>

\* One iteration of the loop, with q->cs held; the last one leaves it.
WalkTimers ==
    /\ deletePc = "walk"
    /\ DestroyTimer(cursor, timer)
    /\ cursor' = following
    /\ following' = IF following = NoTimer THEN NoTimer ELSE After(timers', following)
    /\ deletePc' = IF following = NoTimer THEN "join" ELSE "walk"
    /\ UNCHANGED <<quit, threadVars, queued, now>>

\* The wait for the thread, when the caller asked for one.
DeleteReturns ==
    /\ deletePc = "join" /\ threadPc = "gone"
    /\ deletePc' = "done"
    /\ UNCHANGED <<timers, timer, quit, queueEvent, threadVars, queued, cursor, following, now>>

-----------------------------------------------------------------------------
ThreadStep ==
    \/ ThreadWaits \/ ThreadSignaled \/ ThreadTimedOut \/ ThreadChecks
    \/ ExpireTimer \/ ExpireNothing \/ CallbackInThread \/ QueueCallback \/ GetTimeout
DeleteStep == WalkTimers \/ DeleteReturns
QueueCall ==
    \/ \E t \in QueueTimer : \/ \E due \in DueTime, period \in Period :
                                 CreateTimer(t, due, period) \/ (due > 0 /\ UpdateTimer(t, due, period))
                            \/ \E wait \in BOOLEAN : DeleteTimer(t, wait)
    \/ DeleteQueue
QueueTick == Tick /\ UNCHANGED <<timers, timer, quit, queueEvent, threadVars, queued, deleteVars>>

QueueNext == ThreadStep \/ DeleteStep \/ (\E t \in QueueTimer : CallbackInPool(t)) \/ QueueCall \/ QueueTick

-----------------------------------------------------------------------------
(* Properties *)

Live(t) == timer[t].state = "live"
Unfinished == {t \in QueueTimer : timer[t].runcount > 0}

\* A timer is on the list, sorted, from its creation to its removal, which waits
\* for the last of its callbacks and never for longer, and the queue outlives
\* its timers.  A destroyed timer does not hide an active one, and a queue that
\* quits gets no new timer (the assertions of queue_remove_timer,
\* timer_cleanup_callback, queue_add_timer and queue_get_timeout).
TimersKept ==
    /\ ToSet(timers) = {t \in QueueTimer : Live(t)} /\ IsInjective(timers)
    /\ \A i \in 1 .. Len(timers) - 1 : timer[timers[i]].expire <= timer[timers[i + 1]].expire
    /\ \A t \in QueueTimer :
        /\ timer[t].runcount = queued[t] + (IF threadTimer = t THEN 1 ELSE 0)
        /\ ~Live(t) => timer[t].runcount = 0
        /\ Live(t) /\ timer[t].destroy => timer[t].runcount > 0 /\ timer[t].expire = Never
    /\ quit /\ QueueFree => \A t \in ToSet(timers) : timer[t].destroy
    /\ threadPc = "gone" => quit /\ timers = <<>>

\* A timer that is due fires, or is changed or deleted first: the thread never
\* sleeps past it (queue_add_timer's NtSetEvent, queue_get_timeout).
DueTimersFire ==
    \A t \in QueueTimer :
        Live(t) /\ ~timer[t].destroy /\ timer[t].expire <= now
            ~> ~Live(t) \/ timer[t].destroy \/ timer[t].expire > now

\* RtlDeleteTimerQueueEx walks the list without end.
WalksForever == deletePc = "walk" /\ Cardinality(Unfinished) > 1

\* A caller waits in RtlDeleteTimer or RtlDeleteTimerQueueEx.
Deleting == deletePc \in {"walk", "join"} \/ \E t \in QueueTimer : timer[t].event = "awaited"

\* Deleting a timer with INVALID_HANDLE_VALUE returns when its callbacks have
\* returned, and deleting the queue when all timers are finished, unless the
\* callbacks of two timers were unfinished (queue_remove_timer's NtSetEvent, of
\* the timer's event and of the queue's).
DeletionsEnd == Deleting ~> ~Deleting \/ WalksForever

\* RtlDeleteTimerQueueEx: "If NULL, return immediately.  If INVALID_HANDLE_VALUE,
\* wait until all timers are finished firing before returning."
DeleteQueueLeaves == deletePc = "walk" ~> deletePc # "walk"
=============================================================================
