----------------------------- MODULE ServerWait -----------------------------
(***************************************************************************)
(* Waiting on kernel objects: the wait engine of the wineserver            *)
(* (server/thread.c) over the objects of module SyncObjects, together with *)
(* the client loop that drives it (server_select, wait_select_reply and    *)
(* wait_suspend of dlls/ntdll/unix).                                       *)
(*                                                                         *)
(* The server is single threaded.  A handler that wakes threads runs a     *)
(* loop, and waking a thread whose client is gone kills it, which releases *)
(* mutexes and wakes more threads: "stack" holds the loops still to be     *)
(* finished, innermost first, and no request is taken until it is empty.   *)
(*                                                                         *)
(* A thread has at most two waits: the one of the select call it makes     *)
(* ("wait") and, above it, the one its SIGUSR1 handler makes while the     *)
(* thread is suspended ("suspendWait": no object, zero timeout).           *)
(***************************************************************************)
EXTENDS SyncObjects

CONSTANTS Calls,          \* the select calls clients make
          Requests,       \* the other requests clients make
          MaxSuspend,     \* bound on the suspend count
          MaxApc,         \* bound on the length of an APC queue
          MaxRecursion    \* bound on the recursion count of a mutex

VARIABLES queue,        \* object.wait_queue, by thread
          wait,         \* "none", "new" (no cookie yet) or "pending"
          timer,        \* thread_wait.user of that wait is armed
          suspendWait,  \* the suspend wait is on top of thread->wait
          suspend,      \* thread.suspend
          context,      \* thread.context: "none", "clean" or "dirty" (flags set)
          systemApc, userApc,   \* lengths of the two APC queues
          terminated,   \* thread.state = TERMINATED
          stack,        \* loops the server is in
          call,         \* the select call in progress, or None
          due,          \* current_time has passed the deadline of the call
          pc,           \* client: "run", "call" or "blocked"
          handler,      \* client's SIGUSR1 handler: "none", "call" or "blocked"
          pipe,         \* wake-up replies not read yet
          usr1,         \* a SIGUSR1 is pending
          gone,         \* the client's end of the pipes is closed
          signalled     \* how often the call has signalled its first object

threadVars == <<queue, wait, timer, suspendWait, suspend, context, systemApc,
                userApc, terminated>>
clientVars == <<call, due, pc, handler, usr1, gone, signalled>>
vars == <<objVars, threadVars, stack, clientVars, pipe>>

Init ==
    /\ ObjInit
    /\ queue = [o \in Obj |-> <<>>]
    /\ wait = [t \in Thread |-> "none"]
    /\ timer = [t \in Thread |-> FALSE] /\ suspendWait = [t \in Thread |-> FALSE]
    /\ suspend = [t \in Thread |-> 0]
    /\ context = [t \in Thread |-> "none"]
    /\ systemApc = [t \in Thread |-> 0] /\ userApc = [t \in Thread |-> 0]
    /\ terminated = [t \in Thread |-> FALSE]
    /\ stack = <<>>
    /\ call = [t \in Thread |-> None] /\ due = [t \in Thread |-> FALSE]
    /\ pc = [t \in Thread |-> "run"] /\ handler = [t \in Thread |-> "none"]
    /\ pipe = [t \in Thread |-> <<>>]
    /\ usr1 = [t \in Thread |-> FALSE] /\ gone = [t \in Thread |-> FALSE]
    /\ signalled = [t \in Thread |-> 0]

Idle == stack = <<>>
Push(frames) == stack' = frames \o stack
WakeFrame(o, n) == [f |-> "wake_up", obj |-> o, max |-> n]

-----------------------------------------------------------------------------
(* check_wait: what the wait on top would return now *)

CanSatisfy(t) ==
    LET objs == Range(call[t].objs) IN
    IF call[t].op = "wait_all"
    THEN \A o \in objs : Signaled(t, o)
    ELSE \E o \in objs : Signaled(t, o)

\* Mutant: the objects are looked at before the suspend count.
CallStatusWhenSuspended(t) ==
    CASE systemApc[t] > 0 -> "kernel_apc"
      [] systemApc[t] = 0 ->
            IF CanSatisfy(t) THEN "object"
            ELSE IF suspend[t] > 0 THEN "blocked"
            ELSE IF call[t].alertable /\ userApc[t] > 0 THEN "user_apc"
            ELSE IF call[t].when = "zero" \/ due[t] THEN "timeout"
            ELSE "blocked"

CallStatus(t) ==
    CASE systemApc[t] > 0 -> "kernel_apc"
      [] systemApc[t] = 0 /\ suspend[t] > 0 -> "blocked"
      [] systemApc[t] = 0 /\ suspend[t] = 0 ->
            IF CanSatisfy(t) THEN "object"
            ELSE IF call[t].alertable /\ userApc[t] > 0 THEN "user_apc"
            ELSE IF call[t].when = "zero" \/ due[t] THEN "timeout"
            ELSE "blocked"

SuspendStatus(t) ==
    CASE systemApc[t] > 0 -> "kernel_apc"
      [] systemApc[t] = 0 /\ suspend[t] > 0 -> "blocked"
      [] systemApc[t] = 0 /\ suspend[t] = 0 -> "timeout"

\* wake_thread(t) would return non-zero.
CanWake(t) ==
    IF suspendWait[t] THEN SuspendStatus(t) # "blocked"
                      ELSE wait[t] # "none" /\ CallStatus(t) # "blocked"

-----------------------------------------------------------------------------
(* end_wait *)

\* The objects a satisfied wait takes: all of them, or the first signaled one.
Taken(t) ==
    IF call[t].op = "wait_all" THEN call[t].objs
    ELSE <<SelectSeq(call[t].objs, LAMBDA o : Signaled(t, o))[1]>>

Dequeue(t) == queue' = [o \in Obj |-> Remove(queue[o], t)]

\* The status a satisfied wait is turned into.
ReplyStatus(t) ==
    IF CallStatus(t) = "object" /\ \E m \in Range(Taken(t)) \cap Mutex : abandoned[m]
    THEN "abandoned" ELSE CallStatus(t)

EndCallWait(t) ==
    /\ wait' = [wait EXCEPT ![t] = "none"]
    /\ timer' = [timer EXCEPT ![t] = FALSE]
    /\ Dequeue(t)
    /\ IF CallStatus(t) = "object" THEN GrantAll(t, Taken(t)) ELSE UNCHANGED objVars

-----------------------------------------------------------------------------
(* kill_thread, up to abandon_mutexes and signal_sync which are loops *)

KillThread(t, rest) ==
    /\ terminated' = [terminated EXCEPT ![t] = TRUE]
    /\ wait' = [wait EXCEPT ![t] = "none"]
    /\ suspendWait' = [suspendWait EXCEPT ![t] = FALSE]
    /\ timer' = [timer EXCEPT ![t] = FALSE]
    /\ Dequeue(t)
    /\ systemApc' = [systemApc EXCEPT ![t] = 0] /\ userApc' = [userApc EXCEPT ![t] = 0]
    /\ context' = [context EXCEPT ![t] = "none"]
    /\ stack' = <<[f |-> "abandon", thread |-> t]>> \o rest
    /\ UNCHANGED <<suspend, clientVars, pipe>>

\* Mutant: the thread object is signaled and the mutexes are forgotten.
AbandonNothing ==
    /\ ~Idle /\ Head(stack).f = "abandon"
    /\ count' = [count EXCEPT ![Head(stack).thread] = 1]
    /\ stack' = <<WakeFrame(Head(stack).thread, 0)>> \o Tail(stack)
    /\ UNCHANGED <<owner, abandoned, mutexList, threadVars, clientVars, pipe>>

\* abandon_mutexes, one mutex at a time, then the thread object is signaled.
AbandonMutexes ==
    /\ ~Idle /\ Head(stack).f = "abandon"
    /\ LET t == Head(stack).thread IN
       IF mutexList[t] # <<>>
       THEN LET mutex == Head(mutexList[t]) IN
            /\ ReleaseMutexCount(t, mutex, count[mutex], TRUE)
            /\ Push(<<WakeFrame(mutex, 0)>>)
       ELSE /\ count' = [count EXCEPT ![t] = 1]
            /\ stack' = <<WakeFrame(t, 0)>> \o Tail(stack)
            /\ UNCHANGED <<owner, abandoned, mutexList>>
    /\ UNCHANGED <<threadVars, clientVars, pipe>>

-----------------------------------------------------------------------------
(* wake_thread and wake_up *)

\* wake_thread pops the suspend wait and then, if it can, the wait below it.
PopsCall(t) ==
    /\ wait[t] # "none" /\ CallStatus(t) # "blocked"
    /\ suspendWait[t] => ~gone[t]

\* send_thread_wakeup to a closed pipe: EPIPE, and the thread is killed.  A
\* wait that has no cookie yet gets no reply.
WriteFails(t) == gone[t] /\ (suspendWait[t] \/ wait[t] = "pending")

\* A context changed while the thread was suspended is sent as a fake APC, so
\* that the client asks again and gets it.
SuspendReply(t) ==
    IF context[t] = "dirty" THEN "kernel_apc" ELSE SuspendStatus(t)

\* Mutant: the context of a resumed thread is not released.
KeepContext(t) == context[t]

ContextAfterWake(t) ==
    IF suspendWait[t] /\ SuspendReply(t) = "timeout" THEN "none" ELSE context[t]

Replies(t) ==
       (IF suspendWait[t] THEN <<[to |-> "suspend", status |-> SuspendReply(t)]>> ELSE <<>>)
    \o (IF PopsCall(t) /\ wait[t] = "pending"
        THEN <<[to |-> "wait", status |-> ReplyStatus(t)]>> ELSE <<>>)

\* The loop of wake_thread, for a thread with CanWake; the server goes on with rest.
WakeThread(t, rest) ==
    \/ /\ ~WriteFails(t)
       /\ IF PopsCall(t) THEN EndCallWait(t)
                         ELSE UNCHANGED <<objVars, queue, wait, timer>>
       /\ suspendWait' = [suspendWait EXCEPT ![t] = FALSE]
       /\ context' = [context EXCEPT ![t] = ContextAfterWake(t)]
       /\ pipe' = [pipe EXCEPT ![t] = @ \o Replies(t)]
       /\ stack' = rest
       /\ UNCHANGED <<suspend, systemApc, userApc, terminated, clientVars>>
    \/ /\ WriteFails(t)
       /\ IF PopsCall(t) /\ CallStatus(t) = "object"
          THEN GrantAll(t, Taken(t)) ELSE UNCHANGED objVars
       /\ KillThread(t, rest)

\* A call of wake_thread at the end of a handler.
WakeOneThread ==
    /\ ~Idle /\ Head(stack).f = "wake_thread"
    /\ LET t == Head(stack).thread IN
       IF CanWake(t) THEN WakeThread(t, Tail(stack))
       ELSE /\ stack' = Tail(stack)
            /\ UNCHANGED <<objVars, threadVars, clientVars, pipe>>

\* Mutant: the queue is searched from its tail.
LastToWake(o) == Reverse(SelectSeq(queue[o], CanWake))

ToWake(o) == SelectSeq(queue[o], CanWake)

\* wake_up goes through the queue from its head and starts again after every
\* wake: each step wakes the first thread that can be woken.  A thread that
\* was killed instead is not counted.
WakeUp ==
    /\ ~Idle /\ Head(stack).f = "wake_up"
    /\ LET frame == Head(stack)
           woken == ToWake(frame.obj)
           rest == IF WriteFails(woken[1]) \/ frame.max = 0 THEN stack
                   ELSE IF frame.max = 1 THEN Tail(stack)
                   ELSE <<WakeFrame(frame.obj, frame.max - 1)>> \o Tail(stack)
       IN IF woken # <<>> THEN WakeThread(woken[1], rest)
          ELSE /\ stack' = Tail(stack)
               /\ UNCHANGED <<objVars, threadVars, clientVars, pipe>>

-----------------------------------------------------------------------------
(* select_on *)

\* signal_object of the first object of SIGNAL_AND_WAIT; it can fail.
CanSignal(t, o) ==
    CASE o \in Mutex     -> owner[o] = t
      [] o \in Semaphore -> WithinLimit(o, 1)
      [] OTHER           -> TRUE

SetCount(o, n) ==
    /\ count' = [count EXCEPT ![o] = n]
    /\ UNCHANGED <<owner, abandoned, mutexList>>


\* How many threads are woken at most; zero is all of them.
WakeMax(o, n) ==
    CASE o \in ManualEvent \cup Mutex -> 0
      [] o \in AutoEvent -> 1
      [] o \in Semaphore -> n

\* event_sync_signal, do_release and release_semaphore; frames is what the
\* server does after them.
SignalObject(t, o, n, frames) ==
    \/ /\ o \in Event
       /\ SetCount(o, 1)
       /\ Push(<<WakeFrame(o, WakeMax(o, n))>> \o frames)
    \/ /\ o \in Mutex
       /\ ReleaseMutexCount(t, o, 1, FALSE)
       /\ Push(IF count[o] = 1 THEN <<WakeFrame(o, WakeMax(o, n))>> \o frames ELSE frames)
    \/ /\ o \in Semaphore
       /\ SetCount(o, count[o] + n)
       /\ Push(IF count[o] = 0 THEN <<WakeFrame(o, WakeMax(o, n))>> \o frames ELSE frames)

\* The first half of a select request: the thread is put in every queue, then
\* the object to signal is signaled.  When that fails the wait is undone.
Select(t) ==
    LET c == call[t]
        signals == c.op = "signal_and_wait" /\ c.signal # None
        finish == <<[f |-> "select", thread |-> t]>>
    IN
    /\ Idle /\ ~terminated[t] /\ ~gone[t]
    /\ pc[t] = "call" /\ handler[t] = "none"
    /\ \/ /\ signals => CanSignal(t, c.signal)
          /\ wait' = [wait EXCEPT ![t] = "new"]
          /\ queue' = [o \in Obj |-> IF o \in Range(c.objs) THEN Append(queue[o], t)
                                                            ELSE queue[o]]
          /\ IF signals THEN SignalObject(t, c.signal, 1, finish)
             ELSE Push(finish) /\ UNCHANGED objVars
          /\ signalled' = [signalled EXCEPT ![t] = IF signals THEN @ + 1 ELSE @]
          /\ UNCHANGED <<call, pc, due>>
       \/ /\ signals /\ ~CanSignal(t, c.signal)
          /\ pc' = [pc EXCEPT ![t] = "run"]
          /\ call' = [call EXCEPT ![t] = None]
          /\ due' = [due EXCEPT ![t] = FALSE]
          /\ signalled' = [signalled EXCEPT ![t] = 0]
          /\ UNCHANGED <<objVars, queue, wait, stack>>
    /\ UNCHANGED <<timer, suspendWait, suspend, context, systemApc, userApc, terminated,
                   handler, usr1, gone, pipe>>

Return(t) ==
    /\ pc' = [pc EXCEPT ![t] = "run"]
    /\ call' = [call EXCEPT ![t] = None]
    /\ due' = [due EXCEPT ![t] = FALSE]
    /\ signalled' = [signalled EXCEPT ![t] = 0]

\* After a kernel APC the client calls again at once, without the object to signal.
CallAgain(t) ==
    /\ call' = [call EXCEPT ![t].signal = None]
    /\ UNCHANGED <<pc, due, signalled>>

\* The second half: the thread woke itself up, or its wait is satisfied at
\* once, or it must wait and learns the outcome through the pipe.
FinishSelect ==
    /\ ~Idle /\ Head(stack).f = "select"
    /\ stack' = Tail(stack)
    /\ LET t == Head(stack).thread
           status == CallStatus(t)
       IN
       /\ \/ /\ wait[t] = "none"
             /\ Return(t)
             /\ UNCHANGED <<objVars, queue, wait, timer, systemApc, userApc>>
          \/ /\ wait[t] # "none" /\ status # "blocked"
             /\ EndCallWait(t)
             /\ IF status = "kernel_apc" THEN CallAgain(t) ELSE Return(t)
             /\ systemApc' = [systemApc EXCEPT ![t] = IF status = "kernel_apc" THEN @ - 1 ELSE @]
             /\ userApc' = [userApc EXCEPT ![t] = IF status = "user_apc" THEN @ - 1 ELSE @]
          \/ /\ wait[t] # "none" /\ status = "blocked"
             /\ wait' = [wait EXCEPT ![t] = "pending"]
             /\ timer' = [timer EXCEPT ![t] = call[t].when # "infinite"]
             /\ pc' = [pc EXCEPT ![t] = "blocked"]
             /\ UNCHANGED <<objVars, queue, systemApc, userApc, call, due, signalled>>
    /\ UNCHANGED <<suspendWait, suspend, context, terminated, handler, usr1, gone, pipe>>

-----------------------------------------------------------------------------
(* The suspend wait of the SIGUSR1 handler *)

\* stop_thread: a context marks that the thread has been told to stop.
StopThread(t, ctx) ==
    /\ context' = [context EXCEPT ![t] = IF @ = "dirty" THEN @ ELSE ctx]
    /\ usr1' = [usr1 EXCEPT ![t] = @ \/ context[t] = "none"]

\* The signal is blocked during a server call and inside the handler.
EnterHandler(t) ==
    /\ usr1[t] /\ ~terminated[t] /\ ~gone[t]
    /\ handler[t] = "none" /\ pc[t] \in {"run", "blocked"}
    /\ usr1' = [usr1 EXCEPT ![t] = FALSE]
    /\ handler' = [handler EXCEPT ![t] = "call"]
    /\ UNCHANGED <<objVars, threadVars, stack, call, due, pc, gone, signalled, pipe>>

\* The select request of wait_suspend, which brings the context along.
SuspendSelect(t) ==
    LET status == SuspendStatus(t) IN
    /\ Idle /\ ~terminated[t] /\ ~gone[t]
    /\ handler[t] = "call"
    /\ \/ /\ status = "kernel_apc"
          /\ systemApc' = [systemApc EXCEPT ![t] = @ - 1]
          /\ context' = [context EXCEPT ![t] = IF @ = "none" THEN "clean" ELSE @]
          /\ UNCHANGED <<suspendWait, handler>>
       \/ /\ status = "blocked"
          /\ suspendWait' = [suspendWait EXCEPT ![t] = TRUE]
          /\ context' = [context EXCEPT ![t] = IF @ = "none" THEN "clean" ELSE @]
          /\ handler' = [handler EXCEPT ![t] = "blocked"]
          /\ UNCHANGED systemApc
       \/ /\ status = "timeout"
          /\ context' = [context EXCEPT ![t] = "none"]
          /\ handler' = [handler EXCEPT ![t] = "none"]
          /\ UNCHANGED <<suspendWait, systemApc>>
    /\ UNCHANGED <<objVars, queue, wait, timer, suspend, userApc, terminated, stack,
                   call, due, pc, usr1, gone, signalled, pipe>>

-----------------------------------------------------------------------------
(* The client: server_select and wait_select_reply *)

StartCall(t, c) ==
    /\ ~terminated[t] /\ ~gone[t] /\ pc[t] = "run" /\ handler[t] = "none"
    /\ \A m \in Range(c.objs) \cap Mutex : owner[m] = t => count[m] < MaxRecursion
    /\ pc' = [pc EXCEPT ![t] = "call"]
    /\ call' = [call EXCEPT ![t] = c]
    /\ UNCHANGED <<objVars, threadVars, stack, due, handler, usr1, gone, signalled, pipe>>

\* The reply with this cookie; replies with another one are put back.
RepliesTo(t, cookie) == SelectSeq(pipe[t], LAMBDA r : r.to = cookie)
\* Mutant: a reply with another cookie is dropped.
TakeNextReply(t, cookie) == pipe' = [pipe EXCEPT ![t] = Tail(@)]

TakeReply(t, cookie) ==
    pipe' = [pipe EXCEPT ![t] =
                Tail(RepliesTo(t, cookie)) \o SelectSeq(@, LAMBDA r : r.to # cookie)]

\* An APC interrupted the wait: the same call is made again.
ReadReply(t) ==
    /\ ~terminated[t] /\ ~gone[t] /\ pc[t] = "blocked" /\ handler[t] = "none"
    /\ RepliesTo(t, "wait") # <<>>
    /\ TakeReply(t, "wait")
    /\ IF RepliesTo(t, "wait")[1].status \in {"kernel_apc", "user_apc"}
       THEN /\ pc' = [pc EXCEPT ![t] = "call"]
            /\ UNCHANGED <<call, due, signalled>>
       ELSE Return(t)
    /\ UNCHANGED <<objVars, threadVars, stack, handler, usr1, gone>>

ReadSuspendReply(t) ==
    /\ ~terminated[t] /\ ~gone[t] /\ handler[t] = "blocked"
    /\ RepliesTo(t, "suspend") # <<>>
    /\ TakeReply(t, "suspend")
    /\ handler' = [handler EXCEPT ![t] =
          IF RepliesTo(t, "suspend")[1].status = "kernel_apc" THEN "call" ELSE "none"]
    /\ UNCHANGED <<objVars, threadVars, stack, call, due, pc, usr1, gone, signalled>>

\* The client process dies or closes its pipes; the server finds out later.
ClientGone(t) ==
    /\ "die" \in Requests
    /\ ~terminated[t] /\ ~gone[t]
    /\ gone' = [gone EXCEPT ![t] = TRUE]
    /\ UNCHANGED <<objVars, threadVars, stack, call, due, pc, handler, usr1, signalled, pipe>>

-----------------------------------------------------------------------------
(* Timeouts.  set_current_time runs once per round of the main loop, before *)
(* the requests of that round; expired timers are called after them.        *)

SetCurrentTime(t) ==
    /\ Idle /\ pc[t] # "run" /\ call[t].when = "finite" /\ ~due[t]
    /\ due' = [due EXCEPT ![t] = TRUE]
    /\ UNCHANGED <<objVars, threadVars, stack, call, pc, handler, usr1, gone, signalled, pipe>>

ThreadTimeout(t) ==
    /\ Idle /\ timer[t] /\ (due[t] \/ call[t].when = "zero")
    /\ timer' = [timer EXCEPT ![t] = FALSE]
    /\ IF suspendWait[t] \/ suspend[t] > 0
       THEN UNCHANGED <<objVars, queue, wait, suspendWait, context, systemApc, userApc,
                        terminated, suspend, stack, clientVars, pipe>>
       ELSE IF WriteFails(t)
       THEN KillThread(t, <<>>) /\ UNCHANGED objVars
       ELSE /\ wait' = [wait EXCEPT ![t] = "none"]
            /\ Dequeue(t)
            /\ pipe' = [pipe EXCEPT ![t] = Append(@, [to |-> "wait", status |-> "timeout"])]
            /\ UNCHANGED <<objVars, suspendWait, context, systemApc, userApc, terminated,
                           suspend, stack, clientVars>>

-----------------------------------------------------------------------------
(* The other requests.  They come from any client; only release_mutex       *)
(* depends on which thread sends it.                                        *)

EventOp(op, e, frames) ==
    /\ Idle /\ op \in Requests
    /\ SignalObject(None, e, 1, frames)
    /\ UNCHANGED <<threadVars, clientVars, pipe>>

SetEvent(e) == EventOp("set", e, <<>>)
PulseEvent(e) == EventOp("pulse", e, <<[f |-> "reset", obj |-> e]>>)

ResetEvent(e) ==
    /\ Idle /\ "reset" \in Requests
    /\ SetCount(e, 0)
    /\ UNCHANGED <<threadVars, stack, clientVars, pipe>>

\* The reset_event that ends a pulse.
ResetAfterPulse ==
    /\ ~Idle /\ Head(stack).f = "reset"
    /\ SetCount(Head(stack).obj, 0)
    /\ stack' = Tail(stack)
    /\ UNCHANGED <<threadVars, clientVars, pipe>>

ReleaseSemaphore(s, n) ==
    /\ Idle /\ "release" \in Requests
    /\ WithinLimit(s, n)
    /\ SignalObject(None, s, n, <<>>)
    /\ UNCHANGED <<threadVars, clientVars, pipe>>

ReleaseMutex(t, m) ==
    /\ Idle /\ "release" \in Requests
    /\ ~terminated[t] /\ ~gone[t] /\ pc[t] = "run" /\ handler[t] = "none"
    /\ CanSignal(t, m)
    /\ SignalObject(t, m, 1, <<>>)
    /\ UNCHANGED <<threadVars, clientVars, pipe>>

SuspendThread(t) ==
    /\ Idle /\ "suspend" \in Requests
    /\ ~terminated[t] /\ suspend[t] < MaxSuspend
    /\ IF suspend[t] = 0 THEN StopThread(t, "clean") ELSE UNCHANGED <<context, usr1>>
    /\ suspend' = [suspend EXCEPT ![t] = @ + 1]
    /\ UNCHANGED <<objVars, queue, wait, timer, suspendWait, systemApc, userApc, terminated,
                   stack, call, due, pc, handler, gone, signalled, pipe>>

\* Mutant: the wait of a resumed thread is not checked again.
ResumeOnly(t) ==
    /\ Idle /\ suspend[t] > 0
    /\ suspend' = [suspend EXCEPT ![t] = @ - 1]
    /\ UNCHANGED <<objVars, queue, wait, timer, suspendWait, context, systemApc, userApc,
                   terminated, clientVars, pipe, stack>>

ResumeThread(t) ==
    /\ Idle /\ suspend[t] > 0
    /\ suspend' = [suspend EXCEPT ![t] = @ - 1]
    /\ Push(IF suspend[t] = 1 THEN <<[f |-> "wake_thread", thread |-> t]>> ELSE <<>>)
    /\ UNCHANGED <<objVars, queue, wait, timer, suspendWait, context, systemApc, userApc,
                   terminated, clientVars, pipe>>

\* set_thread_context of another thread stops it to change its context.
SetThreadContext(t) ==
    /\ Idle /\ "context" \in Requests /\ ~terminated[t]
    /\ StopThread(t, "dirty")
    /\ UNCHANGED <<objVars, queue, wait, timer, suspendWait, suspend, systemApc, userApc,
                   terminated, stack, call, due, pc, handler, gone, signalled, pipe>>

IsInApcWait(t) == suspend[t] > 0 \/ suspendWait[t] \/ wait[t] # "none"

\* Mutant: no signal is sent to a thread that is not waiting.
QueueSystemApcSilently(t) ==
    /\ Idle /\ "system_apc" \in Requests
    /\ ~terminated[t] /\ systemApc[t] < MaxApc
    /\ systemApc' = [systemApc EXCEPT ![t] = @ + 1]
    /\ Push(IF systemApc[t] = 0 THEN <<[f |-> "wake_thread", thread |-> t]>> ELSE <<>>)
    /\ UNCHANGED <<objVars, queue, wait, timer, suspendWait, suspend, context, userApc,
                   terminated, clientVars, pipe>>

\* queue_apc, to a thread or to any suitable thread of the process.  Only the
\* first APC of a queue wakes the thread.
QueueSystemApc(t) ==
    /\ Idle /\ "system_apc" \in Requests
    /\ ~terminated[t] /\ systemApc[t] < MaxApc
    /\ \/ /\ IsInApcWait(t)
          /\ UNCHANGED usr1
       \/ /\ systemApc[t] = 0 \/ \A u \in Thread : terminated[u] \/ ~IsInApcWait(u)
          /\ ~IsInApcWait(t) /\ ~gone[t]
          /\ usr1' = [usr1 EXCEPT ![t] = TRUE]
       \/ /\ systemApc[t] > 0 /\ ~IsInApcWait(t)
          /\ UNCHANGED usr1
    /\ systemApc' = [systemApc EXCEPT ![t] = @ + 1]
    /\ Push(IF systemApc[t] = 0 THEN <<[f |-> "wake_thread", thread |-> t]>> ELSE <<>>)
    /\ UNCHANGED <<objVars, queue, wait, timer, suspendWait, suspend, context, userApc,
                   terminated, call, due, pc, handler, gone, signalled, pipe>>

QueueUserApc(t) ==
    /\ Idle /\ "user_apc" \in Requests
    /\ ~terminated[t] /\ userApc[t] < MaxApc
    /\ userApc' = [userApc EXCEPT ![t] = @ + 1]
    /\ Push(IF userApc[t] = 0 THEN <<[f |-> "wake_thread", thread |-> t]>> ELSE <<>>)
    /\ UNCHANGED <<objVars, queue, wait, timer, suspendWait, suspend, context, systemApc,
                   terminated, clientVars, pipe>>

\* terminate_thread of another thread, or the server sees the pipe closed.
TerminateThread(t) ==
    /\ Idle /\ ~terminated[t]
    /\ "terminate" \in Requests \/ gone[t]
    /\ KillThread(t, <<>>)
    /\ UNCHANGED objVars

-----------------------------------------------------------------------------

ServerLoop == WakeUp \/ WakeOneThread \/ AbandonMutexes \/ ResetAfterPulse \/ FinishSelect

Client(t) ==
    \/ \E c \in Calls : StartCall(t, c)
    \/ Select(t) \/ ReadReply(t)
    \/ EnterHandler(t) \/ SuspendSelect(t) \/ ReadSuspendReply(t)

Request ==
    \/ \E e \in Event : SetEvent(e) \/ ResetEvent(e) \/ PulseEvent(e)
    \/ \E s \in Semaphore, n \in 1..SemaphoreMax : ReleaseSemaphore(s, n)
    \/ \E t \in Thread, m \in Mutex : ReleaseMutex(t, m)
    \/ \E t \in Thread :
          \/ SuspendThread(t) \/ ResumeThread(t) \/ SetThreadContext(t)
          \/ QueueSystemApc(t) \/ QueueUserApc(t)
          \/ ClientGone(t) \/ TerminateThread(t)

Timers == \E t \in Thread : SetCurrentTime(t) \/ ThreadTimeout(t)

Next == ServerLoop \/ Request \/ Timers \/ \E t \in Thread : Client(t)

Spec == Init /\ [][Next]_vars

\* The server finishes every loop it is in.  A round of its main loop serves
\* every client with a request and every expired timer, so a request or a timer
\* is not passed over for ever (strong fairness: it has to find the server
\* between two requests).  A pending signal is delivered when it is unblocked,
\* and a client goes on until it blocks.  A suspended thread is resumed in the
\* end; nothing is assumed of the other requests.
Fairness ==
    /\ WF_vars(ServerLoop)
    /\ \A t \in Thread :
          /\ SF_vars(Select(t)) /\ SF_vars(SuspendSelect(t))
          /\ SF_vars(SetCurrentTime(t)) /\ SF_vars(ThreadTimeout(t))
          /\ SF_vars(ResumeThread(t)) /\ SF_vars(suspend[t] = 1 /\ ResumeThread(t))
          /\ SF_vars(EnterHandler(t))
          /\ WF_vars(ReadReply(t)) /\ WF_vars(ReadSuspendReply(t))

FairSpec == Spec /\ Fairness

-----------------------------------------------------------------------------
(* Properties *)


\* A mutex has an owner exactly while its count is positive, and it is in the
\* list of that owner and of no other thread.  A dead thread owns a mutex only
\* until abandon_mutexes reaches it (do_grab, do_release, kill_thread).
MutexConsistent ==
    /\ \A m \in Mutex : owner[m] = None <=> count[m] = 0
    /\ \A t \in Thread :
          /\ Range(mutexList[t]) = {m \in Mutex : owner[m] = t}
          /\ IsInjective(mutexList[t])
          /\ terminated[t] /\ mutexList[t] # <<>> =>
                \E i \in DOMAIN stack : stack[i].f = "abandon" /\ stack[i].thread = t

\* A live client that waits for a reply gets exactly one: either the server
\* still has its wait or one reply with its cookie is in the pipe, for the
\* select call and for the suspend handler alike, also when the replies of the
\* two arrive in the other's place (wait_select_reply puts them back).
OneReplyPerWait ==
    \A t \in Thread : ~terminated[t] =>
        /\ Len(RepliesTo(t, "wait")) + (IF wait[t] = "pending" THEN 1 ELSE 0)
              = (IF pc[t] = "blocked" THEN 1 ELSE 0)
        /\ Len(RepliesTo(t, "suspend")) + (IF suspendWait[t] THEN 1 ELSE 0)
              = (IF handler[t] = "blocked" THEN 1 ELSE 0)

\* A suspended thread stops: it has a signal to take, or its handler is about
\* to ask the server, or it is in the suspend wait, or it has been told to ask
\* again (stop_thread skips the signal when a context exists).
SuspendedStops ==
    \A t \in Thread : ~terminated[t] /\ suspend[t] > 0 =>
        \/ usr1[t] \/ handler[t] = "call" \/ suspendWait[t]
        \/ \E i \in DOMAIN pipe[t] : pipe[t][i] = [to |-> "suspend", status |-> "kernel_apc"]

\* "Suspended threads may not acquire locks" (check_wait): no step changes an
\* object in favour of a thread that is suspended.
SuspendedTakeNothing ==
    [][\A t \in Thread : suspend[t] > 0 /\ wait[t] # "none" /\ wait'[t] = "none" =>
          \A o \in Range(call[t].objs) \ Thread : count'[o] = count[o]]_vars

\* First come, first served: a thread that waits for one object only is not
\* overtaken there by a thread queued behind it, unless it is suspended, or the
\* other one owns the mutex already, or wake_up of the object is interrupted by
\* the death of a thread it tried to wake, whose mutexes are handed over first.
NoOvertaking ==
    [][\A o \in AutoEvent \cup Mutex \cup Semaphore :
       \A i, j \in DOMAIN queue[o] :
          LET t == queue[o][i]
              u == queue[o][j]
          IN  /\ i < j /\ suspend[t] = 0 /\ systemApc[t] = 0 /\ call[t].objs = <<o>>
              /\ count'[o] = Satisfied(o) /\ count'[o] # count[o]
              /\ wait'[u] = "none" /\ (o \in Mutex => owner[o] # u)
              /\ \A k \in 2..Len(stack) : stack[k].f = "wake_up" => stack[k].obj # o
              => wait'[t] = "none"]_vars

\* "don't signal multiple times" (server_select): one call of
\* NtSignalAndWaitForSingleObject signals its first object at most once.
SignalsOnce == \A t \in Thread : signalled[t] <= 1

\* "there cannot be any thread to wake up if the count is != 0"
\* (release_semaphore): between two requests, a semaphore with a positive count
\* has no waiter whose wait it would satisfy.
NobodyToWakeIfCount ==
    Idle => \A s \in Semaphore : count[s] # 0 =>
        \A t \in Range(queue[s]) : CallStatus(t) # "object"

\* A wait with a timeout ends, although thread_timeout ignores a timer that
\* expires while the thread is suspended: resume_thread checks the wait again.
TimedWaitEnds ==
    \A t \in Thread : (wait[t] = "pending" /\ call[t].when = "finite") ~> wait[t] = "none"

\* A system APC queued to a live thread is fetched by it, wherever the thread
\* is: running, blocked, suspended or between two calls (queue_apc, select).
SystemApcFetched ==
    \A t \in Thread : systemApc[t] > 0 ~> systemApc[t] = 0
=============================================================================
