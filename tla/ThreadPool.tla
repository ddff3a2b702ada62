----------------------------- MODULE ThreadPool -----------------------------
(***************************************************************************)
(* One pool of the object-oriented thread pool API                         *)
(* (dlls/ntdll/threadpool.c): its workers, work objects and simple         *)
(* callbacks, a cleanup group, and the clients that call the API.          *)
(*                                                                         *)
(* Every field of the pool, and the counters of its objects, are accessed  *)
(* under pool->cs, so what a thread does in one critical section is one    *)
(* step.  A worker keeps pool->cs while it releases an object, which takes *)
(* several steps: csOwner is that worker.  Not under pool->cs: the         *)
(* reference counts, the shutdown flags, the group's list (under           *)
(* group->cs), and the comparison a sleeper makes (CondVar).               *)
(*                                                                         *)
(* A client keeps the API's contract: it does not use an object it has     *)
(* released, nor post to a pool it has released.                           *)
(***************************************************************************)
EXTENDS Integers, FiniteSets, CondVar

CONSTANTS Worker,       \* threads RtlCreateUserThread can create for the pool
          Client,
          Work, Simple, \* objects of TpAllocWork, of TpSimpleTryPost
          Grouped,      \* objects whose environment names the cleanup group
          Priority,     \* Priority[o]: the list of the pool o is queued on
          Calls,        \* Calls[c]: what client c may call
          MaxPending,   \* bound on num_pending_callbacks
          MaxBusy,      \* bound on num_busy_workers, which every cancelling raises
          MaxWorkers    \* bound on max_workers

Object == Work \cup Simple
Thread == Worker \cup Client

ASSUME ThreadPoolAssumption ==
    /\ IsFiniteSet(Worker) /\ Worker \cap Client = {}
    /\ Grouped \subseteq Object /\ Priority \in [Object -> 1 .. 3]
    /\ MaxPending \in Nat \ {0} /\ MaxBusy \in Nat /\ MaxWorkers \in Nat \ {0}

VARIABLES pool,     \* struct threadpool
          items,    \* pool->pools, one list per priority
          object,   \* struct threadpool_object of each object
          group,    \* struct threadpool_group
          csOwner,  \* worker that keeps pool->cs between its steps
          pc,
          cur,      \* object a thread works on
          n,        \* references to cur a thread has still to release
          ret,      \* where a thread goes on after sleeping or releasing
          instance, \* struct threadpool_instance of a worker's callback
          todo,     \* members a group release has still to cancel, to wait for
          usable    \* work objects the clients hold their reference to

cvVars == <<seen, queue>>
vars == <<pool, items, object, group, csOwner, pc, cur, n, ret, instance, todo, usable, seen, queue>>

Update == <<"update_event">>
Finished(o) == <<"finished_event", o>>
GroupFinished(o) == <<"group_finished_event", o>>

NoObject == [state |-> "none", ref |-> 0, shutdown |-> FALSE, pending |-> 0, running |-> 0, associated |-> 0]
NewInstance == [associated |-> TRUE, may_run_long |-> FALSE]

\* tp_threadpool_alloc, tp_group_alloc
Init ==
    /\ pool = [state |-> "live", ref |-> 1, objcount |-> 0, shutdown |-> FALSE,
               max |-> MaxWorkers, min |-> 0, workers |-> 0, busy |-> 0]
    /\ items = [p \in 1 .. 3 |-> <<>>]
    /\ object = [o \in Object |-> NoObject]
    /\ group = [state |-> "live", ref |-> 1, shutdown |-> FALSE, members |-> <<>>]
    /\ csOwner = None
    /\ pc = [t \in Thread |-> IF t \in Worker THEN "absent" ELSE "idle"]
    /\ cur = [t \in Thread |-> None]
    /\ n = [t \in Thread |-> 0]
    /\ ret = [t \in Thread |-> "idle"]
    /\ instance = [w \in Worker |-> NewInstance]
    /\ todo = [c \in Client |-> [cancel |-> <<>>, wait |-> <<>>]]
    /\ usable = {}
    /\ seen = [t \in Thread |-> None]
    /\ queue = <<>>

Move(t, from, to) == pc[t] = from /\ pc' = [pc EXCEPT ![t] = to]
Resume(t, from) == Move(t, from, ret[t]) /\ ret' = [ret EXCEPT ![t] = "idle"]
EnterCS(t) == csOwner \in {None, t}

\* object_is_finished
IsFinished(o) == object[o].pending = 0 /\ object[o].associated = 0
IsGroupFinished(o) == object[o].pending = 0 /\ object[o].running = 0

\* threadpool_get_next_item
Queued == UNION {ToSet(items[p]) : p \in 1 .. 3}
NextItem == Head(items[CHOOSE p \in 1 .. 3 : items[p] # <<>> /\ \A q \in 1 .. p - 1 : items[q] = <<>>])

\* list_remove of pool_entry
Dequeue(its, o) == [its EXCEPT ![Priority[o]] = Remove(@, o)]

\* Mutant: list_add_head.
EnqueueFirst(its, o) == [its EXCEPT ![Priority[o]] = <<o>> \o @]

\* tp_object_prio_queue
Enqueue(its, o) == [its EXCEPT ![Priority[o]] = Append(@, o)]

-----------------------------------------------------------------------------
(* Starting workers, submitting objects *)

Absent == {w \in Worker : pc[w] = "absent"}

\* tp_new_worker_thread, for the threads of a set.
NewWorkers(k) == {new \in SUBSET Absent : Cardinality(new) = k}
StartWorkers(new, pcs) == [t \in Thread |-> IF t \in new THEN "loop" ELSE pcs[t]]
Started(new) == [pool EXCEPT !.ref = @ + Cardinality(new), !.workers = @ + Cardinality(new)]

\* tp_threadpool_lock: a pool with an object has a worker.
LockPool(pcs) ==
    \E new \in NewWorkers(IF pool.workers = 0 THEN 1 ELSE 0) :
        /\ pc' = StartWorkers(new, pcs)
        /\ pool' = [Started(new) EXCEPT !.ref = @ + 1, !.objcount = @ + 1]

\* Whether tp_object_submit and TpCallbackMayRunLong start a worker.
CanGrow == pool.workers < pool.max /\ Absent # {}
Growth == NewWorkers(IF pool.busy >= pool.workers /\ CanGrow THEN 1 ELSE 0)

\* Mutant: no wake when the object is queued already.
WakesOnlyFirst(new, o) == new = {} /\ object[o].pending = 0

\* tp_object_submit wakes a worker unless it started one.
Wakes(new, o) == new = {}

\* The object is not queued yet.
First(o) == object[o].pending = 0

\* tp_object_submit: a new worker, or a wake for one.
Submit(o, pcs) ==
    \E new \in Growth :
        /\ pc' = StartWorkers(new, pcs)
        /\ object' = [object EXCEPT ![o].ref = @ + 1, ![o].pending = @ + 1]
        /\ pool' = [Started(new) EXCEPT !.busy = IF First(o) THEN @ + 1 ELSE @]
        /\ items' = IF First(o) THEN Enqueue(items, o) ELSE items
        /\ IF Wakes(new, o) THEN WakeConditionVariable(Update) ELSE UNCHANGED cvVars

-----------------------------------------------------------------------------
(* Sleeping on a condition variable, RtlSleepConditionVariableCS.  The thread  *)
(* goes on at ret[t], where it enters pool->cs again.                          *)

SleepOn(t, cv, back) ==
    /\ BeginSleep(t, cv)
    /\ ret' = [ret EXCEPT ![t] = back]

Compare(t) ==
    /\ IF Unchanged(t)
       THEN Move(t, "compare", "asleep") /\ FallAsleep(t) /\ UNCHANGED ret
       ELSE Resume(t, "compare") /\ UNCHANGED cvVars
    /\ UNCHANGED <<pool, items, object, group, csOwner, cur, n, instance, todo, usable>>

Return(t) ==
    /\ Resume(t, "asleep")
    /\ queue' = RemoveWaiter(queue, t)
    /\ UNCHANGED <<pool, items, object, group, csOwner, cur, n, instance, todo, usable, seen>>

Woken(t) == ~IsQueued(queue, t) /\ Return(t)
Spurious(t) == IsQueued(queue, t) /\ Return(t)

\* THREADPOOL_WORKER_TIMEOUT; a wake that comes just after it is not reported.
Timeout(w) ==
    /\ Move(w, "asleep", "timedOut")
    /\ queue' = RemoveWaiter(queue, w)
    /\ UNCHANGED <<pool, items, object, group, csOwner, cur, n, ret, instance, todo, usable, seen>>

-----------------------------------------------------------------------------
(* tp_object_release, tp_threadpool_unlock, tp_threadpool_release *)

\* InterlockedDecrement of the object's refcount; n[t] of them.
Release(t) ==
    LET o == cur[t]
        last == object[o].ref = 1
    IN  /\ pc[t] = "release"
        /\ IF last \/ n[t] > 1
           THEN Move(t, "release", IF last THEN "ungroup" ELSE "release") /\ UNCHANGED ret
           ELSE Resume(t, "release")
        /\ object' = [object EXCEPT ![o].ref = @ - 1, ![o].state = IF last THEN "dying" ELSE @]
        /\ n' = [n EXCEPT ![t] = @ - 1]
        /\ cur' = [cur EXCEPT ![t] = IF ~last /\ n[t] = 1 /\ ret[t] \in {"idle", "loop"} THEN None ELSE @]
        /\ UNCHANGED <<pool, items, group, csOwner, instance, todo, usable, seen, queue>>

\* tp_group_release
PutGroup(g) == [g EXCEPT !.ref = @ - 1, !.state = IF g.ref = 1 THEN "freed" ELSE @]

Ungroup(t) ==
    /\ Move(t, "ungroup", "unlock")
    /\ group' = IF cur[t] \in Grouped THEN PutGroup([group EXCEPT !.members = Remove(@, cur[t])]) ELSE group
    /\ UNCHANGED <<pool, items, object, csOwner, cur, n, ret, instance, todo, usable, seen, queue>>

Unlock(t) ==
    /\ EnterCS(t)
    /\ Move(t, "unlock", "putPool")
    /\ pool' = [pool EXCEPT !.objcount = @ - 1]
    /\ UNCHANGED <<items, object, group, csOwner, cur, n, ret, instance, todo, usable, seen, queue>>

\* tp_threadpool_release, by an object (which is then freed), a worker that
\* exits, or TpReleasePool.
PutPool(t) ==
    /\ Resume(t, "putPool")
    /\ pool' = [pool EXCEPT !.ref = @ - 1, !.state = IF pool.ref = 1 THEN "freed" ELSE @]
    /\ object' = IF cur[t] = None THEN object ELSE [object EXCEPT ![cur[t]].state = "freed"]
    /\ cur' = [cur EXCEPT ![t] = None]
    /\ UNCHANGED <<items, group, csOwner, n, instance, todo, usable, seen, queue>>

-----------------------------------------------------------------------------
(* threadpool_worker_proc, tp_object_execute *)

\* list_remove, requeue if more is pending, and the first part of
\* tp_object_execute.
TakeItem(w) ==
    LET o == NextItem
        again == object[o].pending > 1
    IN  /\ EnterCS(w)
        /\ Queued # {}
        /\ Move(w, "loop", "callback")
        /\ items' = IF again THEN Enqueue(Dequeue(items, o), o) ELSE Dequeue(items, o)
        /\ pool' = [pool EXCEPT !.busy = IF again THEN @ + 1 ELSE @]
        /\ object' = [object EXCEPT ![o].pending = @ - 1, ![o].running = @ + 1, ![o].associated = @ + 1]
        /\ cur' = [cur EXCEPT ![w] = o]
        /\ csOwner' = None
        /\ UNCHANGED <<group, instance, n, ret, todo, usable, seen, queue>>

\* Mutant: the worker keeps its reference to the pool.
ExitWithReference(w, from) ==
    /\ Move(w, from, "absent")
    /\ pool' = [pool EXCEPT !.workers = @ - 1]
    /\ csOwner' = None
    /\ UNCHANGED ret

\* num_workers--, and the release of the worker's reference that follows.
Exit(w, from) ==
    /\ Move(w, from, "putPool")
    /\ pool' = [pool EXCEPT !.workers = @ - 1]
    /\ ret' = [ret EXCEPT ![w] = "absent"]
    /\ csOwner' = None

NoItem(w) ==
    /\ EnterCS(w)
    /\ Queued = {}
    /\ IF pool.shutdown
       THEN Exit(w, "loop")
       ELSE Move(w, "loop", "sleep") /\ csOwner' = w /\ UNCHANGED <<pool, ret>>
    /\ UNCHANGED <<items, object, group, cur, n, instance, todo, usable, seen, queue>>

Sleep(w) ==
    /\ Move(w, "sleep", "compare")
    /\ SleepOn(w, Update, "loop")
    /\ csOwner' = None
    /\ UNCHANGED <<pool, items, object, group, cur, n, instance, todo, usable>>

\* Mutant: min_workers alone is the limit.
SuperfluousLast ==
    \/ pool.workers > pool.min
    \/ pool.min = 0 /\ pool.objcount = 0

\* Whether a worker that slept for the whole timeout may terminate.
Superfluous ==
    \/ pool.workers > IF pool.min > 1 THEN pool.min ELSE 1
    \/ pool.min = 0 /\ pool.objcount = 0

TimedOut(w) ==
    /\ EnterCS(w)
    /\ IF Queued = {} /\ Superfluous
       THEN Exit(w, "timedOut")
       ELSE Resume(w, "timedOut") /\ csOwner' = w /\ UNCHANGED pool
    /\ UNCHANGED <<items, object, group, cur, n, instance, todo, usable, seen, queue>>

\* Mutant: the group's waiters are not woken.
ToWakeNoGroup(o, ob, gr) == {cv \in {Finished(o)} : ob.pending = 0 /\ ob.associated = 0}

\* The condition variables of o to wake when o reaches the state ob.
ToWake(o, ob, gr) ==
    {cv \in {Finished(o)} : ob.pending = 0 /\ ob.associated = 0}
    \cup {cv \in {GroupFinished(o)} : gr /\ ob.pending = 0 /\ ob.running = 0}

\* Mutant: a simple object is not shut down.
AfterCallbackLive(o, a) == [object[o] EXCEPT !.running = @ - 1, !.associated = IF a THEN @ - 1 ELSE @]

\* The object when its callback has returned.
AfterCallback(o, a) ==
    [object[o] EXCEPT !.shutdown = @ \/ o \in Simple, !.running = @ - 1, !.associated = IF a THEN @ - 1 ELSE @]

\* The rest of tp_object_execute, num_busy_workers--, and tp_object_release,
\* all of them under pool->cs.
FinishCallback(w) ==
    LET o == cur[w]
        a == instance[w].associated
        ob == AfterCallback(o, a)
        wake == ToWake(o, ob, TRUE)
    IN  /\ csOwner = None
        /\ Move(w, "callback", "release")
        /\ csOwner' = w
        /\ object' = [object EXCEPT ![o] = ob]
        /\ WakeAllConditionVariables(IF a THEN wake ELSE wake \ {Finished(o)})
        /\ pool' = [pool EXCEPT !.busy = @ - 1]
        /\ n' = [n EXCEPT ![w] = 1]
        /\ ret' = [ret EXCEPT ![w] = "loop"]
        /\ instance' = [instance EXCEPT ![w] = NewInstance]
        /\ UNCHANGED <<items, group, cur, todo, usable>>

\* TpDisassociateCallback
Disassociate(w) ==
    LET o == cur[w]
        ob == [object[o] EXCEPT !.associated = @ - 1]
    IN  /\ pc[w] = "callback" /\ csOwner = None
        /\ instance[w].associated
        /\ instance' = [instance EXCEPT ![w].associated = FALSE]
        /\ object' = [object EXCEPT ![o] = ob]
        /\ WakeAllConditionVariables(ToWake(o, ob, FALSE))
        /\ UNCHANGED <<pool, items, group, csOwner, pc, cur, n, ret, todo, usable>>

\* TpCallbackMayRunLong
MayRunLong(w) ==
    /\ pc[w] = "callback" /\ csOwner = None
    /\ ~instance[w].may_run_long
    /\ instance' = [instance EXCEPT ![w].may_run_long = TRUE]
    /\ \E new \in Growth : pc' = StartWorkers(new, pc) /\ pool' = Started(new)
    /\ UNCHANGED <<items, object, group, csOwner, cur, n, ret, todo, usable, seen, queue>>

-----------------------------------------------------------------------------
(* The API, as the clients call it *)

MayCall(c, call) == pc[c] = "idle" /\ call \in Calls[c]

\* TpAllocWork, TpSimpleTryPost: tp_threadpool_lock.  The new object is the
\* caller's own until the next step.
Alloc(c, o) ==
    /\ MayCall(c, IF o \in Work THEN "alloc" ELSE "simple")
    /\ object[o].state = "none"
    /\ ~pool.shutdown /\ (o \in Grouped => ~group.shutdown)
    /\ EnterCS(c)
    /\ LockPool([pc EXCEPT ![c] = IF o \in Work THEN "join" ELSE "submit"])
    /\ object' = [object EXCEPT ![o].state = "live", ![o].ref = 1]
    /\ cur' = [cur EXCEPT ![c] = o]
    /\ UNCHANGED <<items, group, csOwner, n, ret, instance, todo, usable, seen, queue>>

\* tp_object_initialize: a simple object is submitted before it joins the group,
SubmitSimple(c) ==
    /\ pc[c] = "submit" /\ EnterCS(c)
    /\ Submit(cur[c], [pc EXCEPT ![c] = "join"])
    /\ UNCHANGED <<group, csOwner, cur, n, ret, instance, todo, usable>>

\* and then loses its first reference.
Join(c) ==
    LET o == cur[c] IN
    /\ IF o \in Work
       THEN Move(c, "join", "idle") /\ usable' = usable \cup {o} /\ cur' = [cur EXCEPT ![c] = None] /\ UNCHANGED <<n, ret>>
       ELSE /\ Move(c, "join", "release") /\ UNCHANGED <<usable, cur>>
            /\ n' = [n EXCEPT ![c] = 1] /\ ret' = [ret EXCEPT ![c] = "idle"]
    /\ group' = IF o \in Grouped THEN [group EXCEPT !.ref = @ + 1, !.members = Append(@, o)] ELSE group
    /\ UNCHANGED <<pool, items, object, csOwner, instance, todo, seen, queue>>

\* TpPostWork, by a client or by a callback.
Post(t, o) ==
    /\ IF t \in Client THEN MayCall(t, "post") ELSE pc[t] = "callback"
    /\ o \in usable /\ ~pool.shutdown
    /\ object[o].pending < MaxPending
    /\ EnterCS(t)
    /\ Submit(o, pc)
    /\ UNCHANGED <<group, csOwner, cur, n, ret, instance, todo, usable>>

\* Mutant: releases one reference, however many callbacks were pending.
CancelOne(c, o, next) ==
    LET k == object[o].pending
    IN  /\ EnterCS(c)
        /\ object' = [object EXCEPT ![o].pending = 0]
        /\ items' = Dequeue(items, o)
        /\ pc' = [pc EXCEPT ![c] = IF k > 0 THEN "release" ELSE next]
        /\ n' = [n EXCEPT ![c] = IF k > 0 THEN 1 ELSE 0]
        /\ ret' = [ret EXCEPT ![c] = IF k > 0 THEN next ELSE "idle"]
        /\ cur' = [cur EXCEPT ![c] = o]

\* tp_object_cancel: the caller c then releases the callbacks' references, and
\* goes on at next.
Cancel(c, o, next) ==
    LET k == object[o].pending
    IN  /\ EnterCS(c)
        /\ object' = [object EXCEPT ![o].pending = 0]
        /\ items' = Dequeue(items, o)
        /\ pc' = [pc EXCEPT ![c] = IF k > 0 THEN "release" ELSE next]
        /\ n' = [n EXCEPT ![c] = k]
        /\ ret' = [ret EXCEPT ![c] = IF k > 0 THEN next ELSE "idle"]
        /\ cur' = [cur EXCEPT ![c] = o]

\* TpWaitForWork
WaitForWork(c, o, cancel) ==
    /\ MayCall(c, IF cancel THEN "cancel" ELSE "wait")
    /\ cancel => pool.busy < MaxBusy
    /\ o \in usable
    /\ IF cancel THEN Cancel(c, o, "wait")
       ELSE /\ Move(c, "idle", "wait")
            /\ cur' = [cur EXCEPT ![c] = o]
            /\ UNCHANGED <<object, items, n, ret>>
    /\ UNCHANGED <<pool, group, csOwner, instance, todo, usable, seen, queue>>

\* tp_object_wait, group_wait FALSE
Wait(c) ==
    /\ pc[c] = "wait" /\ EnterCS(c)
    /\ IF IsFinished(cur[c])
       THEN Move(c, "wait", "idle") /\ cur' = [cur EXCEPT ![c] = None] /\ UNCHANGED <<ret, seen, queue>>
       ELSE Move(c, "wait", "compare") /\ SleepOn(c, Finished(cur[c]), "wait") /\ UNCHANGED cur
    /\ UNCHANGED <<pool, items, object, group, csOwner, n, instance, todo, usable>>

\* No other client is in a call on o.
Unused(o) == \A d \in Client : cur[d] # o

\* TpReleaseWork
ReleaseWork(c, o) ==
    /\ MayCall(c, "release")
    /\ o \in usable /\ Unused(o)
    /\ Move(c, "idle", "release")
    /\ usable' = usable \ {o}
    /\ object' = [object EXCEPT ![o].shutdown = TRUE]
    /\ cur' = [cur EXCEPT ![c] = o]
    /\ n' = [n EXCEPT ![c] = 1]
    /\ ret' = [ret EXCEPT ![c] = "idle"]
    /\ UNCHANGED <<pool, items, group, csOwner, instance, todo, seen, queue>>

\* Mutant: also the members that are being destroyed.
KeptAll == group.members

\* The members that are not "basically already destroyed".
Kept == SelectSeq(group.members, LAMBDA o : object[o].ref # 0)

\* TpReleaseCleanupGroupMembers: takes a reference to every member that is not
\* already being destroyed.
ReleaseMembers(c, cancel) ==
    LET kept == Kept
    IN  /\ MayCall(c, IF cancel THEN "groupCancel" ELSE "groupWait")
        /\ ~group.shutdown
        /\ \A o \in Work \cap ToSet(kept) : Unused(o)
        /\ group' = [group EXCEPT !.members = <<>>]
        /\ object' = [o \in Object |-> IF o \in ToSet(kept) THEN [object[o] EXCEPT !.ref = @ + 1] ELSE object[o]]
        /\ todo' = [todo EXCEPT ![c] = [cancel |-> IF cancel THEN kept ELSE <<>>, wait |-> kept]]
        /\ usable' = usable \ ToSet(kept)
        /\ Move(c, "idle", "groupCancel")
        /\ UNCHANGED <<pool, items, csOwner, cur, n, ret, instance, seen, queue>>

CancelMember(c) ==
    /\ pc[c] = "groupCancel"
    /\ IF todo[c].cancel = <<>>
       THEN Move(c, "groupCancel", "groupWait") /\ UNCHANGED <<object, items, n, ret, cur, todo>>
       ELSE Cancel(c, Head(todo[c].cancel), "groupCancel") /\ todo' = [todo EXCEPT ![c].cancel = Tail(@)]
    /\ UNCHANGED <<pool, group, csOwner, instance, usable, seen, queue>>

\* tp_object_wait, group_wait TRUE, of the next member
WaitForMember(c) ==
    LET o == Head(todo[c].wait)
        sleep == todo[c].wait # <<>> /\ ~IsGroupFinished(o)
    IN  /\ EnterCS(c)
        /\ Move(c, "groupWait", IF todo[c].wait = <<>> THEN "idle" ELSE IF sleep THEN "compare" ELSE "memberDone")
        /\ IF sleep THEN SleepOn(c, GroupFinished(o), "groupWait") ELSE UNCHANGED <<ret, seen, queue>>
        /\ cur' = [cur EXCEPT ![c] = IF todo[c].wait = <<>> THEN None ELSE o]
        /\ UNCHANGED <<pool, items, object, group, csOwner, n, instance, todo, usable>>

\* Releases the client's reference in its place, unless the client did,
ReleaseMember(c) ==
    LET drop == ~object[cur[c]].shutdown /\ cur[c] \in Work
    IN  /\ Move(c, "memberDone", IF drop THEN "release" ELSE "memberLast")
        /\ n' = [n EXCEPT ![c] = IF drop THEN 1 ELSE 0]
        /\ ret' = [ret EXCEPT ![c] = IF drop THEN "memberLast" ELSE "idle"]
        /\ UNCHANGED <<pool, items, object, group, csOwner, cur, instance, todo, usable, seen, queue>>

\* and then its own.
ShutdownMember(c) ==
    /\ Move(c, "memberLast", "release")
    /\ object' = [object EXCEPT ![cur[c]].shutdown = TRUE]
    /\ n' = [n EXCEPT ![c] = 1]
    /\ ret' = [ret EXCEPT ![c] = "groupWait"]
    /\ todo' = [todo EXCEPT ![c].wait = Tail(@)]
    /\ UNCHANGED <<pool, items, group, csOwner, cur, instance, usable, seen, queue>>

\* TpReleaseCleanupGroup
ReleaseGroup(c) ==
    /\ MayCall(c, "closeGroup")
    /\ ~group.shutdown
    /\ \A d \in Client : pc[d] = "idle" \/ (cur[d] \notin Grouped /\ todo[d].wait = <<>>)
    /\ group' = PutGroup([group EXCEPT !.shutdown = TRUE])
    /\ UNCHANGED <<pool, items, object, csOwner, pc, cur, n, ret, instance, todo, usable, seen, queue>>

\* TpReleasePool: tp_threadpool_shutdown (not under pool->cs).
ReleasePool(c) ==
    /\ MayCall(c, "closePool")
    /\ ~pool.shutdown
    /\ \A d \in Client : pc[d] # "submit"
    /\ Move(c, "idle", "putPool")
    /\ pool' = [pool EXCEPT !.shutdown = TRUE]
    /\ WakeAllConditionVariables({Update})
    /\ ret' = [ret EXCEPT ![c] = "idle"]
    /\ UNCHANGED <<items, object, group, csOwner, cur, n, instance, todo, usable>>

\* TpSetPoolMaxThreads
SetMaxThreads(c, m) ==
    /\ MayCall(c, "setMax") /\ ~pool.shutdown /\ EnterCS(c)
    /\ pool' = [pool EXCEPT !.max = m, !.min = IF @ < m THEN @ ELSE m]
    /\ UNCHANGED <<items, object, group, csOwner, pc, cur, n, ret, instance, todo, usable, seen, queue>>

\* TpSetPoolMinThreads: keeps the workers it started when one cannot be.
SetMinThreads(c, m) ==
    LET want == IF m > pool.workers THEN m - pool.workers ELSE 0
        got == IF want <= Cardinality(Absent) THEN want ELSE Cardinality(Absent)
    IN  /\ MayCall(c, "setMin") /\ ~pool.shutdown /\ EnterCS(c)
        /\ \E new \in NewWorkers(got) :
            /\ pc' = StartWorkers(new, pc)
            /\ pool' = IF got < want THEN Started(new)
                       ELSE [Started(new) EXCEPT !.min = m, !.max = IF @ > m THEN @ ELSE m]
        /\ UNCHANGED <<items, object, group, csOwner, cur, n, ret, instance, todo, usable, seen, queue>>

-----------------------------------------------------------------------------
Releasing(t) == Release(t) \/ Ungroup(t) \/ Unlock(t) \/ PutPool(t)
WorkerStep(w) ==
    \/ TakeItem(w) \/ NoItem(w) \/ Sleep(w) \/ TimedOut(w) \/ FinishCallback(w)
    \/ Compare(w) \/ Woken(w) \/ Releasing(w)
ClientStep(c) ==
    \/ SubmitSimple(c) \/ Join(c) \/ Wait(c)
    \/ CancelMember(c) \/ WaitForMember(c) \/ ReleaseMember(c) \/ ShutdownMember(c)
    \/ Compare(c) \/ Woken(c) \/ Releasing(c)
Call(c) ==
    \/ \E o \in Object : Alloc(c, o)
    \/ \E o \in Work : \/ Post(c, o) \/ ReleaseWork(c, o)
                       \/ \E cancel \in BOOLEAN : WaitForWork(c, o, cancel)
    \/ \E cancel \in BOOLEAN : ReleaseMembers(c, cancel)
    \/ ReleaseGroup(c) \/ ReleasePool(c)
    \/ \E m \in 1 .. MaxWorkers : SetMaxThreads(c, m)
    \/ \E m \in 0 .. MaxWorkers : SetMinThreads(c, m)
\* What a callback may do before it returns.
CallbackCall(w) == Disassociate(w) \/ MayRunLong(w) \/ \E o \in Work : Post(w, o)

Next ==
    \/ \E w \in Worker : WorkerStep(w) \/ Timeout(w) \/ Spurious(w) \/ CallbackCall(w)
    \/ \E c \in Client : ClientStep(c) \/ Spurious(c) \/ Call(c)

Spec == Init /\ [][Next]_vars

\* pool->cs is granted to every thread that keeps trying to enter it, callbacks
\* return, and a worker that is not woken is timed out.  No call has to be made.
FairSpec ==
    /\ Spec
    /\ \A w \in Worker : SF_vars(WorkerStep(w)) /\ WF_vars(Timeout(w))
    /\ \A c \in Client : SF_vars(ClientStep(c))

-----------------------------------------------------------------------------
(* Properties *)

Locations ==
    {"absent", "loop", "callback", "sleep", "timedOut", "compare", "asleep", "release", "ungroup", "unlock",
     "putPool", "idle", "submit", "join", "wait", "groupCancel", "groupWait", "memberDone", "memberLast"}

Exists(o) == object[o].state \in {"live", "dying"}
CountOf(S) == Cardinality(S)
At(o, pcs) == {t \in Thread : cur[t] = o /\ pc[t] \in pcs}

\* Clients whose group release holds a reference to o, and those of them that
\* have still to release the reference of the client that allocated it.
Holding(o) == {c \in Client : o \in ToSet(todo[c].wait)}
Inheriting(o) ==
    {c \in Holding(o) : /\ o \in Work /\ ~object[o].shutdown
                        /\ ~(cur[c] = o /\ "memberLast" \in {pc[c], ret[c]})}

\* Every reference to an object has an owner: the client that allocated it,
\* each pending or running callback, a group release, and whoever is about to
\* release some.  The pool's reference and object counts, and the group's, are
\* the numbers of those that depend on them (InterlockedIncrement and
\* InterlockedDecrement of refcount in threadpool.c).
RefcountsExact ==
    /\ \A o \in Object : Exists(o) =>
        object[o].ref = object[o].pending + CountOf({c \in {1} : o \in usable})
                        + CountOf(At(o, {"submit", "join", "callback"}))
                        + MapThenSumSet(LAMBDA t : n[t], At(o, {"release"}))
                        + CountOf(Holding(o)) + CountOf(Inheriting(o))
    /\ pool.ref = CountOf({o \in Object : Exists(o)})
                  + CountOf({w \in Worker : pc[w] # "absent"})
                  + CountOf({c \in Client : pc[c] = "putPool" /\ cur[c] = None})
                  + CountOf({1} \ {IF pool.shutdown THEN 1 ELSE 0})
    /\ pool.objcount = CountOf({o \in Object : Exists(o) /\ At(o, {"putPool"}) = {}})
    /\ group.ref = CountOf({o \in Grouped : Exists(o) /\ At(o, {"submit", "join", "unlock", "putPool"}) = {}})
                   + CountOf({1} \ {IF group.shutdown THEN 1 ELSE 0})

\* What was freed is out of every thread's reach: no thread works or sleeps on
\* a freed object, none of its entries is on a list, and when the pool or the
\* group is freed nobody is left to use it (tp_object_release,
\* tp_threadpool_release, TpReleaseCleanupGroupMembers's "basically already
\* destroyed").
FreedUnreachable ==
    /\ \A o \in Object : object[o].state = "freed" =>
        /\ o \notin Queued \cup ToSet(group.members) \cup usable
        /\ \A t \in Thread : cur[t] # o /\ ~IsAsleep(t, Finished(o)) /\ ~IsAsleep(t, GroupFinished(o))
        /\ \A c \in Client : o \notin ToSet(todo[c].cancel) \cup ToSet(todo[c].wait)
    /\ pool.state = "freed" =>
        /\ \A w \in Worker : pc[w] = "absent"
        /\ \A o \in Object : ~Exists(o)
    /\ group.state = "freed" => \A o \in Grouped : At(o, {"join", "ungroup"}) = {}

\* The assertions of threadpool.c: of tp_object_submit, tp_object_release,
\* threadpool_worker_proc, tp_threadpool_release and tp_group_release.
AssertionsHold ==
    /\ \A c \in Client : pc[c] = "submit" => ~pool.shutdown /\ ~object[cur[c]].shutdown
    /\ \A o \in Object : object[o].state = "dying" =>
        object[o].shutdown /\ IsFinished(o) /\ IsGroupFinished(o)
    /\ Queued = {o \in Object : object[o].pending > 0}
    /\ pool.busy >= CountOf({w \in Worker : pc[w] = "callback"}) + CountOf(Queued)
    /\ pool.state = "freed" => pool.shutdown /\ pool.objcount = 0 /\ Queued = {}
    /\ group.state = "freed" => group.shutdown /\ group.members = <<>>

\* A pool that is not shut down and has an object has a worker to run its
\* callbacks: workers that time out leave one (tp_threadpool_lock "it is
\* guaranteed that there is at least one worker thread to process tasks").
PoolHasWorker == ~pool.shutdown /\ pool.objcount > 0 => pool.workers > 0

Dozing == {w \in Worker : IsAsleep(w, Update)}
Heading == {w \in Worker : \/ pc[w] \in {"loop", "timedOut"}
                           \/ pc[w] \in {"compare", "asleep"} /\ ~IsAsleep(w, Update)
                           \/ ret[w] = "loop" /\ pc[w] \in {"release", "ungroup", "unlock", "putPool"}}

\* No callback is left waiting while a worker sleeps: as long as one does, the
\* workers on their way to the queues are as many as the pending callbacks
\* (tp_object_submit wakes or starts one for each).
WorkersMatchWork ==
    Dozing # {} => CountOf(Heading) >= MapThenSumSet(LAMBDA o : object[o].pending, Object)

\* A client that sleeps in tp_object_wait has a callback to wait for, whose end
\* will wake it.
SleepersHaveWork ==
    \A c \in Client, o \in Object :
        /\ IsAsleep(c, Finished(o)) => ~IsFinished(o)
        /\ IsAsleep(c, GroupFinished(o)) => ~IsGroupFinished(o)

\* A released pool whose objects were released is freed in the end: its
\* callbacks run, its workers exit, even one that missed the wake of
\* tp_threadpool_shutdown, which does not enter pool->cs.
PoolFreed == pool.shutdown /\ usable = {} ~> pool.state = "freed" \/ usable # {}

\* A callback submitted with the highest priority in use starts, or is
\* cancelled (tp_object_prio_queue puts a busy object behind the others).
SubmittedRuns ==
    \A o \in {x \in Object : \A y \in Object : Priority[x] <= Priority[y]} :
        object[o].pending > 0 ~> object[o].running > 0 \/ object[o].pending = 0

\* tp_object_wait: "Waits until all pending and running callbacks of a specific
\* object have been processed", so it does not sleep on when none is left.
WaitReturns ==
    \A c \in Client :
        pc[c] = "asleep" /\ ret[c] = "wait" /\ IsFinished(cur[c]) ~> pc[c] # "asleep"
=============================================================================
