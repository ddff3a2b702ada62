------------------------------ MODULE PoolWait ------------------------------
(***************************************************************************)
(* The wait objects of the thread pool (dlls/ntdll/threadpool.c): buckets, *)
(* each with a thread (waitqueue_thread_proc) that waits for the handles   *)
(* of its objects, and the clients that allocate, set, cancel and release  *)
(* wait objects.  RtlRegisterWait is AllocWait and SetWait,                *)
(* RtlDeregisterWaitEx is SetWait with no handle, CancelWait and           *)
(* ReleaseWait.                                                            *)
(*                                                                         *)
(* A critical section of waitqueue.cs is one step.  Time is abstract: a    *)
(* timeout lies in the future, or has passed.                              *)
(* update_serial is kept as what the threads tell of it: current is FALSE  *)
(* in what a thread recorded before the object's handle was changed.       *)
(***************************************************************************)
EXTENDS Integers, FiniteSets, SequencesExt

CONSTANTS PoolWaits, Bucket, NoBucket, Handle, NoHandle,
          OnlyOnce,         \* objects with WT_EXECUTEONLYONCE
          InWaitThread,     \* with WT_EXECUTEINWAITTHREAD or WT_EXECUTEINIOTHREAD
          InIoThread,       \* with WT_EXECUTEINIOTHREAD
          MaxObjects,       \* MAXIMUM_WAITQUEUE_OBJECTS
          MaxWaitCallbacks, \* bound on an object's pending callbacks
          MaxSignals        \* bound on the signals of the handles

ASSUME PoolWaitAssumption ==
    /\ OnlyOnce \cup InWaitThread \subseteq PoolWaits /\ InIoThread \subseteq InWaitThread
    /\ NoBucket \notin Bucket /\ NoHandle \notin Handle /\ MaxObjects \in Nat \ {0}

VARIABLES waitObject,   \* struct threadpool_object of each wait object
          bucketList,   \* waitqueue.buckets
          bucket,       \* struct waitqueue_bucket, and its thread's locals
          signaled,     \* handles (synchronization events) that are signaled
          signals

waitVars == <<waitObject, bucketList, bucket, signaled, signals>>

NotAllocated == [state |-> "none", ref |-> 0, bucket |-> NoBucket, pending |-> FALSE, timeout |-> "none",
                 handle |-> NoHandle, callbacks |-> 0, signaled |-> 0]
NoBucketThread == [pc |-> "absent", objcount |-> 0, reserved |-> <<>>, waiting |-> <<>>, event |-> FALSE,
                   alertable |-> FALSE, objects |-> <<>>, status |-> 0]

\* Every object is unused, or each is in a bucket of its own, as when the objects
\* allocated between them have been released.
WaitInit ==
    /\ \/ /\ waitObject = [o \in PoolWaits |-> NotAllocated]
          /\ bucket = [b \in Bucket |-> NoBucketThread]
          /\ bucketList = <<>>
       \/ /\ bucketList = SetToSeq(Bucket)
          /\ \E home \in [Bucket -> PoolWaits \ InIoThread] :
              /\ IsInjective(home)
              /\ waitObject = [o \in PoolWaits |->
                    IF \E b \in Bucket : home[b] = o
                    THEN [NotAllocated EXCEPT !.state = "live", !.ref = 1,
                                              !.bucket = CHOOSE b \in Bucket : home[b] = o]
                    ELSE NotAllocated]
              /\ bucket = [b \in Bucket |-> [NoBucketThread EXCEPT !.pc = "start", !.objcount = 1,
                                                              !.reserved = <<home[b]>>, !.event = TRUE]]
    /\ signaled = {} /\ signals = 0

-----------------------------------------------------------------------------
(* waitqueue_thread_proc.  What the thread does while it holds waitqueue.cs    *)
(* is one step: a state in, a state out.                                      *)

State == [obj |-> waitObject, bkt |-> bucket, list |-> bucketList]

\* Removes an object from the lists of its bucket.
Without(bk, o) == [bk EXCEPT !.reserved = Remove(@, o), !.waiting = Remove(@, o)]

\* WT_EXECUTEONLYONCE: an object that fires goes to the reserved list.
Reserve(bk, o) == IF o \in OnlyOnce THEN [Without(bk, o) EXCEPT !.reserved = Append(@, o)] ELSE bk

\* The object then: its timeout is not read again until it is set.
Fired(ob, o) == IF o \in OnlyOnce THEN [ob EXCEPT !.pending = FALSE, !.timeout = "none"] ELSE ob

\* tp_object_submit
Submitted(ob, sig) ==
    [ob EXCEPT !.ref = @ + 1, !.callbacks = @ + 1, !.signaled = IF sig THEN @ + 1 ELSE @]

\* The loop over the waiting list: submits the objects that have timed out, and
\* takes a reference to each of the others.
Scan(st, b) ==
    LET waiting == st.bkt[b].waiting
        out == {o \in ToSet(waiting) : st.obj[o].timeout = "passed"}
        rest == SelectSeq(waiting, LAMBDA o : o \notin out)
        once == out \cap OnlyOnce
    IN  [st EXCEPT
            !.obj = [o \in PoolWaits |->
                CASE o \in out -> Fired(Submitted(st.obj[o], FALSE), o)
                  [] o \in ToSet(rest) -> [st.obj[o] EXCEPT !.ref = @ + 1]
                  [] OTHER -> st.obj[o]],
            !.bkt[b] = [@ EXCEPT
                !.reserved = @ \o SelectSeq(waiting, LAMBDA o : o \in once),
                !.waiting = SelectSeq(waiting, LAMBDA o : o \notin once),
                !.pc = IF st.bkt[b].objcount = 0 THEN "idle" ELSE "wait",
                !.objects = [i \in DOMAIN rest |->
                    [object |-> rest[i], handle |-> st.obj[rest[i]].handle, current |-> TRUE]]]]

\* tp_object_release, of k references
Put(ob, k) ==
    IF ob.ref = k /\ k > 0 THEN [NotAllocated EXCEPT !.state = "freed"] ELSE [ob EXCEPT !.ref = @ - k]

\* "Release temporary references to wait objects."
ReleaseRecorded(st, b) ==
    LET held == {e.object : e \in ToSet(st.bkt[b].objects)}
    IN  [st EXCEPT !.obj = [o \in PoolWaits |-> IF o \in held THEN Put(@[o], 1) ELSE @[o]],
                   !.bkt[b].objects = <<>>, !.bkt[b].status = 0]

\* The buckets that bucket b may be merged into.
MergeTargets(st, b) ==
    {i \in DOMAIN st.list :
        LET c == st.bkt[st.list[i]] IN
        /\ st.list[i] # b /\ c.objcount > 0 /\ c.alertable = st.bkt[b].alertable
        /\ c.objcount + st.bkt[b].objcount <= (MaxObjects * 2) \div 3}
Merges(st, b) ==
    /\ Len(st.list) > 1 /\ st.bkt[b].objcount > 0
    /\ st.bkt[b].objcount <= (MaxObjects * 1) \div 3 /\ MergeTargets(st, b) # {}

\* Mutant: the other bucket's thread is not told.
NotifyNobody(bk) == bk

\* NtSetEvent of update_event
Notify(bk) == [bk EXCEPT !.event = TRUE]

\* "Try to merge bucket with other threads."
Merge(st, b) ==
    LET c == st.list[Min(MergeTargets(st, b))]
        bk == st.bkt[b]
    IN  IF ~Merges(st, b) THEN st
        ELSE [obj |-> [o \in PoolWaits |->
                          IF st.obj[o].bucket = b THEN [st.obj[o] EXCEPT !.bucket = c] ELSE st.obj[o]],
              bkt |-> [st.bkt EXCEPT
                  ![c] = Notify([@ EXCEPT !.objcount = @ + bk.objcount, !.reserved = @ \o bk.reserved,
                                          !.waiting = @ \o bk.waiting]),
                  ![b] = [@ EXCEPT !.objcount = 0, !.reserved = <<>>, !.waiting = <<>>]],
              list |-> Append(Remove(st.list, b), b)]

Becomes(st) ==
    /\ \A o \in PoolWaits : st.obj[o].callbacks <= MaxWaitCallbacks
    /\ waitObject' = st.obj /\ bucket' = st.bkt /\ bucketList' = st.list
    /\ UNCHANGED <<signaled, signals>>

\* The rest of the loop after a wait, and the next one up to its wait.
NextWait(st, b) ==
    \E handled \in {st} : \E released \in {ReleaseRecorded(handled, b)} : \E merged \in {Merge(released, b)} :
        \E scanned \in {Scan(merged, b)} : Becomes(scanned)

ThreadStarts(b) == bucket[b].pc = "start" /\ \E scanned \in {Scan(State, b)} : Becomes(scanned)

Ready(b) == {i \in DOMAIN bucket[b].objects : bucket[b].objects[i].handle \in signaled}

\* NtWaitForMultipleObjects: of the handles that are signaled, the first.  The
\* update event is the last.
WaitSignaled(b) ==
    LET i == Min(Ready(b))
    IN  /\ bucket[b].pc = "wait" /\ Ready(b) # {}
        /\ signaled' = signaled \ {bucket[b].objects[i].handle}
        /\ bucket' = [bucket EXCEPT ![b].pc = "woken", ![b].status = i]
        /\ UNCHANGED <<waitObject, bucketList, signals>>

WaitUpdated(b) ==
    /\ bucket[b].pc \in {"wait", "idle"} /\ Ready(b) = {} /\ bucket[b].event
    /\ bucket' = [bucket EXCEPT ![b].pc = "woken", ![b].event = FALSE]
    /\ UNCHANGED <<waitObject, bucketList, signaled, signals>>

\* The timeout of a recorded object has passed, or an APC has run.
WaitTimesOut(b) ==
    /\ bucket[b].pc = "wait" /\ Ready(b) = {} /\ ~bucket[b].event
    /\ bucket[b].alertable \/ \E i \in DOMAIN bucket[b].objects :
        LET e == bucket[b].objects[i] IN ~e.current \/ waitObject[e.object].timeout = "passed"
    /\ bucket' = [bucket EXCEPT ![b].pc = "woken"]
    /\ UNCHANGED <<waitObject, bucketList, signaled, signals>>

\* THREADPOOL_WORKER_TIMEOUT
IdleTimesOut(b) ==
    /\ bucket[b].pc = "idle" /\ ~bucket[b].event
    /\ bucket' = [bucket EXCEPT ![b].pc = "timedOut"]
    /\ UNCHANGED <<waitObject, bucketList, signaled, signals>>


\* Whether the object that was signaled is what the thread waited for.
StillValid(e) == waitObject[e.object].bucket # NoBucket /\ e.current

\* "Wait object signaled.": submitted to the pool,
Accept(b) ==
    LET e == bucket[b].objects[bucket[b].status]
        o == e.object
    IN  /\ bucket[b].pc = "woken" /\ bucket[b].status > 0 /\ StillValid(e)
        /\ o \notin InWaitThread
        /\ NextWait([State EXCEPT !.bkt[b] = Reserve(@, o), !.obj[o] = Fired(Submitted(@, TRUE), o)], b)

\* or its callback is run here; tp_object_execute leaves waitqueue.cs for that.
RunCallback(b) ==
    LET e == bucket[b].objects[bucket[b].status]
        o == e.object
    IN  /\ bucket[b].pc = "woken" /\ bucket[b].status > 0 /\ StillValid(e)
        /\ o \in InWaitThread
        /\ bucket' = [bucket EXCEPT ![b] = [Reserve(@, o) EXCEPT !.pc = "callback"]]
        /\ waitObject' = [waitObject EXCEPT ![o] = Fired(@, o)]
        /\ UNCHANGED <<bucketList, signaled, signals>>

CallbackReturns(b) == bucket[b].pc = "callback" /\ NextWait(State, b)

\* A signal of an object that was "updated" or "destroyed", or no signal.
Ignore(b) ==
    /\ bucket[b].pc = "woken"
    /\ bucket[b].status > 0 => ~StillValid(bucket[b].objects[bucket[b].status])
    /\ NextWait(State, b)

\* Mutant: without looking again.
IsEmptyUnchecked(b) == TRUE

IsEmpty(b) == bucket[b].objcount = 0

\* After the idle timeout the thread and its bucket go,
ThreadExits(b) ==
    /\ bucket[b].pc = "timedOut" /\ IsEmpty(b)
    /\ bucket' = [bucket EXCEPT ![b] = NoBucketThread]
    /\ bucketList' = Remove(bucketList, b)
    /\ UNCHANGED <<waitObject, signaled, signals>>

\* unless an object came.
ThreadStays(b) == bucket[b].pc = "timedOut" /\ ~IsEmpty(b) /\ NextWait(State, b)

-----------------------------------------------------------------------------
(* The pool and the clients *)

\* A worker runs a callback; tp_object_execute tells it of a signal first.
WaitCallback(o) ==
    /\ waitObject[o].callbacks > 0
    /\ waitObject' = [waitObject EXCEPT
            ![o] = Put([@ EXCEPT !.callbacks = @ - 1, !.signaled = IF @ > 0 THEN @ - 1 ELSE @], 1)]
    /\ UNCHANGED <<bucketList, bucket, signaled, signals>>

\* The buckets with room for o, and the ones that can be created.
WithRoom(o) ==
    {i \in DOMAIN bucketList : /\ bucket[bucketList[i]].objcount < MaxObjects
                               /\ bucket[bucketList[i]].alertable = (o \in InIoThread)}
Unborn == {b \in Bucket : bucket[b].pc = "absent"}

Allocated(o, b, bk) ==
    /\ bucket' = [bucket EXCEPT ![b] = [bk EXCEPT !.objcount = @ + 1, !.reserved = Append(@, o)]]
    /\ waitObject' = [waitObject EXCEPT ![o].state = "live", ![o].ref = 1, ![o].bucket = b]

\* TpAllocWait, RtlRegisterWait: tp_waitqueue_lock
AllocWait(o) ==
    /\ waitObject[o].state = "none"
    /\ IF WithRoom(o) # {}
       THEN LET b == bucketList[Min(WithRoom(o))]
            IN  Allocated(o, b, bucket[b]) /\ UNCHANGED bucketList
       ELSE \E b \in Unborn :
            /\ Allocated(o, b, [NoBucketThread EXCEPT !.pc = "start", !.alertable = o \in InIoThread])
            /\ bucketList' = Append(bucketList, b)
    /\ UNCHANGED <<signaled, signals>>

\* ++update_serial
Outdate(bks, o) ==
    [b \in Bucket |-> [bks[b] EXCEPT !.objects =
        [i \in DOMAIN @ |-> [@[i] EXCEPT !.current = @ /\ bks[b].objects[i].object # o]]]]

\* TpSetWait; a handle or NoHandle, a timeout or "none".
SetWait(o, h, timeout) ==
    LET ob == waitObject[o]
        b == ob.bucket
        bk == Without(bucket[b], o)
        moved == [bucket EXCEPT ![b] =
                    Notify(IF h # NoHandle THEN [bk EXCEPT !.waiting = Append(@, o)]
                                           ELSE [bk EXCEPT !.reserved = Append(@, o)])]
    IN  /\ ob.state = "live"
        /\ h = NoHandle => timeout = "none"
        /\ timeout # "none" => o \notin InWaitThread
        /\ h # NoHandle \/ ob.handle # NoHandle
        /\ waitObject' = [waitObject EXCEPT ![o].handle = h, ![o].pending = h # NoHandle, ![o].timeout = timeout]
        /\ bucket' = IF h = NoHandle /\ ~ob.pending THEN bucket
                     ELSE IF ob.handle = h THEN moved ELSE Outdate(moved, o)
        /\ UNCHANGED <<bucketList, signaled, signals>>

Shutdown(ob) == [NotAllocated EXCEPT !.state = "released", !.ref = ob.ref, !.callbacks = ob.callbacks,
                                     !.signaled = ob.signaled]

\* TpReleaseWait: tp_waitqueue_unlock, shutdown, tp_object_release
ReleaseWait(o) ==
    LET b == waitObject[o].bucket
    IN  /\ waitObject[o].state = "live"
        /\ bucket' = [bucket EXCEPT ![b] = Notify([Without(@, o) EXCEPT !.objcount = @ - 1])]
        /\ waitObject' = [waitObject EXCEPT ![o] = Put(Shutdown(@), 1)]
        /\ UNCHANGED <<bucketList, signaled, signals>>

\* The tp_object_cancel of TpWaitForWait.
CancelWait(o) ==
    /\ waitObject[o].state = "live" /\ waitObject[o].callbacks > 0
    /\ waitObject' = [waitObject EXCEPT
            ![o] = Put([@ EXCEPT !.callbacks = 0, !.signaled = 0], waitObject[o].callbacks)]
    /\ UNCHANGED <<bucketList, bucket, signaled, signals>>

Signal(h) ==
    /\ h \notin signaled /\ signals < MaxSignals
    /\ signaled' = signaled \cup {h} /\ signals' = signals + 1
    /\ UNCHANGED <<waitObject, bucketList, bucket>>

TimePasses(o) ==
    /\ waitObject[o].timeout = "future"
    /\ waitObject' = [waitObject EXCEPT ![o].timeout = "passed"]
    /\ UNCHANGED <<bucketList, bucket, signaled, signals>>

-----------------------------------------------------------------------------
WaitThreadStep(b) ==
    \/ ThreadStarts(b) \/ WaitSignaled(b) \/ WaitUpdated(b) \/ WaitTimesOut(b) \/ IdleTimesOut(b)
    \/ Accept(b) \/ RunCallback(b) \/ CallbackReturns(b) \/ Ignore(b) \/ ThreadExits(b) \/ ThreadStays(b)
WaitCall(o) ==
    \/ AllocWait(o) \/ ReleaseWait(o) \/ CancelWait(o)
    \/ \E h \in Handle \cup {NoHandle}, timeout \in {"none", "future"} : SetWait(o, h, timeout)
WaitNext ==
    \/ \E b \in Bucket : WaitThreadStep(b)
    \/ \E o \in PoolWaits : WaitCall(o) \/ WaitCallback(o) \/ TimePasses(o)
    \/ \E h \in Handle : Signal(h)

-----------------------------------------------------------------------------
(* Properties *)

Recorded(o) == {b \in Bucket : \E i \in DOMAIN bucket[b].objects : bucket[b].objects[i].object = o}
InBucket(b) == {o \in PoolWaits : waitObject[o].bucket = b}

\* What the buckets, the objects and the threads' records say of each other
\* agrees: every object with a bucket is on one of its lists, waiting if it is
\* pending; a bucket with objects has a thread and is not too full; merging
\* moves an object only between waits, so a recorded object that is valid is
\* still pending in that bucket, for the recorded handle; an object is freed
\* when nobody refers to it any more, and no sooner (the assertions of
\* waitqueue_thread_proc, tp_waitqueue_unlock and TpSetWait).
BucketsAgree ==
    /\ \A b \in Bucket :
        /\ bucket[b].objcount = Cardinality(InBucket(b)) /\ bucket[b].objcount <= MaxObjects
        /\ bucket[b].objcount > 0 => b \in ToSet(bucketList) /\ bucket[b].pc # "absent"
        /\ IsInjective(bucket[b].reserved \o bucket[b].waiting)
        /\ ToSet(bucket[b].reserved \o bucket[b].waiting) = InBucket(b)
        /\ ToSet(bucket[b].waiting) = {o \in InBucket(b) : waitObject[o].pending}
        /\ \A i \in DOMAIN bucket[b].objects :
            LET e == bucket[b].objects[i] IN
            e.current /\ waitObject[e.object].bucket # NoBucket /\ bucket[b].pc \in {"wait", "woken"} =>
                /\ e.object \in ToSet(bucket[b].waiting)
                /\ e.handle = waitObject[e.object].handle
    /\ \A o \in PoolWaits :
        /\ waitObject[o].signaled <= waitObject[o].callbacks
        /\ waitObject[o].ref = waitObject[o].callbacks + Cardinality(Recorded(o))
                               + (IF waitObject[o].state = "live" THEN 1 ELSE 0)
        /\ waitObject[o].state = "released" => waitObject[o].ref > 0

\* Bucket b's thread starts to run the callback of o itself.
StartsCallback(b, o) ==
    /\ bucket[b].pc = "woken" /\ bucket'[b].pc = "callback"
    /\ bucket[b].objects[bucket[b].status].object = o
Fires(o) ==
    \/ waitObject'[o].callbacks > waitObject[o].callbacks
    \/ \E b \in Bucket : StartsCallback(b, o)


\* A thread that waits watches all objects that are set in its bucket, for the
\* handle they have now, or is about to be told (NtSetEvent of update_event in
\* TpSetWait and in the merge, which gives a thread objects it has never seen).
\* Only an object that had timed out when the thread began to wait, and fires on
\* every turn, is not watched.
WaitsWatched ==
    \A b \in Bucket :
        bucket[b].pc \in {"wait", "idle", "timedOut"} /\ ~bucket[b].event =>
            \A o \in ToSet(bucket[b].waiting) :
                \/ \E i \in DOMAIN bucket[b].objects :
                      bucket[b].objects[i] = [object |-> o, handle |-> waitObject[o].handle, current |-> TRUE]
                \/ waitObject[o].timeout = "passed" /\ o \notin OnlyOnce
=============================================================================
