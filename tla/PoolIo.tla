------------------------------- MODULE PoolIo -------------------------------
(***************************************************************************)
(* The I/O objects of the thread pool, the completion port they share and  *)
(* the thread that serves it, ioqueue_thread_proc                          *)
(* (dlls/ntdll/threadpool.c).  The key of a completion is the address of   *)
(* its object.                                                             *)
(*                                                                         *)
(* A client keeps the API's contract: it calls TpStartAsyncIoOperation     *)
(* before each operation, TpCancelAsyncIoOperation when the operation      *)
(* could not be started, and does not use an object it has released.       *)
(* pending_count is unsigned: a negative value here stands for it modulo   *)
(* 2^32, which the code only compares with zero.                           *)
(***************************************************************************)
EXTENDS Integers, FiniteSets, FiniteSetsExt, CondVar

CONSTANTS PoolIos,
          IoThread,         \* the thread of ioqueue_thread_proc
          MaxOperations     \* bound on the operations started on an object

NoKey == "no key"
IoUpdate == <<"ioqueue.update_event">>

VARIABLES io,           \* struct threadpool_object of each I/O object
          ioObjcount,   \* ioqueue.objcount
          port,         \* completions not removed yet, by their keys
          ioPc, key,    \* the thread; thread_running unless absent
          starting,     \* objects an operation is about to be started on
          inFlight, operations

ioState == <<io, ioObjcount, port, ioPc, key, starting, inFlight, operations>>
ioVars == <<ioState, seen, queue>>

NoIo == [state |-> "none", ref |-> 0, pending |-> 0, skipped |-> 0, completions |-> 0, callbacks |-> 0,
         shutting_down |-> FALSE, shutdown |-> FALSE]

IoInit ==
    /\ io = [o \in PoolIos |-> NoIo]
    /\ ioObjcount = 0 /\ port = <<>>
    /\ ioPc = "absent" /\ key = NoKey
    /\ starting = {}
    /\ inFlight = [o \in PoolIos |-> 0] /\ operations = [o \in PoolIos |-> 0]

\* tp_object_release, of k references; counters of a freed object are gone.
PutIo(ob, k) == IF ob.ref = k THEN [NoIo EXCEPT !.state = "freed"] ELSE [ob EXCEPT !.ref = @ - k]

-----------------------------------------------------------------------------
(* ioqueue_thread_proc *)

\* NtRemoveIoCompletion
RemoveCompletion ==
    /\ ioPc = "remove" /\ port # <<>>
    /\ ioPc' = "removed" /\ key' = Head(port) /\ port' = Tail(port)
    /\ UNCHANGED <<io, ioObjcount, starting, inFlight, operations, seen, queue>>

\* The end of an iteration, once objcount is count.
Continue(count) ==
    /\ key' = NoKey
    /\ IF count = 0 THEN ioPc' = "compare" /\ BeginSleep(IoThread, IoUpdate)
       ELSE ioPc' = "remove" /\ UNCHANGED <<seen, queue>>

ShuttingDown(ob) == (ob.shutdown \/ ob.shutting_down) /\ ob.pending = 0

\* Mutant: the object goes with the first skipped completion.
IsLastFirst(ob) == ShuttingDown(ob)

\* The completion is the last of an object that was released.
IsLast(ob) == ShuttingDown(ob) /\ ob.skipped \in {0, 1}

\* A completion is skipped, destroys its object, is queued as a callback, or is
\* dropped because its operation was cancelled.
HandleCompletion ==
    LET ob == io[key]
        skip == ShuttingDown(ob) /\ ~IsLast(ob)
        destroy == IsLast(ob)
    IN  /\ ioPc = "removed" /\ key # NoKey
        /\ io' = [io EXCEPT ![key] =
                CASE skip -> [@ EXCEPT !.skipped = @ - 1]
                  [] destroy -> PutIo([@ EXCEPT !.skipped = 0, !.shutdown = TRUE, !.state = "released"], 1)
                  [] ob.pending # 0 -> [@ EXCEPT !.pending = @ - 1, !.completions = @ + 1, !.callbacks = @ + 1,
                                                 !.ref = @ + 1]
                  [] OTHER -> @]
        /\ ioObjcount' = IF destroy THEN ioObjcount - 1 ELSE ioObjcount
        /\ IF skip THEN ioPc' = "remove" /\ key' = NoKey /\ UNCHANGED <<seen, queue>> ELSE Continue(ioObjcount')
        /\ UNCHANGED <<port, starting, inFlight, operations>>

\* array_reserve fails: the completion is lost.
LoseCompletion ==
    /\ ioPc = "removed" /\ key # NoKey
    /\ io[key].pending # 0
    /\ io' = [io EXCEPT ![key].pending = @ - 1]
    /\ ioPc' = "remove" /\ key' = NoKey
    /\ UNCHANGED <<ioObjcount, port, starting, inFlight, operations, seen, queue>>

\* The packet of tp_ioqueue_unlock, which has no object.
HandleNoKey ==
    /\ ioPc = "removed" /\ key = NoKey
    /\ Continue(ioObjcount)
    /\ UNCHANGED <<io, ioObjcount, port, starting, inFlight, operations>>

IoCompares ==
    /\ ioPc = "compare"
    /\ IF Unchanged(IoThread) THEN ioPc' = "asleep" /\ FallAsleep(IoThread)
       ELSE ioPc' = "remove" /\ UNCHANGED <<seen, queue>>
    /\ UNCHANGED <<io, ioObjcount, port, key, starting, inFlight, operations>>

IoWoken ==
    /\ ioPc = "asleep" /\ ~IsQueued(queue, IoThread)
    /\ ioPc' = "remove"
    /\ UNCHANGED <<io, ioObjcount, port, key, starting, inFlight, operations, seen, queue>>

IoTimesOut ==
    /\ ioPc = "asleep"
    /\ ioPc' = "timedOut" /\ queue' = RemoveWaiter(queue, IoThread)
    /\ UNCHANGED <<io, ioObjcount, port, key, starting, inFlight, operations, seen>>

Exits == ioObjcount = 0

IoIdle ==
    /\ ioPc = "timedOut"
    /\ ioPc' = IF Exits THEN "absent" ELSE "remove"
    /\ UNCHANGED <<io, ioObjcount, port, key, starting, inFlight, operations, seen, queue>>

\* A worker runs a callback with the completion added last.
IoCallback(o) ==
    /\ io[o].callbacks > 0
    /\ io' = [io EXCEPT ![o] = PutIo([@ EXCEPT !.callbacks = @ - 1, !.completions = @ - 1], 1)]
    /\ UNCHANGED <<ioObjcount, port, ioPc, key, starting, inFlight, operations, seen, queue>>

-----------------------------------------------------------------------------
(* The clients and the I/O system *)

\* TpAllocIoCompletion: tp_ioqueue_lock
AllocIo(o) ==
    /\ io[o].state = "none"
    /\ io' = [io EXCEPT ![o].state = "live", ![o].ref = 1]
    /\ ioObjcount' = ioObjcount + 1
    /\ ioPc' = IF ioPc = "absent" THEN "remove" ELSE ioPc
    /\ IF ioObjcount = 0 THEN WakeConditionVariable(IoUpdate) ELSE UNCHANGED <<seen, queue>>
    /\ UNCHANGED <<port, key, starting, inFlight, operations>>

InUse(o) == io[o].state = "live" /\ ~io[o].shutting_down

\* TpStartAsyncIoOperation
StartIo(o) ==
    /\ InUse(o) /\ o \notin starting /\ operations[o] < MaxOperations
    /\ io' = [io EXCEPT ![o].pending = @ + 1]
    /\ starting' = starting \cup {o}
    /\ operations' = [operations EXCEPT ![o] = @ + 1]
    /\ UNCHANGED <<ioObjcount, port, ioPc, key, inFlight, seen, queue>>

\* The operation is under way,
Issue(o) ==
    /\ o \in starting
    /\ starting' = starting \ {o}
    /\ inFlight' = [inFlight EXCEPT ![o] = @ + 1]
    /\ UNCHANGED <<io, ioObjcount, port, ioPc, key, operations, seen, queue>>

\* or has failed: TpCancelAsyncIoOperation
CancelIo(o) ==
    /\ o \in starting
    /\ starting' = starting \ {o}
    /\ io' = [io EXCEPT ![o].pending = @ - 1]
    /\ UNCHANGED <<ioObjcount, port, ioPc, key, inFlight, operations, seen, queue>>

\* It completes.
Complete(o) ==
    /\ inFlight[o] > 0
    /\ inFlight' = [inFlight EXCEPT ![o] = @ - 1]
    /\ port' = Append(port, o)
    /\ UNCHANGED <<io, ioObjcount, ioPc, key, starting, operations, seen, queue>>

\* The completions to skip after tp_object_cancel.
Skipped(ob) == ob.skipped + ob.pending

\* The tp_object_cancel of TpWaitForIoCompletion.
CancelCallbacks(o) ==
    /\ InUse(o)
    /\ io[o].callbacks # 0 \/ io[o].pending # 0
    /\ io' = [io EXCEPT ![o] = [@ EXCEPT !.callbacks = 0, !.ref = @ - io[o].callbacks, !.pending = 0,
                                         !.skipped = Skipped(io[o])]]
    /\ UNCHANGED <<ioObjcount, port, ioPc, key, starting, inFlight, operations, seen, queue>>

\* TpReleaseIoCompletion: marks the object,
ReleaseIo(o) ==
    /\ InUse(o) /\ o \notin starting
    /\ io' = [io EXCEPT ![o].shutting_down = TRUE,
                        ![o].state = IF io[o].pending = 0 /\ io[o].skipped = 0 THEN "closing" ELSE "orphan"]
    /\ UNCHANGED <<ioObjcount, port, ioPc, key, starting, inFlight, operations, seen, queue>>

\* and destroys it if no completion is to come: tp_ioqueue_unlock, shutdown,
\* tp_object_release.
DestroyIo(o) ==
    /\ io[o].state = "closing"
    /\ ioObjcount' = ioObjcount - 1
    /\ port' = IF ioObjcount' = 0 THEN Append(port, NoKey) ELSE port
    /\ io' = [io EXCEPT ![o] = PutIo([@ EXCEPT !.shutdown = TRUE, !.state = "released"], 1)]
    /\ UNCHANGED <<ioPc, key, starting, inFlight, operations, seen, queue>>

-----------------------------------------------------------------------------
IoThreadStep ==
    \/ RemoveCompletion \/ HandleCompletion \/ HandleNoKey
    \/ IoCompares \/ IoWoken \/ IoTimesOut \/ IoIdle
IoCall(o) ==
    \/ AllocIo(o) \/ StartIo(o) \/ Issue(o) \/ CancelIo(o) \/ CancelCallbacks(o) \/ ReleaseIo(o) \/ DestroyIo(o)
IoNext ==
    \/ IoThreadStep \/ LoseCompletion
    \/ \E o \in PoolIos : IoCallback(o) \/ Complete(o) \/ IoCall(o)

-----------------------------------------------------------------------------
(* Properties *)

\* Completions of o that the thread has still to see.
ToCome(o) ==
    inFlight[o] + Cardinality({i \in DOMAIN port : port[i] = o}) + (IF key = o THEN 1 ELSE 0)

\* No completion reaches an object that was freed: the operations under way, the
\* completions in the port and the one the thread holds are all counted in
\* pending_count or skipped_count, and neither TpReleaseIoCompletion nor the
\* thread frees the object before none is to come.  A callback finds a completion
\* (the assertion of tp_object_execute), and while there is an object the thread
\* is running.
CompletionsCounted ==
    /\ \A o \in PoolIos :
        /\ io[o].pending + io[o].skipped >= ToCome(o) + (IF o \in starting THEN 1 ELSE 0)
        /\ io[o].callbacks <= io[o].completions
        /\ io[o].state \in {"released", "freed"} => ToCome(o) = 0
        /\ io[o].ref = io[o].callbacks + (IF io[o].state \in {"live", "closing", "orphan"} THEN 1 ELSE 0)
    /\ ioObjcount = Cardinality({o \in PoolIos : io[o].state \in {"live", "closing", "orphan"}})
    /\ ioObjcount > 0 => ioPc # "absent"
=============================================================================
