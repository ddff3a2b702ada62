----------------------------- MODULE SyncObjects -----------------------------
(***************************************************************************)
(* The state of the wineserver's own synchronisation objects: events       *)
(* (server/event.c), mutexes (server/mutex.c), semaphores                  *)
(* (server/semaphore.c) and the manual-reset internal event inside every   *)
(* thread object (thread->sync).                                           *)
(*                                                                         *)
(* One number per object is enough: the "signaled" bit of an event or of a *)
(* thread, the recursion count of a mutex, the count of a semaphore.       *)
(* The queue of waiters of every object belongs to module ServerWait.      *)
(***************************************************************************)
EXTENDS Integers, Sequences, FiniteSets, SequencesExt

CONSTANTS Thread,        \* threads known to the server; each is also a waitable object
          ManualEvent, AutoEvent, Mutex, Semaphore,
          SemaphoreMax,  \* semaphore_sync.max, the same for every semaphore
          None

Event == ManualEvent \cup AutoEvent
Obj == Event \cup Mutex \cup Semaphore \cup Thread

ASSUME SyncObjectsAssumption ==
    /\ SemaphoreMax \in Nat \ {0}
    /\ None \notin Obj
    /\ \A S, T \in {Thread, ManualEvent, AutoEvent, Mutex, Semaphore} :
           S # T => S \cap T = {}

VARIABLES count,      \* signaled bit, recursion count or semaphore count
          owner,      \* mutex_sync.owner
          abandoned,  \* mutex_sync.abandoned
          mutexList   \* thread.mutex_list, last grabbed first

objVars == <<count, owner, abandoned, mutexList>>

\* Events are created reset, semaphores empty, mutexes free; threads run.
ObjInit ==
    /\ count = [o \in Obj |-> 0]
    /\ owner = [m \in Mutex |-> None]
    /\ abandoned = [m \in Mutex |-> FALSE]
    /\ mutexList = [t \in Thread |-> <<>>]

\* The "signaled" operation of the three kinds of object, asked by thread t.
Signaled(t, o) ==
    IF o \in Mutex THEN count[o] = 0 \/ owner[o] = t ELSE count[o] > 0

\* The count of an object after its "satisfied" operation.
Satisfied(o) ==
    CASE o \in AutoEvent -> 0
      [] o \in Semaphore -> count[o] - 1
      [] o \in Mutex     -> count[o] + 1
      [] OTHER           -> count[o]

\* do_grab puts a mutex at the head of the list only when its count was zero.
NewlyGrabbed(objs) == Reverse(SelectSeq(objs, LAMBDA o : o \in Mutex /\ count[o] = 0))

\* The "satisfied" operations of the distinct objects in objs, for thread t,
\* in their order.
GrantAll(t, objs) ==
    LET S == Range(objs) IN
    /\ count' = [o \in Obj |-> IF o \in S THEN Satisfied(o) ELSE count[o]]
    /\ owner' = [m \in Mutex |-> IF m \in S THEN t ELSE owner[m]]
    /\ abandoned' = [m \in Mutex |-> abandoned[m] /\ m \notin S]
    /\ mutexList' = [mutexList EXCEPT ![t] = NewlyGrabbed(objs) \o @]

\* do_release of a whole or partial recursion count: frees the mutex when
\* the count reaches zero.
ReleaseMutexCount(t, m, n, lost) ==
    /\ count' = [count EXCEPT ![m] = @ - n]
    /\ abandoned' = [abandoned EXCEPT ![m] = @ \/ lost]
    /\ IF count[m] = n
       THEN /\ owner' = [owner EXCEPT ![m] = None]
            /\ mutexList' = [mutexList EXCEPT ![t] = Remove(@, m)]
       ELSE UNCHANGED <<owner, mutexList>>

\* The test of release_semaphore; a request count is at most SemaphoreMax, so
\* the unsigned sum of the code does not wrap.
WithinLimit(s, n) == count[s] + n <= SemaphoreMax
=============================================================================
