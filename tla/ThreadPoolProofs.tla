-------------------------- MODULE ThreadPoolProofs --------------------------
(***************************************************************************)
(* A pool that has an object has a worker, for any number of objects,      *)
(* clients, workers and priorities: tp_threadpool_lock starts one, and of  *)
(* the workers that time out the last one stays.  The proof counts: the    *)
(* field num_workers is the number of threads that run                     *)
(* threadpool_worker_proc and have not decided to exit, so that a worker   *)
(* that exits is one of those it counts.                                   *)
(***************************************************************************)
EXTENDS ThreadPool, FiniteSetTheorems, TLAPS

\* What the proof needs to know of the pool's fields.
PoolType == [state : {"live", "freed"}, ref : Int, objcount : Int, shutdown : BOOLEAN,
             max : Int, min : Nat, workers : Nat, busy : Int]

\* Threads that run threadpool_worker_proc, up to num_workers--.
Active == {w \in Worker : pc[w] # "absent" /\ ret[w] # "absent"}

\* Only a worker that exits returns to nowhere.
Returns ==
    /\ pc \in [Thread -> Locations] /\ ret \in [Thread -> Locations]
    /\ \A t \in Thread : ret[t] = "absent" => pc[t] = "putPool"

Counted == pool \in PoolType /\ pool.workers = Cardinality(Active)

IInv == Returns /\ Counted /\ PoolHasWorker

\* Sets of workers are finite.
LEMMA WorkersFinite ==
  ASSUME NEW S, S \subseteq Worker PROVE IsFiniteSet(S) /\ Cardinality(S) \in Nat
  <1>1. IsFiniteSet(Worker)
    BY ThreadPoolAssumption
  <1> QED
    BY <1>1, FS_Subset, FS_CardinalityType

\* A step that neither starts nor ends a worker, and changes none of the fields
\* the invariant reads.
LEMMA QuietIInv ==
  ASSUME IInv, Returns', Active' = Active, pool' \in PoolType,
         pool'.workers = pool.workers, pool'.objcount <= pool.objcount,
         pool.shutdown => pool'.shutdown
  PROVE  IInv'
  <1>1. pool.objcount \in Int /\ pool'.objcount \in Int /\ pool.workers \in Nat
    BY DEF IInv, Counted, PoolType
  <1>2. pool.shutdown \in BOOLEAN /\ pool'.shutdown \in BOOLEAN
    BY DEF IInv, Counted, PoolType
  <1>3. Counted'
    BY DEF IInv, Counted
  <1>4. PoolHasWorker'
    BY <1>1, <1>2 DEF IInv, PoolHasWorker
  <1> QED
    BY <1>3, <1>4 DEF IInv

\* One thread moves, from a location of a running thread to another one.
LEMMA MoveIInv ==
  ASSUME IInv, NEW t \in Thread, NEW from \in Locations, NEW to \in Locations, Move(t, from, to),
         from \notin {"absent", "putPool"}, to # "absent",
         UNCHANGED ret \/ \E r \in Locations \ {"absent"} : ret' = [ret EXCEPT ![t] = r]
  PROVE  Returns' /\ Active' = Active
  <1> USE DEF IInv, Returns, Move
  <1>1. PICK r \in Locations \ {"absent"} : ret' = [ret EXCEPT ![t] = r]
    <2>1. ret[t] \in Locations \ {"absent"} /\ ret = [ret EXCEPT ![t] = ret[t]]
      OBVIOUS
    <2> QED
      BY <2>1
  <1>2. ret[t] # "absent"
    OBVIOUS
  <1>3. Worker \subseteq Thread
    BY DEF Thread
  <1>4. Returns'
    BY <1>1, <1>2
  <1>5. \A w \in Worker : (pc'[w] # "absent" /\ ret'[w] # "absent") <=> (pc[w] # "absent" /\ ret[w] # "absent")
    BY <1>1, <1>2, <1>3
  <1> QED
    BY <1>4, <1>5 DEF Active

\* Workers are started, while at most a client moves on.
LEMMA StartIInv ==
  ASSUME IInv, NEW k \in Nat, NEW new \in NewWorkers(k), NEW pcs \in [Thread -> Locations],
         pc' = StartWorkers(new, pcs), UNCHANGED ret,
         \A w \in Worker : pcs[w] = pc[w],
         \A t \in Thread : ret[t] = "absent" => pcs[t] = "putPool",
         pool' \in PoolType, pool'.workers = pool.workers + k,
         ~pool'.shutdown /\ pool'.objcount > 0 => pool'.workers > 0
  PROVE  IInv'
  <1>1. new \subseteq Absent /\ Cardinality(new) = k /\ Absent \subseteq Worker /\ Worker \subseteq Thread
    BY DEF NewWorkers, Absent, Thread
  <1>2. pc' \in [Thread -> Locations] /\ \A t \in Thread : pc'[t] = IF t \in new THEN "loop" ELSE pcs[t]
    <2>1. \A t \in Thread : (IF t \in new THEN "loop" ELSE pcs[t]) \in Locations
      BY DEF Locations
    <2>2. pc' = [t \in Thread |-> IF t \in new THEN "loop" ELSE pcs[t]]
      BY DEF StartWorkers
    <2> QED
      BY <2>1, <2>2
  <1>3. \A w \in new : pc[w] = "absent" /\ ret[w] # "absent"
    BY <1>1 DEF IInv, Returns, Absent
  <1>4. Returns'
    BY <1>1, <1>2, <1>3 DEF IInv, Returns
  <1>5. Active' = Active \cup new /\ Active \cap new = {}
    BY <1>1, <1>2, <1>3 DEF Active
  <1>6. IsFiniteSet(Active) /\ IsFiniteSet(new) /\ Active \subseteq Worker
    BY <1>1, WorkersFinite DEF Active
  <1>7. Cardinality(Active') = Cardinality(Active) + k
    <2>1. Cardinality(Active \cup new) = Cardinality(Active) + Cardinality(new) - Cardinality(Active \cap new)
      BY <1>6, FS_Union
    <2>2. Cardinality(Active \cap new) = 0
      BY <1>5, FS_EmptySet
    <2>3. Cardinality(Active) \in Nat
      BY <1>6, WorkersFinite
    <2> QED
      BY <1>1, <1>5, <2>1, <2>2, <2>3
  <1>8. Counted'
    BY <1>7 DEF IInv, Counted
  <1> QED
    BY <1>4, <1>8 DEF IInv, PoolHasWorker

\* The pool after tp_new_worker_thread.
LEMMA StartedFields ==
  ASSUME IInv, NEW k \in Nat, NEW new \in NewWorkers(k)
  PROVE  /\ Started(new) \in PoolType
         /\ Started(new).workers = pool.workers + k
         /\ Started(new).objcount = pool.objcount
         /\ Started(new).shutdown = pool.shutdown
         /\ Started(new).min = pool.min
  <1>1. Cardinality(new) = k
    BY DEF NewWorkers
  <1>2. Started(new) = [pool EXCEPT !.ref = @ + k, !.workers = @ + k]
    BY <1>1 DEF Started
  <1>3. pool \in PoolType
    BY DEF IInv, Counted
  <1>4. pool.ref + k \in Int /\ pool.workers + k \in Nat
    BY <1>3 DEF PoolType
  <1> QED
    BY <1>2, <1>3, <1>4 DEF PoolType

\* A worker that exits leaves a worker, or a pool without objects or shut down.
LEMMA ExitIInv ==
  ASSUME IInv, NEW w \in Worker, NEW from \in {"loop", "timedOut"}, Exit(w, from),
         pool.shutdown \/ Superfluous
  PROVE  IInv'
  <1>1. w \in Thread /\ pc[w] = from /\ ret[w] # "absent"
    BY DEF IInv, Returns, Exit, Move, Thread
  <1>2. Returns'
    <2>1. pc' = [pc EXCEPT ![w] = "putPool"] /\ ret' = [ret EXCEPT ![w] = "absent"]
      BY DEF Exit, Move
    <2>2. pc' \in [Thread -> Locations] /\ ret' \in [Thread -> Locations]
      BY <2>1 DEF IInv, Returns, Locations
    <2> QED
      BY <1>1, <2>1, <2>2 DEF IInv, Returns
  <1>3. Active' = Active \ {w} /\ w \in Active
    <2>1. Worker \subseteq Thread
      BY DEF Thread
    <2> QED
      BY <1>1, <2>1 DEF IInv, Returns, Active, Exit, Move
  <1>4. IsFiniteSet(Active) /\ Cardinality(Active) \in Nat
    BY WorkersFinite DEF Active
  <1>5. Cardinality(Active') = Cardinality(Active) - 1 /\ Cardinality(Active') \in Nat
    <2>1. Cardinality(Active \ {w}) = Cardinality(Active) - 1
      BY <1>3, <1>4, FS_RemoveElement
    <2>2. Cardinality(Active') \in Nat
      BY WorkersFinite, <1>3 DEF Active
    <2> QED
      BY <1>3, <2>1, <2>2
  <1>6. pool' = [pool EXCEPT !.workers = @ - 1]
    BY DEF Exit
  <1>7. Counted'
    BY <1>5, <1>6 DEF IInv, Counted, PoolType
  <1>8. PoolHasWorker'
    BY <1>6 DEF IInv, Counted, PoolType, PoolHasWorker, Superfluous
  <1> QED
    BY <1>2, <1>7, <1>8 DEF IInv

\* A step of one thread that leaves the pool alone.
LEMMA StepIInv ==
  ASSUME IInv, NEW t \in Thread, NEW from \in Locations, NEW to \in Locations, Move(t, from, to),
         from \notin {"absent", "putPool"}, to # "absent",
         UNCHANGED ret \/ \E r \in Locations \ {"absent"} : ret' = [ret EXCEPT ![t] = r],
         UNCHANGED pool
  PROVE  IInv'
  <1>1. Returns' /\ Active' = Active
    BY MoveIInv
  <1>2. pool \in PoolType /\ pool.objcount \in Int
    BY DEF IInv, Counted, PoolType
  <1> QED
    BY <1>1, <1>2, QuietIInv

\* A step in which a thread goes on where it was called from.
LEMMA ResumeIInv ==
  ASSUME IInv, NEW t \in Thread, NEW from \in Locations, Resume(t, from), from \notin {"absent", "putPool"}
  PROVE  /\ Returns' /\ Active' = Active
         /\ UNCHANGED pool => IInv'
  <1>1. ret[t] \in Locations /\ ret[t] # "absent"
    BY DEF IInv, Returns, Resume, Move
  <1>2. Move(t, from, ret[t]) /\ \E r \in Locations \ {"absent"} : ret' = [ret EXCEPT ![t] = r]
    BY DEF Resume, Locations
  <1> QED
    BY <1>1, <1>2, MoveIInv, StepIInv

\* tp_threadpool_release, by whatever it is called.
LEMMA PutPoolIInv ==
  ASSUME IInv, NEW t \in Thread, PutPool(t) PROVE IInv'
  <1>1. pc[t] = "putPool" /\ pc' = [pc EXCEPT ![t] = ret[t]] /\ ret' = [ret EXCEPT ![t] = "idle"]
    BY DEF PutPool, Resume, Move
  <1>2. Returns'
    <2>1. pc' \in [Thread -> Locations] /\ ret' \in [Thread -> Locations]
      BY <1>1 DEF IInv, Returns, Locations
    <2> QED
      BY <1>1, <2>1 DEF IInv, Returns
  <1>3. Active' = Active
    <2>1. Worker \subseteq Thread
      BY DEF Thread
    <2>2. \A w \in Worker : (pc'[w] # "absent" /\ ret'[w] # "absent") <=> (pc[w] # "absent" /\ ret[w] # "absent")
      BY <1>1, <2>1 DEF IInv, Returns
    <2> QED
      BY <2>2 DEF Active
  <1>4. pool' \in PoolType /\ pool'.workers = pool.workers /\ pool'.objcount = pool.objcount
        /\ pool'.shutdown = pool.shutdown /\ pool.objcount \in Int
    <2>1. pool \in PoolType
      BY DEF IInv, Counted
    <2>2. pool' = [pool EXCEPT !.ref = @ - 1, !.state = IF pool.ref = 1 THEN "freed" ELSE @]
      BY DEF PutPool
    <2>3. pool.ref - 1 \in Int /\ (IF pool.ref = 1 THEN "freed" ELSE pool.state) \in {"live", "freed"}
      BY <2>1 DEF PoolType
    <2> QED
      BY <2>1, <2>2, <2>3 DEF PoolType
  <1> QED
    BY <1>2, <1>3, <1>4, QuietIInv

\* tp_object_submit, in a thread that goes on at pcs.
LEMMA SubmitIInv ==
  ASSUME IInv, NEW o, NEW pcs \in [Thread -> Locations], Submit(o, pcs), UNCHANGED ret,
         \A w \in Worker : pcs[w] = pc[w],
         \A t \in Thread : ret[t] = "absent" => pcs[t] = "putPool"
  PROVE  IInv'
  <1> DEFINE k == IF pool.busy >= pool.workers /\ CanGrow THEN 1 ELSE 0
  <1>1. k \in Nat
    OBVIOUS
  <1>2. PICK new \in NewWorkers(k) :
            /\ pc' = StartWorkers(new, pcs)
            /\ pool' = [Started(new) EXCEPT !.busy = IF First(o) THEN @ + 1 ELSE @]
    BY DEF Submit, Growth
  <1> HIDE DEF k
  <1>3. /\ pool' \in PoolType
        /\ pool'.workers = pool.workers + k
        /\ pool'.objcount = pool.objcount
        /\ pool'.shutdown = pool.shutdown
    <2> DEFINE b == IF First(o) THEN Started(new).busy + 1 ELSE Started(new).busy
    <2>1. pool' = [Started(new) EXCEPT !.busy = b]
      BY <1>2
    <2>2. Started(new) \in PoolType
      BY <1>1, StartedFields
    <2>3. b \in Int
      BY <2>2 DEF PoolType
    <2> HIDE DEF b
    <2> QED
      BY <1>1, <2>1, <2>2, <2>3, StartedFields DEF PoolType
  <1>4. ~pool'.shutdown /\ pool'.objcount > 0 => pool'.workers > 0
    BY <1>1, <1>3 DEF IInv, PoolHasWorker, Counted, PoolType
  <1> QED
    BY <1>1, <1>2, <1>3, <1>4, StartIInv

\* A new pool has no worker and no object.
LEMMA InitIInv == Init => IInv
  <1> SUFFICES ASSUME Init PROVE IInv
    OBVIOUS
  <1> USE DEF Init
  <1>1. Returns
    BY DEF Returns, Locations
  <1>2. Active = {}
    BY DEF Active, Thread
  <1>3. pool \in PoolType
    BY ThreadPoolAssumption DEF PoolType
  <1>4. Counted
    BY <1>2, <1>3, FS_EmptySet DEF Counted
  <1> QED
    BY <1>1, <1>4 DEF IInv, PoolHasWorker

\* The steps that workers and clients share: sleeping and releasing.
LEMMA CommonIInv ==
  ASSUME IInv, NEW t \in Thread, Compare(t) \/ Woken(t) \/ Spurious(t) \/ Releasing(t)
  PROVE  IInv'
  <1>1. ASSUME Compare(t) PROVE IInv'
    <2>1. CASE Unchanged(t)
      BY <1>1, <2>1, StepIInv DEF Compare, Locations
    <2>2. CASE ~Unchanged(t)
      BY <1>1, <2>2, ResumeIInv DEF Compare, Locations
    <2> QED
      BY <2>1, <2>2
  <1>2. ASSUME Woken(t) \/ Spurious(t) PROVE IInv'
    BY <1>2, ResumeIInv DEF Woken, Spurious, Return, Locations
  <1>3. ASSUME Release(t) PROVE IInv'
    <2>1. UNCHANGED pool /\ \/ Resume(t, "release")
                            \/ UNCHANGED ret /\ Move(t, "release", "ungroup")
                            \/ UNCHANGED ret /\ Move(t, "release", "release")
      BY <1>3 DEF Release
    <2> QED
      BY <2>1, ResumeIInv, StepIInv DEF Locations
  <1>4. ASSUME Ungroup(t) PROVE IInv'
    BY <1>4, StepIInv DEF Ungroup, Locations
  <1>5. ASSUME Unlock(t) PROVE IInv'
    <2>1. Returns' /\ Active' = Active
      BY <1>5, MoveIInv DEF Unlock, Locations
    <2>2. pool' = [pool EXCEPT !.objcount = @ - 1] /\ pool \in PoolType
      BY <1>5 DEF Unlock, IInv, Counted
    <2>3. pool' \in PoolType /\ pool'.workers = pool.workers /\ pool'.objcount = pool.objcount - 1
          /\ pool'.shutdown = pool.shutdown /\ pool.objcount \in Int
      BY <2>2 DEF PoolType
    <2>4. pool'.objcount <= pool.objcount
      BY <2>3
    <2> QED
      BY <2>1, <2>3, <2>4, QuietIInv
  <1> QED
    BY <1>1, <1>2, <1>3, <1>4, <1>5, PutPoolIInv DEF Releasing

\* A step of one thread that changes only num_busy_workers.
LEMMA BusyIInv ==
  ASSUME IInv, NEW t \in Thread, NEW from \in Locations, NEW to \in Locations, Move(t, from, to),
         from \notin {"absent", "putPool"}, to # "absent",
         UNCHANGED ret \/ \E r \in Locations \ {"absent"} : ret' = [ret EXCEPT ![t] = r],
         NEW b \in Int, pool' = [pool EXCEPT !.busy = b]
  PROVE  IInv'
  <1>1. Returns' /\ Active' = Active
    BY MoveIInv
  <1>2. pool' \in PoolType /\ pool'.workers = pool.workers /\ pool'.objcount = pool.objcount
        /\ pool'.shutdown = pool.shutdown /\ pool.objcount \in Int
    BY DEF IInv, Counted, PoolType
  <1> QED
    BY <1>1, <1>2, QuietIInv

\* The steps of threadpool_worker_proc and of the callbacks it runs.
LEMMA WorkerIInv ==
  ASSUME IInv, NEW w \in Worker,
         WorkerStep(w) \/ Timeout(w) \/ Spurious(w) \/ CallbackCall(w)
  PROVE  IInv'
  <1>1. w \in Thread
    BY DEF Thread
  <1>2. ASSUME Timeout(w) PROVE IInv'
    BY <1>1, <1>2, StepIInv DEF Timeout, Locations
  <1>3. ASSUME Sleep(w) PROVE IInv'
    BY <1>1, <1>3, StepIInv DEF Sleep, SleepOn, Locations
  <1>4. ASSUME TakeItem(w) PROVE IInv'
    <2>1. PICK b \in Int : pool' = [pool EXCEPT !.busy = b]
      BY <1>4 DEF TakeItem, IInv, Counted, PoolType
    <2>2. Move(w, "loop", "callback") /\ UNCHANGED ret
      BY <1>4 DEF TakeItem
    <2> QED
      BY <1>1, <2>1, <2>2, BusyIInv DEF Locations
  <1>5. ASSUME NoItem(w) PROVE IInv'
    <2>1. CASE pool.shutdown
      BY <1>5, <2>1, ExitIInv DEF NoItem
    <2>2. CASE ~pool.shutdown
      BY <1>1, <1>5, <2>2, StepIInv DEF NoItem, Locations
    <2> QED
      BY <2>1, <2>2
  <1>6. ASSUME TimedOut(w) PROVE IInv'
    <2>1. CASE Queued = {} /\ Superfluous
      BY <1>6, <2>1, ExitIInv DEF TimedOut
    <2>2. CASE ~(Queued = {} /\ Superfluous)
      BY <1>1, <1>6, <2>2, ResumeIInv DEF TimedOut, Locations
    <2> QED
      BY <2>1, <2>2
  <1>7. ASSUME FinishCallback(w) PROVE IInv'
    <2>1. PICK b \in Int : pool' = [pool EXCEPT !.busy = b]
      BY <1>7 DEF FinishCallback, IInv, Counted, PoolType
    <2>2. Move(w, "callback", "release") /\ ret' = [ret EXCEPT ![w] = "loop"]
      BY <1>7 DEF FinishCallback
    <2> QED
      BY <1>1, <2>1, <2>2, BusyIInv DEF Locations
  <1>8. ASSUME Disassociate(w) PROVE IInv'
    <2>1. UNCHANGED <<pool, pc, ret>>
      BY <1>8 DEF Disassociate
    <2> QED
      BY <2>1 DEF IInv, Returns, Counted, Active, PoolHasWorker
  <1>9. pc \in [Thread -> Locations] /\ \A t \in Thread : ret[t] = "absent" => pc[t] = "putPool"
    BY DEF IInv, Returns
  <1>10. ASSUME MayRunLong(w) PROVE IInv'
    <2> DEFINE k == IF pool.busy >= pool.workers /\ CanGrow THEN 1 ELSE 0
    <2>1. k \in Nat
      OBVIOUS
    <2>2. PICK new \in NewWorkers(k) : pc' = StartWorkers(new, pc) /\ pool' = Started(new) /\ UNCHANGED ret
      BY <1>10 DEF MayRunLong, Growth
    <2> HIDE DEF k
    <2>3. ~pool'.shutdown /\ pool'.objcount > 0 => pool'.workers > 0
      BY <2>1, <2>2, StartedFields DEF IInv, PoolHasWorker, Counted, PoolType
    <2>4. pool' \in PoolType /\ pool'.workers = pool.workers + k
      BY <2>1, <2>2, StartedFields
    <2> QED
      BY <1>9, <2>1, <2>2, <2>3, <2>4, StartIInv
  <1>11. ASSUME NEW o \in Work, Post(w, o) PROVE IInv'
    BY <1>9, <1>11, SubmitIInv DEF Post
  <1> QED
    BY <1>1, <1>2, <1>3, <1>4, <1>5, <1>6, <1>7, <1>8, <1>10, <1>11, CommonIInv DEF WorkerStep, CallbackCall

\* tp_object_cancel, by a client that then goes on at next.
LEMMA CancelIInv ==
  ASSUME IInv, NEW c \in Client, NEW o, NEW from \in Locations, NEW next \in Locations \ {"absent"},
         pc[c] = from, from \notin {"absent", "putPool"}, Cancel(c, o, next), UNCHANGED pool
  PROVE  IInv'
  <1>1. PICK to \in Locations \ {"absent"}, r \in Locations \ {"absent"} :
          Move(c, from, to) /\ ret' = [ret EXCEPT ![c] = r]
    BY DEF Cancel, Move, Locations
  <1> QED
    BY <1>1, StepIInv DEF Thread

\* The steps of a call under way.
LEMMA ClientIInv ==
  ASSUME IInv, NEW c \in Client, ClientStep(c) \/ Spurious(c)
  PROVE  IInv'
  <1>1. c \in Thread /\ c \notin Worker
    BY ThreadPoolAssumption DEF Thread
  <1>2. ASSUME SubmitSimple(c) PROVE IInv'
    <2> DEFINE pcs == [pc EXCEPT ![c] = "join"]
    <2>1. pcs \in [Thread -> Locations] /\ \A w \in Worker : pcs[w] = pc[w]
      BY <1>1 DEF IInv, Returns, Locations, Thread
    <2>2. \A t \in Thread : ret[t] = "absent" => pcs[t] = "putPool"
      BY <1>2 DEF IInv, Returns, SubmitSimple
    <2>3. Submit(cur[c], pcs) /\ UNCHANGED ret
      BY <1>2 DEF SubmitSimple
    <2> HIDE DEF pcs
    <2> QED
      BY <2>1, <2>2, <2>3, SubmitIInv
  <1>3. ASSUME Join(c) PROVE IInv'
    <2>1. CASE cur[c] \in Work
      BY <1>1, <1>3, <2>1, StepIInv DEF Join, Locations
    <2>2. CASE cur[c] \notin Work
      BY <1>1, <1>3, <2>2, StepIInv DEF Join, Locations
    <2> QED
      BY <2>1, <2>2
  <1>4. ASSUME Wait(c) PROVE IInv'
    <2>1. CASE IsFinished(cur[c])
      BY <1>1, <1>4, <2>1, StepIInv DEF Wait, Locations
    <2>2. CASE ~IsFinished(cur[c])
      BY <1>1, <1>4, <2>2, StepIInv DEF Wait, SleepOn, Locations
    <2> QED
      BY <2>1, <2>2
  <1>5. ASSUME CancelMember(c) PROVE IInv'
    <2>1. CASE todo[c].cancel = <<>>
      BY <1>1, <1>5, <2>1, StepIInv DEF CancelMember, Locations
    <2>2. CASE todo[c].cancel # <<>>
      BY <1>5, <2>2, CancelIInv DEF CancelMember, Locations
    <2> QED
      BY <2>1, <2>2
  <1>6. ASSUME WaitForMember(c) PROVE IInv'
    <2>1. PICK to \in Locations \ {"absent"} : Move(c, "groupWait", to)
      BY <1>6 DEF WaitForMember, Locations
    <2>2. UNCHANGED pool /\ (UNCHANGED ret \/ ret' = [ret EXCEPT ![c] = "groupWait"])
      BY <1>6 DEF WaitForMember, SleepOn
    <2> QED
      BY <1>1, <2>1, <2>2, StepIInv DEF Locations
  <1>7. ASSUME ReleaseMember(c) PROVE IInv'
    <2>1. PICK to \in Locations \ {"absent"}, r \in Locations \ {"absent"} :
            Move(c, "memberDone", to) /\ ret' = [ret EXCEPT ![c] = r]
      BY <1>7 DEF ReleaseMember, Locations
    <2>2. UNCHANGED pool
      BY <1>7 DEF ReleaseMember
    <2> QED
      BY <1>1, <2>1, <2>2, StepIInv DEF Locations
  <1>8. ASSUME ShutdownMember(c) PROVE IInv'
    BY <1>1, <1>8, StepIInv DEF ShutdownMember, Locations
  <1> QED
    BY <1>1, <1>2, <1>3, <1>4, <1>5, <1>6, <1>7, <1>8, CommonIInv DEF ClientStep

\* The API calls, up to their first critical section.
LEMMA CallIInv ==
  ASSUME IInv, NEW c \in Client, Call(c)
  PROVE  IInv'
  <1>1. c \in Thread /\ c \notin Worker
    BY ThreadPoolAssumption DEF Thread
  <1>2. pc \in [Thread -> Locations] /\ \A t \in Thread : ret[t] = "absent" => pc[t] = "putPool"
    BY DEF IInv, Returns
  <1>3. ASSUME NEW o \in Object, Alloc(c, o) PROVE IInv'
    <2> DEFINE pcs == [pc EXCEPT ![c] = IF o \in Work THEN "join" ELSE "submit"]
               k == IF pool.workers = 0 THEN 1 ELSE 0
    <2>1. pcs \in [Thread -> Locations] /\ \A w \in Worker : pcs[w] = pc[w]
      BY <1>1, <1>2 DEF Locations, Thread
    <2>2. \A t \in Thread : ret[t] = "absent" => pcs[t] = "putPool"
      BY <1>2, <1>3 DEF Alloc, MayCall
    <2>3. PICK new \in NewWorkers(k) :
            /\ pc' = StartWorkers(new, pcs)
            /\ pool' = [Started(new) EXCEPT !.ref = @ + 1, !.objcount = @ + 1]
            /\ UNCHANGED ret
      BY <1>3 DEF Alloc, LockPool
    <2>4. k \in Nat /\ pool.workers \in Nat /\ pool.workers + k > 0
      BY DEF IInv, Counted, PoolType
    <2> HIDE DEF pcs, k
    <2>5. Started(new) \in PoolType /\ Started(new).workers = pool.workers + k
      BY <2>4, StartedFields
    <2>6. pool' \in PoolType /\ pool'.workers = pool.workers + k
      <3> DEFINE s == Started(new)
      <3>1. pool' = [s EXCEPT !.ref = @ + 1, !.objcount = @ + 1] /\ s \in PoolType
        BY <2>3, <2>5
      <3>2. s.ref + 1 \in Int /\ s.objcount + 1 \in Int
        BY <3>1 DEF PoolType
      <3> HIDE DEF s
      <3>3. pool' \in PoolType /\ pool'.workers = s.workers
        BY <3>1, <3>2 DEF PoolType
      <3> QED
        BY <2>5, <3>3 DEF s
    <2>7. pool'.workers > 0
      BY <2>4, <2>6
    <2> QED
      BY <2>1, <2>2, <2>3, <2>4, <2>6, <2>7, StartIInv
  <1>4. ASSUME NEW o \in Work, Post(c, o) PROVE IInv'
    BY <1>2, <1>4, SubmitIInv DEF Post
  <1>5. ASSUME NEW o \in Work, ReleaseWork(c, o) PROVE IInv'
    BY <1>1, <1>5, StepIInv DEF ReleaseWork, Locations
  <1>6. ASSUME NEW o \in Work, NEW cancel \in BOOLEAN, WaitForWork(c, o, cancel) PROVE IInv'
    <2>1. CASE cancel
      BY <1>6, <2>1, CancelIInv DEF WaitForWork, MayCall, Locations
    <2>2. CASE ~cancel
      BY <1>1, <1>6, <2>2, StepIInv DEF WaitForWork, Locations
    <2> QED
      BY <2>1, <2>2
  <1>7. ASSUME NEW cancel \in BOOLEAN, ReleaseMembers(c, cancel) PROVE IInv'
    BY <1>1, <1>7, StepIInv DEF ReleaseMembers, Locations
  <1>8. ASSUME ReleaseGroup(c) PROVE IInv'
    <2>1. UNCHANGED <<pool, pc, ret>>
      BY <1>8 DEF ReleaseGroup
    <2> QED
      BY <2>1 DEF IInv, Returns, Counted, Active, PoolHasWorker
  <1>9. ASSUME ReleasePool(c) PROVE IInv'
    <2>1. Returns' /\ Active' = Active
      BY <1>1, <1>9, MoveIInv DEF ReleasePool, Locations
    <2>2. pool' = [pool EXCEPT !.shutdown = TRUE] /\ pool \in PoolType
      BY <1>9 DEF ReleasePool, IInv, Counted
    <2>3. pool' \in PoolType /\ pool'.workers = pool.workers /\ pool'.objcount = pool.objcount
          /\ pool'.shutdown /\ pool.objcount \in Int
      BY <2>2 DEF PoolType
    <2> QED
      BY <2>1, <2>3, QuietIInv
  <1>10. ASSUME NEW m \in 1 .. MaxWorkers, SetMaxThreads(c, m) PROVE IInv'
    <2>1. UNCHANGED <<pc, ret>>
      BY <1>10 DEF SetMaxThreads
    <2>2. Returns' /\ Active' = Active
      BY <2>1 DEF IInv, Returns, Active
    <2>3. pool' = [pool EXCEPT !.max = m, !.min = IF @ < m THEN @ ELSE m] /\ pool \in PoolType
      BY <1>10 DEF SetMaxThreads, IInv, Counted
    <2>4. m \in Nat
      BY ThreadPoolAssumption
    <2>5. pool' \in PoolType /\ pool'.workers = pool.workers /\ pool'.objcount = pool.objcount
          /\ pool'.shutdown = pool.shutdown /\ pool.objcount \in Int
      <3> DEFINE x == IF pool.min < m THEN pool.min ELSE m
      <3>1. pool' = [pool EXCEPT !.max = m, !.min = x] /\ pool \in PoolType
        BY <2>3
      <3>2. pool.min \in Nat
        BY <3>1 DEF PoolType
      <3>3. x \in Nat
        BY <2>4, <3>2
      <3> HIDE DEF x
      <3>4. m \in Int
        BY <2>4
      <3> QED
        BY <3>1, <3>3, <3>4 DEF PoolType
    <2> QED
      BY <2>2, <2>5, QuietIInv
  <1>11. ASSUME NEW m \in 0 .. MaxWorkers, SetMinThreads(c, m) PROVE IInv'
    <2> DEFINE want == IF m > pool.workers THEN m - pool.workers ELSE 0
               got == IF want <= Cardinality(Absent) THEN want ELSE Cardinality(Absent)
    <2>1. m \in Nat /\ pool.workers \in Nat /\ Cardinality(Absent) \in Nat
      BY ThreadPoolAssumption, WorkersFinite DEF IInv, Counted, PoolType, Absent
    <2>2. got \in Nat
      BY <2>1
    <2>3. PICK new \in NewWorkers(got) :
            /\ pc' = StartWorkers(new, pc)
            /\ pool' = IF got < want THEN Started(new)
                       ELSE [Started(new) EXCEPT !.min = m, !.max = IF @ > m THEN @ ELSE m]
            /\ UNCHANGED ret
      BY <1>11 DEF SetMinThreads
    <2> HIDE DEF want, got
    <2>4. /\ Started(new) \in PoolType
          /\ Started(new).workers = pool.workers + got
          /\ Started(new).objcount = pool.objcount
          /\ Started(new).shutdown = pool.shutdown
      BY <2>2, StartedFields
    <2>5. /\ pool' \in PoolType
          /\ pool'.workers = pool.workers + got
          /\ pool'.objcount = pool.objcount
          /\ pool'.shutdown = pool.shutdown
      <3>1. CASE got < want
        BY <2>3, <2>4, <3>1
      <3>2. CASE ~(got < want)
        <4> DEFINE s == Started(new)
                   x == IF s.max > m THEN s.max ELSE m
        <4>1. pool' = [s EXCEPT !.min = m, !.max = x] /\ s \in PoolType
          BY <2>3, <2>4, <3>2
        <4>2. x \in Int
          BY <2>1, <4>1 DEF PoolType
        <4> HIDE DEF s, x
        <4>3. /\ pool' \in PoolType
              /\ pool'.workers = s.workers
              /\ pool'.objcount = s.objcount
              /\ pool'.shutdown = s.shutdown
          BY <2>1, <4>1, <4>2 DEF PoolType
        <4> QED
          BY <2>4, <4>3 DEF s
      <3> QED
        BY <3>1, <3>2
    <2>6. ~pool'.shutdown /\ pool'.objcount > 0 => pool'.workers > 0
      BY <2>1, <2>2, <2>5 DEF IInv, PoolHasWorker
    <2> QED
      BY <1>2, <2>2, <2>3, <2>5, <2>6, StartIInv
  <1> QED
    BY <1>3, <1>4, <1>5, <1>6, <1>7, <1>8, <1>9, <1>10, <1>11 DEF Call

\* Every step preserves the invariant.
LEMMA NextIInv == IInv /\ [Next]_vars => IInv'
  <1> SUFFICES ASSUME IInv, [Next]_vars PROVE IInv'
    OBVIOUS
  <1>1. CASE UNCHANGED vars
    BY <1>1 DEF vars, IInv, Returns, Counted, Active, PoolHasWorker
  <1> QED
    BY <1>1, WorkerIInv, ClientIInv, CallIInv DEF Next

\* tp_threadpool_lock: "it is guaranteed that there is at least one worker thread to
\* process tasks", and the guarantee lasts as long as an object is there and the
\* pool is not shut down, however the workers' timeouts, the limits set by
\* TpSetPoolMinThreads and TpSetPoolMaxThreads, and the callers interleave.
THEOREM ThreadPoolHasWorker == Spec => []PoolHasWorker
  <1>1. Spec => []IInv
    BY InitIInv, NextIInv, PTL DEF Spec
  <1>2. IInv => PoolHasWorker
    BY DEF IInv
  <1> QED
    BY <1>1, <1>2, PTL
=============================================================================
