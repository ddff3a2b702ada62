---------------------------- MODULE MCThreadPool ----------------------------
(* Instances of ThreadPool for TLC: one client that uses a work object, and   *)
(* one that posts a simple callback and releases the group and the pool.      *)
EXTENDS ThreadPool

CONSTANTS w1, w2, w3, c1, c2, work, simple

SamePriority == [o \in {work, simple} |-> 2]
TwoPriorities == [o \in {work, simple} |-> IF o = work THEN 1 ELSE 3]
Owner == {"alloc", "post", "wait", "cancel", "release"}
Closer == {"simple", "groupWait", "groupCancel", "closeGroup", "closePool"}
Tuner == {"simple", "closePool", "setMin", "setMax"}
OwnerAndTuner == c1 :> Owner @@ c2 :> Tuner
TwoWaiters == c1 :> {"alloc", "post", "wait"} @@ c2 :> {"cancel"}
OwnerAndCloser == c1 :> Owner @@ c2 :> Closer
WorkerSymmetry == Permutations(Worker)
=============================================================================
