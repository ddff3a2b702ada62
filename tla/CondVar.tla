------------------------------ MODULE CondVar ------------------------------
(***************************************************************************)
(* RTL_CONDITION_VARIABLE (dlls/ntdll/sync.c): a counter that every wake   *)
(* increments and that a sleeper reads before it leaves its critical       *)
(* section and compares, in RtlWaitOnAddress, afterwards.  The counter is  *)
(* kept as what a sleeper can tell of it: seen[t] is the variable t has    *)
(* read and whose counter is still the value read, None when it is not.    *)
(* (A counter of 32 bits is taken not to wrap around between a sleeper's   *)
(* read and its comparison.)                                               *)
(***************************************************************************)
EXTENDS AddressWait

CONSTANT None

VARIABLES seen, queue

\* RtlSleepConditionVariableCS, up to RtlLeaveCriticalSection.
BeginSleep(t, cv) == seen' = [seen EXCEPT ![t] = cv] /\ UNCHANGED queue

\* Its RtlWaitOnAddress: sleeps if the counter has not changed.
Unchanged(t) == seen[t] # None
FallAsleep(t) ==
    /\ queue' = AddWaiter(queue, t, seen[t])
    /\ seen' = [seen EXCEPT ![t] = None]

IsAsleep(t, cv) == seen[t] = cv \/ FutexEntry(t, cv) \in ToSet(queue)

\* The increment that RtlWakeConditionVariable and RtlWakeAllConditionVariable
\* begin with.
Forget(cvs) == seen' = [t \in DOMAIN seen |-> IF seen[t] \in cvs THEN None ELSE seen[t]]

\* RtlWakeConditionVariable
WakeConditionVariable(cv) == Forget({cv}) /\ queue' = WakeAddressSingle(queue, cv)

\* RtlWakeAllConditionVariable, on each variable of a set.
WakeAllConditionVariables(cvs) ==
    /\ Forget(cvs)
    /\ queue' = SelectSeq(queue, LAMBDA e : e.addr \notin cvs)
=============================================================================
