------------------------------- MODULE Clock -------------------------------
(***************************************************************************)
(* The system time, as the timer and wait queues of                        *)
(* dlls/ntdll/threadpool.c read it.  It stops at MaxTime.                  *)
(***************************************************************************)
EXTENDS Integers

CONSTANTS MaxTime,
          Never     \* a time after all others: EXPIRE_NEVER, INFINITE, MAXLONGLONG

ASSUME ClockAssumption == MaxTime \in Nat /\ Never \in Nat /\ Never > 2 * MaxTime

VARIABLE now

Tick == now < MaxTime /\ now' = now + 1
=============================================================================
