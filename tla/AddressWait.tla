---------------------------- MODULE AddressWait ----------------------------
(***************************************************************************)
(* What the "Win32 futexes" of ntdll promise the locks built on them: one  *)
(* FIFO queue of sleeping threads, each entry naming the address waited    *)
(* on.  RtlWaitOnAddress compares and enqueues in one step (both happen    *)
(* under the queue's spinlock), a wake removes the first entry, or every   *)
(* entry, of its address, and a sleeper may return without having been     *)
(* woken (its alert flag can be stale).  Module Futex models the           *)
(* implementation and is shown to implement this behaviour.                *)
(***************************************************************************)
EXTENDS Sequences, SequencesExt

\* One struct futex_entry on the queue.
FutexEntry(t, a) == [tid |-> t, addr |-> a]

\* Thread t has an entry on queue q.
IsQueued(q, t) == \E i \in DOMAIN q : q[i].tid = t

\* RtlWaitOnAddress: list_add_tail.
AddWaiter(q, t, a) == Append(q, FutexEntry(t, a))

\* RtlWaitOnAddress: the sleeper takes its own entry off the queue.
RemoveWaiter(q, t) == SelectSeq(q, LAMBDA e : e.tid # t)

\* RtlWakeAddressSingle: the oldest waiter of the address leaves the queue.
WakeAddressSingle(q, a) == RemoveFirstMatch(q, LAMBDA e : e.addr = a)

\* RtlWakeAddressAll: every waiter of the address leaves the queue.
WakeAddressAll(q, a) == SelectSeq(q, LAMBDA e : e.addr # a)
=============================================================================
