---------------------------- MODULE KeyedEvent ----------------------------
(***************************************************************************)
(* The keyed event of a process (server/event.c): a rendezvous.  A thread  *)
(* that waits for a key and one that releases it end each other's wait;    *)
(* whichever comes first stays in the event's wait queue.  The server      *)
(* handles a select request, the search for a partner included, before     *)
(* the next request.  (Both calls of RtlRunOnce* have no timeout and are   *)
(* not alertable; suspension is the subject of ServerWait.)                *)
(***************************************************************************)
EXTENDS Sequences, SequencesExt

VARIABLE keyedQueue     \* wait_queue of the keyed event

KeyedEntry(t, op, key) == [tid |-> t, op |-> op, key |-> key]

matching_op(op) == IF op = "wait" THEN "release" ELSE "wait"

\* The entries keyed_event_signaled looks for.
Matches(e, op, key) == e.op = matching_op(op) /\ e.key = key
HasPartner(op, key) == \E i \in DOMAIN keyedQueue : Matches(keyedQueue[i], op, key)

\* Mutant: the partner of any key.
KeyedSelectAnyKey(t, op, key) ==
    keyedQueue' = IF HasPartner(op, key)
                  THEN RemoveFirstMatch(keyedQueue, LAMBDA e : e.op = matching_op(op))
                  ELSE Append(keyedQueue, KeyedEntry(t, op, key))

\* NtWaitForKeyedEvent and NtReleaseKeyedEvent: the select request of thread t.
KeyedSelect(t, op, key) ==
    keyedQueue' = IF HasPartner(op, key)
                  THEN RemoveFirstMatch(keyedQueue, LAMBDA e : Matches(e, op, key))
                  ELSE Append(keyedQueue, KeyedEntry(t, op, key))

\* The thread is blocked in its select.
IsBlocked(t) == \E i \in DOMAIN keyedQueue : keyedQueue[i].tid = t
=============================================================================
