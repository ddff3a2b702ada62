------------------------------- MODULE Futex -------------------------------
(***************************************************************************)
(* RtlWaitOnAddress and RtlWakeAddress* (dlls/ntdll/sync.c) over           *)
(* NtAlertThreadByThreadId and NtWaitForAlertByThreadId                    *)
(* (dlls/ntdll/unix/sync.c, the futex build).  One hash bucket: every      *)
(* address of Addr shares the queue and its spinlock.  A waiter's entry    *)
(* lives on its stack, so the waiter reads entry.addr without the lock     *)
(* while a waker may be clearing it.  The waker clears entry.addr and      *)
(* then unlinks the entry: two steps, in the source's order.               *)
(*                                                                         *)
(* When the waiter has already returned at the second of these steps, the  *)
(* waker unlinks an entry that no longer exists and the outcome is         *)
(* undefined (DanglingUnlink); the model takes no further step from such a *)
(* state and claims nothing about what follows it.                         *)
(***************************************************************************)
EXTENDS Integers, FiniteSets, AddressWait

CONSTANTS Waiter,       \* threads that call RtlWaitOnAddress
          Waker,        \* threads that call RtlWakeAddress*
          Timed,        \* waiters that pass a timeout
          Addr, Val,
          TidsSize,     \* ARRAY_SIZE(tids), 256 in the code
          NoThread, NullAddr

Thread == Waiter \cup Waker

ASSUME FutexAssumption ==
    /\ Timed \subseteq Waiter
    /\ TidsSize \in Nat \ {0}
    /\ NoThread \notin Thread /\ NullAddr \notin Addr

VARIABLES mem,      \* memory waited on, written by anybody
          lock,     \* holder of the bucket's spinlock
          list,     \* the bucket's entries, by the thread they belong to
          entry,    \* entry[t]: the addr field of t's entry
          alert,    \* alert[t]: t's tid_alert_entry
          pc,
          call,     \* arguments of the current call
          target,   \* entry a waker is unlinking
          tids      \* buffered wakes

vars == <<mem, lock, list, entry, alert, pc, call, target, tids>>

Move(t, from, to) == pc[t] = from /\ pc' = [pc EXCEPT ![t] = to]

Init ==
    /\ mem \in [Addr -> Val]
    /\ lock = NoThread
    /\ list = <<>>
    /\ entry = [t \in Thread |-> NullAddr]
    /\ alert = [t \in Thread |-> FALSE]
    /\ pc = [t \in Thread |-> "idle"]
    /\ call = [t \in Thread |-> [op |-> "wait", addr |-> NullAddr, val |-> NullAddr]]
    /\ target = [t \in Thread |-> NoThread]
    /\ tids = [t \in Thread |-> <<>>]

-----------------------------------------------------------------------------
Store ==
    /\ mem' \in [Addr -> Val]
    /\ mem' # mem
    /\ UNCHANGED <<lock, list, entry, alert, pc, call, target, tids>>

SpinLock(t, from, to) == lock = NoThread /\ lock' = t /\ Move(t, from, to)

-----------------------------------------------------------------------------
(* RtlWaitOnAddress *)

CallWait(t) ==
    /\ Move(t, "idle", "waitLock")
    /\ \E a \in Addr, v \in Val :
          /\ call' = [call EXCEPT ![t] = [op |-> "wait", addr |-> a, val |-> v]]
          /\ entry' = [entry EXCEPT ![t] = a]
    /\ UNCHANGED <<mem, lock, list, alert, target, tids>>

LockToWait(t) ==
    /\ SpinLock(t, "waitLock", "compare")
    /\ UNCHANGED <<mem, list, entry, alert, call, target, tids>>

\* compare_addr, under the spinlock; the memory itself is not protected by it.
Compare(t) ==
    /\ pc[t] = "compare"
    /\ IF mem[call[t].addr] = call[t].val
       THEN Move(t, "compare", "link") /\ UNCHANGED lock
       ELSE Move(t, "compare", "idle") /\ lock' = NoThread
    /\ UNCHANGED <<mem, list, entry, alert, call, target, tids>>

Link(t) ==
    /\ Move(t, "link", "alertable")
    /\ list' = Append(list, t)
    /\ lock' = NoThread
    /\ UNCHANGED <<mem, entry, alert, call, target, tids>>

\* NtWaitForAlertByThreadId: the exchange finds the flag set ...
TakeAlert(t) ==
    /\ Move(t, "alertable", "recheck")
    /\ alert[t]
    /\ alert' = [alert EXCEPT ![t] = FALSE]
    /\ UNCHANGED <<mem, lock, list, entry, call, target, tids>>

\* ... or the host futex times out, even if the flag is being set right then.
TimeOut(t) ==
    /\ t \in Timed
    /\ Move(t, "alertable", "recheck")
    /\ UNCHANGED <<mem, lock, list, entry, alert, call, target, tids>>

\* "if (entry.addr)" without the lock.
Recheck(t) ==
    /\ Move(t, "recheck", IF entry[t] = NullAddr THEN "idle" ELSE "removeLock")
    /\ UNCHANGED <<mem, lock, list, entry, alert, call, target, tids>>

LockToRemove(t) ==
    /\ SpinLock(t, "removeLock", "remove")
    /\ UNCHANGED <<mem, list, entry, alert, call, target, tids>>

RemoveSelf(t) ==
    /\ Move(t, "remove", "idle")
    /\ list' = IF entry[t] = NullAddr THEN list ELSE Remove(list, t)
    /\ lock' = NoThread
    /\ UNCHANGED <<mem, entry, alert, call, target, tids>>

-----------------------------------------------------------------------------
(* RtlWakeAddressSingle, RtlWakeAddressAll *)

CallWake(k) ==
    /\ Move(k, "idle", "wakeLock")
    /\ \E a \in Addr, op \in {"single", "all"} :
          call' = [call EXCEPT ![k] = [op |-> op, addr |-> a, val |-> NullAddr]]
    /\ UNCHANGED <<mem, lock, list, entry, alert, target, tids>>

LockToWake(k) ==
    /\ SpinLock(k, "wakeLock", "scan")
    /\ UNCHANGED <<mem, list, entry, alert, call, target, tids>>

\* Mutant: takes the youngest waiter.
LastEntry(a) == SelectLastInSeq(list, LAMBDA t : entry[t] = a)

\* Position of the first entry for the address, 0 if there is none.
FirstEntry(a) == SelectInSeq(list, LAMBDA t : entry[t] = a)

\* "entry->addr = NULL": the waiter can see this before it is unlinked.
ClearEntry(k) ==
    /\ Move(k, "scan", "unlink")
    /\ FirstEntry(call[k].addr) # 0
    /\ target' = [target EXCEPT ![k] = list[FirstEntry(call[k].addr)]]
    /\ entry' = [entry EXCEPT ![target'[k]] = NullAddr]
    /\ UNCHANGED <<mem, lock, list, alert, call, tids>>

\* Mutant: drops the wakes that do not fit in the buffer.
UnlinkDropping(k) ==
    /\ Move(k, "unlink", IF call[k].op = "all" THEN "scan" ELSE "alert")
    /\ list' = Remove(list, target[k])
    /\ lock' = IF call[k].op = "all" THEN lock ELSE NoThread
    /\ tids' = IF Len(tids[k]) = TidsSize THEN tids
               ELSE [tids EXCEPT ![k] = Append(@, target[k])]
    /\ UNCHANGED <<mem, entry, alert, call, target>>

\* list_remove; RtlWakeAddressAll alerts at once when its buffer is full, and
\* goes on to the next entry; RtlWakeAddressSingle unlocks.
Unlink(k) ==
    /\ Move(k, "unlink", IF call[k].op = "all" THEN "scan" ELSE "alert")
    /\ list' = Remove(list, target[k])
    /\ lock' = IF call[k].op = "all" THEN lock ELSE NoThread
    /\ IF call[k].op = "all" /\ Len(tids[k]) = TidsSize
       THEN alert' = [alert EXCEPT ![target[k]] = TRUE] /\ UNCHANGED tids
       ELSE tids' = [tids EXCEPT ![k] = Append(@, target[k])] /\ UNCHANGED alert
    /\ UNCHANGED <<mem, entry, call, target>>

EndScan(k) ==
    /\ FirstEntry(call[k].addr) = 0
    /\ Move(k, "scan", "alert")
    /\ lock' = NoThread
    /\ UNCHANGED <<mem, list, entry, alert, call, target, tids>>

\* NtAlertThreadByThreadId for each buffered thread.
Alert(k) ==
    /\ tids[k] # <<>>
    /\ pc[k] = "alert"
    /\ alert' = [alert EXCEPT ![Head(tids[k])] = TRUE]
    /\ tids' = [tids EXCEPT ![k] = Tail(@)]
    /\ UNCHANGED <<mem, lock, list, entry, pc, call, target>>

EndWake(k) ==
    /\ tids[k] = <<>>
    /\ Move(k, "alert", "idle")
    /\ UNCHANGED <<mem, lock, list, entry, alert, call, target, tids>>

-----------------------------------------------------------------------------
WaitStep(t) ==
    \/ LockToWait(t) \/ Compare(t) \/ Link(t) \/ TakeAlert(t)
    \/ Recheck(t) \/ LockToRemove(t) \/ RemoveSelf(t)

WakeStep(k) ==
    \/ LockToWake(k) \/ ClearEntry(k) \/ Unlink(k) \/ EndScan(k)
    \/ Alert(k) \/ EndWake(k)

\* A thread inside RtlWaitOnAddress, whose stack entry exists.
EntryExists(t) == pc[t] \in {"alertable", "recheck", "removeLock", "remove"}

DanglingUnlink == \E k \in Waker : pc[k] = "unlink" /\ ~EntryExists(target[k])

Next ==
    /\ ~DanglingUnlink
    /\ \/ Store
       \/ \E t \in Waiter : CallWait(t) \/ TimeOut(t) \/ WaitStep(t)
       \/ \E k \in Waker : CallWake(k) \/ WakeStep(k)

Spec == Init /\ [][Next]_vars

\* Every thread that runs is scheduled; nobody is obliged to start a call.
FairSpec ==
    /\ Spec
    /\ \A t \in Waiter : WF_vars(~DanglingUnlink /\ WaitStep(t))
    /\ \A k \in Waker : WF_vars(~DanglingUnlink /\ WakeStep(k))

-----------------------------------------------------------------------------

\* No alert is lost: a waiter whose entry a waker has cleared, and that still
\* waits in NtWaitForAlertByThreadId, has its flag set or is in the hands of a
\* waker that will set it.  Wakers alert after unlocking, by a saved thread id.
NoLostAlert ==
    \A t \in Waiter :
        pc[t] = "alertable" /\ entry[t] = NullAddr =>
            \/ alert[t]
            \/ \E k \in Waker : \/ pc[k] = "unlink" /\ target[k] = t
                                \/ \E i \in DOMAIN tids[k] : tids[k][i] = t

\* A cleared entry is off the list when its owner sees it cleared and returns
\* without the lock: "We may have already been removed by a call to
\* RtlWakeAddressSingle() or RtlWakeAddressAll()" (sync.c, RtlWaitOnAddress).
ClearedMeansRemoved == ~DanglingUnlink

\* A waiter that a wake has taken off the queue does return.
WokenReturns ==
    \A t \in Waiter :
        pc[t] = "alertable" /\ entry[t] = NullAddr ~> pc[t] = "idle" \/ DanglingUnlink

-----------------------------------------------------------------------------
(* The implementation does what AddressWaitSpec promises.  A wait takes     *)
(* effect when it compares; a single wake when it clears the entry; a wake  *)
(* of all when it gets the lock.                                            *)

NoWait == [addr |-> NullAddr, val |-> NullAddr, asleep |-> FALSE]

WaitOf(t) ==
    IF t \notin Waiter \/ pc[t] = "idle" THEN NoWait
    ELSE [addr |-> call[t].addr, val |-> call[t].val,
          asleep |-> pc[t] \notin {"waitLock", "compare"}]

\* Entries a wake of all has yet to clear are already woken.
WokenByAll(t) ==
    \E k \in Waker : /\ pc[k] \in {"scan", "unlink"}
                     /\ call[k].op = "all" /\ call[k].addr = entry[t]

QueueOf ==
    LET linked == SelectSeq(list, LAMBDA t : entry[t] # NullAddr /\ ~WokenByAll(t))
        linking == SelectSeq(<<lock>>, LAMBDA t : t # NoThread /\ pc[t] = "link")
        all == linked \o linking
    IN  [i \in DOMAIN all |-> FutexEntry(all[i], entry[all[i]])]

Abstract == INSTANCE AddressWaitSpec WITH
                queue <- QueueOf, wait <- [t \in Thread |-> WaitOf(t)]

\* RtlWaitOnAddress and RtlWakeAddress* implement the atomic queue the locks of
\* ntdll rely on, up to a dangling unlink.
ImplementsAddressWait == Abstract!Spec
=============================================================================
