-------------------------- MODULE AddressWaitSpec --------------------------
(***************************************************************************)
(* The promise of RtlWaitOnAddress and RtlWakeAddress*, as a               *)
(* specification: comparing and going to sleep is one step, sleepers are   *)
(* woken in the order in which they went to sleep, a wake takes exactly    *)
(* the waiters it must, and a wait may also end on its own.                *)
(***************************************************************************)
EXTENDS AddressWait

CONSTANTS Thread, Addr, Val, NoWait

VARIABLES mem,      \* the memory waited on
          queue,    \* sleepers not yet woken, oldest first
          wait      \* each thread's call of RtlWaitOnAddress, NoWait outside one

vars == <<mem, queue, wait>>

Init ==
    /\ mem \in [Addr -> Val]
    /\ queue = <<>>
    /\ wait = [t \in Thread |-> NoWait]

Store == mem' \in [Addr -> Val] /\ UNCHANGED <<queue, wait>>

Call(t) ==
    /\ wait[t] = NoWait
    /\ \E a \in Addr, v \in Val :
          wait' = [wait EXCEPT ![t] = [addr |-> a, val |-> v, asleep |-> FALSE]]
    /\ UNCHANGED <<mem, queue>>

\* Only while the memory still holds the value does the caller go to sleep.
Sleep(t) ==
    /\ wait[t] # NoWait
    /\ ~wait[t].asleep
    /\ mem[wait[t].addr] = wait[t].val
    /\ wait' = [wait EXCEPT ![t].asleep = TRUE]
    /\ queue' = AddWaiter(queue, t, wait[t].addr)
    /\ UNCHANGED mem

WakeOne(a) == queue' = WakeAddressSingle(queue, a) /\ UNCHANGED <<mem, wait>>

WakeAll(a) == queue' = WakeAddressAll(queue, a) /\ UNCHANGED <<mem, wait>>

\* The call ends: the value differed, or the sleeper was woken, timed out or
\* was alerted for another reason.
Return(t) ==
    /\ wait[t] # NoWait
    /\ wait[t].asleep \/ mem[wait[t].addr] # wait[t].val
    /\ wait' = [wait EXCEPT ![t] = NoWait]
    /\ queue' = RemoveWaiter(queue, t)
    /\ UNCHANGED mem

Next ==
    \/ Store
    \/ \E t \in Thread : Call(t) \/ Sleep(t) \/ Return(t)
    \/ \E a \in Addr : WakeOne(a) \/ WakeAll(a)

Spec == Init /\ [][Next]_vars
=============================================================================
