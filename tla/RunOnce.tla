------------------------------ MODULE RunOnce ------------------------------
(***************************************************************************)
(* One-time initialization, RtlRunOnce* (dlls/ntdll/sync.c).  The two low  *)
(* bits of the word say whether initialization has not begun (0), is in    *)
(* progress (1), is done (2), or is in progress in any number of threads   *)
(* (3, asynchronous).  While it is in progress the rest of the word is the *)
(* head of a list of waiters: each node is the local variable "next" on    *)
(* the stack of its thread, and its address is also the key of the keyed   *)
(* event its thread waits for.  When it is done the rest is the context.   *)
(*                                                                         *)
(* A load of the word and the compare-and-swap that follows are different  *)
(* steps.  Clients keep the contract: a thread calls RtlRunOnceComplete    *)
(* once for every STATUS_PENDING, with the same RTL_RUN_ONCE_ASYNC flag.   *)
(* The context a thread stores is its own name.                            *)
(***************************************************************************)
EXTENDS Integers, FiniteSets, Threads, KeyedEvent

CONSTANT Caller     \* threads that use this RTL_RUN_ONCE

ASSUME RunOnceAssumption == Caller \subseteq Thread /\ NoThread \notin Thread

VARIABLES once,         \* once->Ptr: the two low bits and the rest
          onceNext,     \* the local variable "next" of a waiter, and of the walk
          onceVal,      \* the local variable "val"
          oncePc,
          onceAsync,    \* RTL_RUN_ONCE_ASYNC in the caller's flags
          onceNew,      \* what RtlRunOnceComplete stores
          onceGot       \* the context a thread was given with STATUS_SUCCESS

onceVars == <<once, onceNext, onceVal, oncePc, onceAsync, onceNew, onceGot, keyedQueue>>

Word(tag, ptr) == [tag |-> tag, ptr |-> ptr]

OnceMove(t, from, to) == oncePc[t] = from /\ oncePc' = [oncePc EXCEPT ![t] = to]

\* RtlRunOnceInitialize
OnceInit ==
    /\ once = Word(0, NoThread)
    /\ onceNext = [t \in Caller |-> NoThread]
    /\ onceVal = [t \in Caller |-> Word(0, NoThread)]
    /\ oncePc = [t \in Caller |-> "idle"]
    /\ onceAsync = [t \in Caller |-> FALSE]
    /\ onceNew = [t \in Caller |-> Word(0, NoThread)]
    /\ onceGot = [t \in Caller |-> NoThread]
    /\ keyedQueue = <<>>

-----------------------------------------------------------------------------
(* RtlRunOnceBeginInitialize *)

OnceBegin(t) ==
    /\ OnceMove(t, "idle", "load")
    /\ onceAsync' \in {[onceAsync EXCEPT ![t] = a] : a \in BOOLEAN}
    /\ UNCHANGED <<once, onceNext, onceVal, onceNew, onceGot, keyedQueue>>

\* RTL_RUN_ONCE_CHECK_ONLY: one load.
OnceCheckOnly(t) ==
    /\ oncePc[t] = "idle"
    /\ once.tag = 2
    /\ onceGot' = [onceGot EXCEPT ![t] = once.ptr]
    /\ UNCHANGED <<once, onceNext, onceVal, oncePc, onceAsync, onceNew, keyedQueue>>

\* Each turn of the loop has a "next" of its own.
OnceLoad(t) ==
    /\ OnceMove(t, "load", "switch")
    /\ onceVal' = [onceVal EXCEPT ![t] = once]
    /\ onceNext' = [onceNext EXCEPT ![t] = NoThread]
    /\ UNCHANGED <<once, onceAsync, onceNew, onceGot, keyedQueue>>

\* The compare-and-swap of the word with val.
Swap(t, new, done, failed) ==
    IF once = onceVal[t]
    THEN once' = new /\ oncePc' = [oncePc EXCEPT ![t] = done]
    ELSE oncePc' = [oncePc EXCEPT ![t] = failed] /\ UNCHANGED once

\* Mutant: stores the word without comparing.
FirstTimeStores(t) ==
    /\ oncePc[t] = "switch" /\ onceVal[t].tag = 0
    /\ once' = Word(IF onceAsync[t] THEN 3 ELSE 1, NoThread)
    /\ oncePc' = [oncePc EXCEPT ![t] = "initialize"]
    /\ UNCHANGED <<onceNext, onceVal, onceAsync, onceNew, onceGot, keyedQueue>>

\* case 0: STATUS_PENDING for the thread whose swap succeeds.
FirstTime(t) ==
    /\ oncePc[t] = "switch" /\ onceVal[t].tag = 0
    /\ Swap(t, Word(IF onceAsync[t] THEN 3 ELSE 1, NoThread), "initialize", "load")
    /\ UNCHANGED <<onceNext, onceVal, onceAsync, onceNew, onceGot, keyedQueue>>

\* case 1: pushes its node and waits; STATUS_INVALID_PARAMETER if asynchronous.
JoinWaiters(t) ==
    /\ oncePc[t] = "switch" /\ onceVal[t].tag = 1
    /\ IF onceAsync[t]
       THEN oncePc' = [oncePc EXCEPT ![t] = "return"] /\ UNCHANGED <<once, onceNext>>
       ELSE /\ onceNext' = [onceNext EXCEPT ![t] = onceVal[t].ptr]
            /\ Swap(t, Word(1, t), "wait", "load")
    /\ UNCHANGED <<onceVal, onceAsync, onceNew, onceGot, keyedQueue>>

\* case 2: STATUS_SUCCESS.
AlreadyDone(t) ==
    /\ onceVal[t].tag = 2
    /\ OnceMove(t, "switch", "return")
    /\ onceGot' = [onceGot EXCEPT ![t] = onceVal[t].ptr]
    /\ UNCHANGED <<once, onceNext, onceVal, onceAsync, onceNew, keyedQueue>>

\* case 3: STATUS_PENDING if asynchronous, STATUS_INVALID_PARAMETER if not.
InProgressAsync(t) ==
    /\ onceVal[t].tag = 3
    /\ OnceMove(t, "switch", IF onceAsync[t] THEN "initialize" ELSE "return")
    /\ UNCHANGED <<once, onceNext, onceVal, onceAsync, onceNew, onceGot, keyedQueue>>

\* NtWaitForKeyedEvent(&next), which loads the word again when it returns.
OnceWait(t) ==
    /\ OnceMove(t, "wait", IF HasPartner("wait", t) THEN "load" ELSE "waiting")
    /\ KeyedSelect(t, "wait", t)
    /\ UNCHANGED <<once, onceNext, onceVal, onceAsync, onceNew, onceGot>>

OnceWoken(t) ==
    /\ ~IsBlocked(t)
    /\ OnceMove(t, "waiting", "load")
    /\ UNCHANGED <<once, onceNext, onceVal, onceAsync, onceNew, onceGot, keyedQueue>>

-----------------------------------------------------------------------------
(* RtlRunOnceComplete *)

\* The initialization has succeeded, or (RTL_RUN_ONCE_INIT_FAILED) failed.
OnceComplete(t) ==
    /\ OnceMove(t, "initialize", "completeLoad")
    /\ \E new \in {Word(2, t)} \cup IF onceAsync[t] THEN {} ELSE {Word(0, NoThread)} :
           onceNew' = [onceNew EXCEPT ![t] = new]
    /\ UNCHANGED <<once, onceNext, onceVal, onceAsync, onceGot, keyedQueue>>

\* A failure of an asynchronous initialization: STATUS_INVALID_PARAMETER.
OnceFailAsync(t) ==
    /\ onceAsync[t]
    /\ OnceMove(t, "initialize", "return")
    /\ UNCHANGED <<once, onceNext, onceVal, onceAsync, onceNew, onceGot, keyedQueue>>

OnceCompleteLoad(t) ==
    /\ OnceMove(t, "completeLoad", "completeSwitch")
    /\ onceVal' = [onceVal EXCEPT ![t] = once]
    /\ UNCHANGED <<once, onceNext, onceAsync, onceNew, onceGot, keyedQueue>>

\* Mutant: takes the list of the load for the list of the swap.
PublishUnchecked(t) ==
    /\ oncePc[t] = "completeSwitch" /\ onceVal[t].tag = 1
    /\ once' = onceNew[t]
    /\ oncePc' = [oncePc EXCEPT ![t] = "walk"]
    /\ UNCHANGED <<onceNext, onceVal, onceAsync, onceNew, onceGot, keyedQueue>>

\* case 1: the swap also takes the whole list of waiters.
Publish(t) ==
    /\ oncePc[t] = "completeSwitch" /\ onceVal[t].tag = 1
    /\ Swap(t, onceNew[t], "walk", "completeLoad")
    /\ UNCHANGED <<onceNext, onceVal, onceAsync, onceNew, onceGot, keyedQueue>>

\* case 3: the first of several initializations wins; STATUS_INVALID_PARAMETER if
\* not asynchronous.
PublishAsync(t) ==
    /\ oncePc[t] = "completeSwitch" /\ onceVal[t].tag = 3
    /\ IF onceAsync[t] THEN Swap(t, onceNew[t], "return", "completeLoad")
       ELSE oncePc' = [oncePc EXCEPT ![t] = "return"] /\ UNCHANGED once
    /\ UNCHANGED <<onceNext, onceVal, onceAsync, onceNew, onceGot, keyedQueue>>

\* default: STATUS_UNSUCCESSFUL.
TooLate(t) ==
    /\ onceVal[t].tag \in {0, 2}
    /\ OnceMove(t, "completeSwitch", "return")
    /\ UNCHANGED <<once, onceNext, onceVal, onceAsync, onceNew, onceGot, keyedQueue>>

\* The end of the list: STATUS_SUCCESS.
WalkEnds(t) ==
    /\ onceVal[t].ptr = NoThread
    /\ OnceMove(t, "walk", "return")
    /\ UNCHANGED <<once, onceNext, onceVal, onceAsync, onceNew, onceGot, keyedQueue>>

\* Reads the node's next pointer into its own variable.
WalkReads(t) ==
    /\ onceVal[t].ptr # NoThread
    /\ OnceMove(t, "walk", "release")
    /\ onceNext' = [onceNext EXCEPT ![t] = onceNext[onceVal[t].ptr]]
    /\ UNCHANGED <<once, onceVal, onceAsync, onceNew, onceGot, keyedQueue>>

\* NtReleaseKeyedEvent(val), which waits for the waiter.
OnceRelease(t) ==
    LET paired == HasPartner("release", onceVal[t].ptr)
    IN  /\ OnceMove(t, "release", IF paired THEN "walk" ELSE "releasing")
        /\ KeyedSelect(t, "release", onceVal[t].ptr)
        /\ onceVal' = IF paired THEN [onceVal EXCEPT ![t].ptr = onceNext[t]] ELSE onceVal
        /\ UNCHANGED <<once, onceNext, onceAsync, onceNew, onceGot>>

OnceReleased(t) ==
    /\ ~IsBlocked(t)
    /\ OnceMove(t, "releasing", "walk")
    /\ onceVal' = [onceVal EXCEPT ![t].ptr = onceNext[t]]
    /\ UNCHANGED <<once, onceNext, onceAsync, onceNew, onceGot, keyedQueue>>

-----------------------------------------------------------------------------
\* The local variables are gone.
OnceReturn(t) ==
    /\ OnceMove(t, "return", "idle")
    /\ onceNext' = [onceNext EXCEPT ![t] = NoThread]
    /\ onceVal' = [onceVal EXCEPT ![t] = Word(0, NoThread)]
    /\ onceAsync' = [onceAsync EXCEPT ![t] = FALSE]
    /\ onceNew' = [onceNew EXCEPT ![t] = Word(0, NoThread)]
    /\ UNCHANGED <<once, onceGot, keyedQueue>>

OnceContinue(t) ==
    \/ OnceLoad(t) \/ FirstTime(t) \/ JoinWaiters(t) \/ AlreadyDone(t) \/ InProgressAsync(t)
    \/ OnceWait(t) \/ OnceWoken(t) \/ OnceComplete(t) \/ OnceFailAsync(t) \/ OnceCompleteLoad(t)
    \/ Publish(t) \/ PublishAsync(t) \/ TooLate(t) \/ WalkEnds(t) \/ WalkReads(t)
    \/ OnceRelease(t) \/ OnceReleased(t) \/ OnceReturn(t)

OnceNext == \E t \in Caller : OnceBegin(t) \/ OnceCheckOnly(t) \/ OnceContinue(t)

OnceSpec == OnceInit /\ [][OnceNext]_onceVars
-----------------------------------------------------------------------------
\* A thread between STATUS_PENDING and its swap in RtlRunOnceComplete.
Initializing(t) == oncePc[t] \in {"initialize", "completeLoad", "completeSwitch"}

\* Synchronous initialization is done by one thread at a time, the word says so,
\* and every thread that is told STATUS_SUCCESS, now or long ago, was given the
\* one context there will ever be.
OnceAgreed ==
    /\ \A t, u \in Caller :
           Initializing(t) /\ ~onceAsync[t] =>
               once.tag = 1 /\ (Initializing(u) /\ ~onceAsync[u] => t = u)
    /\ \A t \in Caller : onceGot[t] # NoThread => once = Word(2, onceGot[t])

\* A thread whose node must be on a list.
Waiter(t) == oncePc[t] = "wait" \/ (oncePc[t] = "waiting" /\ IsBlocked(t))

\* The nodes from p on.
ListFrom(p) ==
    LET reach[k \in 0 .. Cardinality(Caller)] ==
            IF k = 0 THEN {p} \ {NoThread}
            ELSE reach[k - 1] \cup ({onceNext[u] : u \in reach[k - 1]} \ {NoThread})
    IN  reach[Cardinality(Caller)]

\* The nodes thread t has still to release in RtlRunOnceComplete.
ToRelease(t) ==
    CASE oncePc[t] = "walk" -> ListFrom(onceVal[t].ptr)
      [] oncePc[t] = "release" \/ (oncePc[t] = "releasing" /\ IsBlocked(t)) ->
             {onceVal[t].ptr} \cup ListFrom(onceNext[t])
      [] oncePc[t] = "releasing" /\ ~IsBlocked(t) -> ListFrom(onceNext[t])
      [] OTHER -> {}

OnWord == IF once.tag = 1 THEN ListFrom(once.ptr) ELSE {}

\* Every waiter is on exactly one list, that of the word or of one thread that
\* walks the list it took, and a list holds nothing but waiters: RtlRunOnceComplete
\* reads no node of a thread that has returned, and forgets no thread, even when
\* initialization fails and starts over while an old list is still being walked.
OnceWaitersListed ==
    /\ OnWord \cup UNION {ToRelease(t) : t \in Caller} = {t \in Caller : Waiter(t)}
    /\ \A t \in Caller : OnWord \cap ToRelease(t) = {}
    /\ \A t, u \in Caller : t # u => ToRelease(t) \cap ToRelease(u) = {}

\* A thread that waits for the initialization of another is woken when that one
\* succeeds or fails: RtlRunOnceComplete and the keyed event lose nobody.
OnceWaitersReleased == \A t \in Caller : Waiter(t) ~> ~Waiter(t)
=============================================================================
