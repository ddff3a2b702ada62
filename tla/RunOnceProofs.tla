--------------------------- MODULE RunOnceProofs ---------------------------
(***************************************************************************)
(* Synchronous initialization is done by one thread at a time, and all     *)
(* threads are given the same context, for every set of threads.           *)
(*                                                                         *)
(* OnceAgreed is not inductive: a thread acts on a value of the word that  *)
(* it loaded some time ago.  The invariant says what an old value still    *)
(* tells: one that says "done" is that of the word for ever, and an        *)
(* asynchronous initialization never meets a synchronous one.              *)
(***************************************************************************)
EXTENDS RunOnce, TLAPS

OnceLocations ==
    {"idle", "load", "switch", "wait", "waiting", "initialize", "completeLoad", "completeSwitch",
     "walk", "release", "releasing", "return"}

Words == [tag : 0 .. 3, ptr : Caller \cup {NoThread}]

OnceTypes ==
    /\ once \in Words
    /\ onceNext \in [Caller -> Caller \cup {NoThread}]
    /\ onceVal \in [Caller -> Words]
    /\ oncePc \in [Caller -> OnceLocations]
    /\ onceAsync \in [Caller -> BOOLEAN]
    /\ onceNew \in [Caller -> Words]
    /\ onceGot \in [Caller -> Caller \cup {NoThread}]

\* A synchronous initialization is the only one, an asynchronous one meets only
\* others of its kind, and stores only a context.
Initializers ==
    \A t \in Caller : Initializing(t) =>
        IF onceAsync[t]
        THEN /\ once.tag \in {2, 3}
             /\ oncePc[t] # "initialize" => onceNew[t].tag = 2
        ELSE once.tag = 1 /\ \A u \in Caller : Initializing(u) => u = t

\* What a thread has loaded, or was given, is still so if it says "done"; and
\* asynchronous initialization only ends in success.
Final ==
    \A t \in Caller :
        /\ onceVal[t].tag = 2 => once = onceVal[t]
        /\ onceVal[t].tag = 3 => once.tag \in {2, 3}
        /\ oncePc[t] \in {"walk", "release", "releasing"} => onceVal[t].tag = 1
        /\ onceGot[t] # NoThread => once = Word(2, onceGot[t])

OnceIInv == OnceTypes /\ Initializers /\ Final

LEMMA OnceInitially == OnceInit => OnceIInv
<1> SUFFICES ASSUME OnceInit PROVE OnceIInv
  OBVIOUS
<1>1. OnceTypes
  BY DEF OnceInit, OnceTypes, Words, Word, OnceLocations
<1>2. Initializers
  BY DEF OnceInit, Initializers, Initializing
<1>3. Final
  BY DEF OnceInit, Final, Word
<1> QED BY <1>1, <1>2, <1>3 DEF OnceIInv

\* A step that leaves the word, and whatever was given, alone.
LEMMA WordKept ==
    ASSUME OnceIInv, NEW t \in Caller, once' = once, onceGot' = onceGot, OnceTypes',
           \A u \in Caller \ {t} : oncePc'[u] = oncePc[u] /\ onceVal'[u] = onceVal[u]
                                   /\ onceAsync'[u] = onceAsync[u] /\ onceNew'[u] = onceNew[u],
           Initializing(t)' => Initializing(t) /\ onceAsync'[t] = onceAsync[t],
           Initializing(t)' /\ onceAsync[t] /\ oncePc'[t] # "initialize" => onceNew'[t].tag = 2,
           onceVal'[t].tag = 2 => once = onceVal'[t], onceVal'[t].tag = 3 => once.tag \in {2, 3},
           oncePc'[t] \in {"walk", "release", "releasing"} => onceVal'[t].tag = 1
    PROVE  OnceIInv'
<1>1. Initializers'
  BY DEF OnceIInv, Initializers, Initializing
<1>2. Final'
  BY DEF OnceIInv, Final
<1> QED BY <1>1, <1>2 DEF OnceIInv

LEMMA OnceInductive ==
    ASSUME OnceIInv, [OnceNext]_onceVars PROVE OnceIInv'
<1>t. OnceTypes /\ Initializers /\ Final
  BY DEF OnceIInv
<1>1. ASSUME NEW t \in Caller, OnceBegin(t) PROVE OnceIInv'
  <2>1. OnceTypes'
    BY <1>1, <1>t DEF OnceBegin, OnceMove, OnceTypes, OnceLocations
  <2> QED BY <1>1, <1>t, <2>1, WordKept DEF OnceBegin, OnceMove, OnceTypes, Initializing, Final
<1>2. ASSUME NEW t \in Caller, OnceCheckOnly(t) PROVE OnceIInv'
  <2>1. OnceTypes'
    BY <1>2, <1>t DEF OnceCheckOnly, OnceTypes, Words
  <2>2. Initializers'
    BY <1>2, <1>t DEF OnceCheckOnly, Initializers, Initializing
  <2>3. once = Word(2, once.ptr)
    BY <1>2, <1>t DEF OnceCheckOnly, OnceTypes, Words, Word
  <2>4. Final'
    BY <1>2, <1>t, <2>3 DEF OnceCheckOnly, OnceTypes, Final
  <2> QED BY <2>1, <2>2, <2>4 DEF OnceIInv
<1>3. ASSUME NEW t \in Caller, OnceLoad(t) PROVE OnceIInv'
  <2>1. OnceTypes'
    BY <1>3, <1>t DEF OnceLoad, OnceMove, OnceTypes, OnceLocations
  <2> QED BY <1>3, <1>t, <2>1, WordKept DEF OnceLoad, OnceMove, OnceTypes, Initializing
<1>4. ASSUME NEW t \in Caller, FirstTime(t) PROVE OnceIInv'
  <2>1. OnceTypes'
    BY <1>4, <1>t DEF FirstTime, Swap, OnceTypes, OnceLocations, Words, Word
  <2>2. CASE once = onceVal[t]
    <3>1. /\ once.tag = 0 /\ once' = Word(IF onceAsync[t] THEN 3 ELSE 1, NoThread)
          /\ oncePc' = [oncePc EXCEPT ![t] = "initialize"]
          /\ UNCHANGED <<onceNext, onceVal, onceAsync, onceNew, onceGot>>
      BY <1>4, <2>2 DEF FirstTime, Swap
    <3>2. \A u \in Caller : ~Initializing(u) /\ onceVal[u].tag \notin {2, 3} /\ onceGot[u] = NoThread
      BY <3>1, <1>t DEF Initializers, Final, Word
    <3>3. Initializers'
      BY <3>1, <3>2, <1>t DEF Initializers, Initializing, OnceTypes, Word
    <3>4. Final'
      BY <3>1, <3>2, <1>t DEF Final, OnceTypes
    <3> QED BY <2>1, <3>3, <3>4 DEF OnceIInv
  <2>3. CASE once # onceVal[t]
    BY <1>4, <1>t, <2>1, <2>3, WordKept DEF FirstTime, Swap, OnceTypes, Initializing, Final
  <2> QED BY <2>2, <2>3
<1>5. ASSUME NEW t \in Caller, JoinWaiters(t) PROVE OnceIInv'
  <2>1. OnceTypes'
    BY <1>5, <1>t DEF JoinWaiters, Swap, OnceTypes, OnceLocations, Words, Word
  <2>2. CASE ~onceAsync[t] /\ once = onceVal[t]
    <3>1. /\ once.tag = 1 /\ once' = Word(1, t)
          /\ oncePc[t] = "switch" /\ oncePc' = [oncePc EXCEPT ![t] = "wait"]
          /\ UNCHANGED <<onceVal, onceAsync, onceNew, onceGot>>
      BY <1>5, <2>2 DEF JoinWaiters, Swap
    <3>2. \A u \in Caller : onceVal[u].tag \notin {2, 3} /\ onceGot[u] = NoThread
      BY <3>1, <1>t DEF Final, Word
    <3>3. Initializers'
      BY <3>1, <1>t DEF Initializers, Initializing, OnceTypes, Word
    <3>4. Final'
      BY <3>1, <3>2, <1>t DEF Final, OnceTypes
    <3> QED BY <2>1, <3>3, <3>4 DEF OnceIInv
  <2>3. CASE onceAsync[t] \/ once # onceVal[t]
    BY <1>5, <1>t, <2>1, <2>3, WordKept DEF JoinWaiters, Swap, OnceTypes, Initializing, Final
  <2> QED BY <2>2, <2>3
<1>6. ASSUME NEW t \in Caller, AlreadyDone(t) PROVE OnceIInv'
  <2>1. OnceTypes'
    BY <1>6, <1>t DEF AlreadyDone, OnceMove, OnceTypes, OnceLocations, Words
  <2>2. Initializers'
    BY <1>6, <1>t DEF AlreadyDone, OnceMove, OnceTypes, Initializers, Initializing
  <2>3. once = Word(2, onceVal[t].ptr)
    BY <1>6, <1>t DEF AlreadyDone, OnceTypes, Words, Word, Final
  <2>4. Final'
    BY <1>6, <1>t, <2>3 DEF AlreadyDone, OnceMove, OnceTypes, Final
  <2> QED BY <2>1, <2>2, <2>4 DEF OnceIInv
<1>7. ASSUME NEW t \in Caller, InProgressAsync(t) PROVE OnceIInv'
  <2>1. OnceTypes'
    BY <1>7, <1>t DEF InProgressAsync, OnceMove, OnceTypes, OnceLocations
  <2>2. once.tag \in {2, 3}
    BY <1>7, <1>t DEF InProgressAsync, Final
  <2>3. \A u \in Caller : Initializing(u) => onceAsync[u]
    BY <2>2, <1>t DEF Initializers
  <2>4. Initializers'
    BY <1>7, <1>t, <2>2, <2>3 DEF InProgressAsync, OnceMove, OnceTypes, Initializers, Initializing
  <2>5. Final'
    BY <1>7, <1>t DEF InProgressAsync, OnceMove, OnceTypes, Final
  <2> QED BY <2>1, <2>4, <2>5 DEF OnceIInv
<1>8. ASSUME NEW t \in Caller, OnceWait(t) PROVE OnceIInv'
  <2>1. OnceTypes'
    BY <1>8, <1>t DEF OnceWait, OnceMove, OnceTypes, OnceLocations
  <2> QED BY <1>8, <1>t, <2>1, WordKept DEF OnceWait, OnceMove, OnceTypes, Initializing, Final
<1>9. ASSUME NEW t \in Caller, OnceWoken(t) PROVE OnceIInv'
  <2>1. OnceTypes'
    BY <1>9, <1>t DEF OnceWoken, OnceMove, OnceTypes, OnceLocations
  <2> QED BY <1>9, <1>t, <2>1, WordKept DEF OnceWoken, OnceMove, OnceTypes, Initializing, Final
<1>10. ASSUME NEW t \in Caller, OnceComplete(t) PROVE OnceIInv'
  <2>1. OnceTypes'
    BY <1>10, <1>t DEF OnceComplete, OnceMove, OnceTypes, OnceLocations, Words, Word
  <2>2. onceAsync[t] => onceNew'[t].tag = 2
    BY <1>10, <1>t DEF OnceComplete, OnceTypes, Word
  <2> QED BY <1>10, <1>t, <2>1, <2>2, WordKept DEF OnceComplete, OnceMove, OnceTypes, Initializing, Final
<1>11. ASSUME NEW t \in Caller, OnceFailAsync(t) PROVE OnceIInv'
  <2>1. OnceTypes'
    BY <1>11, <1>t DEF OnceFailAsync, OnceMove, OnceTypes, OnceLocations
  <2> QED BY <1>11, <1>t, <2>1, WordKept DEF OnceFailAsync, OnceMove, OnceTypes, Initializing, Final
<1>12. ASSUME NEW t \in Caller, OnceCompleteLoad(t) PROVE OnceIInv'
  <2>1. OnceTypes'
    BY <1>12, <1>t DEF OnceCompleteLoad, OnceMove, OnceTypes, OnceLocations
  <2> QED BY <1>12, <1>t, <2>1, WordKept
          DEF OnceCompleteLoad, OnceMove, OnceTypes, Initializers, Initializing
<1>13. ASSUME NEW t \in Caller, Publish(t) PROVE OnceIInv'
  <2>1. OnceTypes'
    BY <1>13, <1>t DEF Publish, Swap, OnceTypes, OnceLocations
  <2>2. CASE once = onceVal[t]
    <3>1. /\ once.tag = 1 /\ onceVal[t].tag = 1 /\ oncePc[t] = "completeSwitch"
          /\ oncePc' = [oncePc EXCEPT ![t] = "walk"]
          /\ UNCHANGED <<onceVal, onceAsync, onceNew, onceGot>>
      BY <1>13, <2>2 DEF Publish, Swap
    <3>2. \A u \in Caller : onceVal[u].tag \notin {2, 3} /\ onceGot[u] = NoThread
      BY <3>1, <1>t DEF Final, Word
    <3>3. \A u \in Caller : Initializing(u) => u = t
      BY <3>1, <1>t DEF Initializers, Initializing
    <3>4. Initializers'
      BY <3>1, <3>3, <1>t DEF Initializers, Initializing, OnceTypes
    <3>5. Final'
      BY <3>1, <3>2, <1>t DEF Final, OnceTypes
    <3> QED BY <2>1, <3>4, <3>5 DEF OnceIInv
  <2>3. CASE once # onceVal[t]
    BY <1>13, <1>t, <2>1, <2>3, WordKept DEF Publish, Swap, OnceTypes, Initializers, Initializing, Final
  <2> QED BY <2>2, <2>3
<1>14. ASSUME NEW t \in Caller, PublishAsync(t) PROVE OnceIInv'
  <2>1. OnceTypes'
    BY <1>14, <1>t DEF PublishAsync, Swap, OnceTypes, OnceLocations
  <2>2. CASE onceAsync[t] /\ once = onceVal[t]
    <3>1. /\ once.tag = 3 /\ oncePc[t] = "completeSwitch" /\ once' = onceNew[t]
          /\ oncePc' = [oncePc EXCEPT ![t] = "return"]
          /\ UNCHANGED <<onceVal, onceAsync, onceNew, onceGot>>
      BY <1>14, <2>2 DEF PublishAsync, Swap
    <3>2. \A u \in Caller : onceVal[u].tag # 2 /\ onceGot[u] = NoThread
      BY <3>1, <1>t DEF Final, Word
    <3>3. once'.tag = 2 /\ \A u \in Caller : Initializing(u) => onceAsync[u]
      BY <3>1, <2>2, <1>t DEF Initializers, Initializing
    <3>4. Initializers'
      BY <3>1, <3>3, <1>t DEF Initializers, Initializing, OnceTypes
    <3>5. Final'
      BY <3>1, <3>2, <3>3, <1>t DEF Final, OnceTypes
    <3> QED BY <2>1, <3>4, <3>5 DEF OnceIInv
  <2>3. CASE ~onceAsync[t] \/ once # onceVal[t]
    BY <1>14, <1>t, <2>1, <2>3, WordKept
    DEF PublishAsync, Swap, OnceTypes, Initializers, Initializing, Final
  <2> QED BY <2>2, <2>3
<1>15. ASSUME NEW t \in Caller, TooLate(t) \/ WalkEnds(t) PROVE OnceIInv'
  <2>1. OnceTypes'
    BY <1>15, <1>t DEF TooLate, WalkEnds, OnceMove, OnceTypes, OnceLocations
  <2> QED BY <1>15, <1>t, <2>1, WordKept DEF TooLate, WalkEnds, OnceMove, OnceTypes, Initializing, Final
<1>16. ASSUME NEW t \in Caller, WalkReads(t) PROVE OnceIInv'
  <2>1. OnceTypes'
    BY <1>16, <1>t DEF WalkReads, OnceMove, OnceTypes, OnceLocations, Words
  <2> QED BY <1>16, <1>t, <2>1, WordKept DEF WalkReads, OnceMove, OnceTypes, Initializing, Final
<1>17. ASSUME NEW t \in Caller, OnceRelease(t) \/ OnceReleased(t) PROVE OnceIInv'
  <2>1. OnceTypes'
    BY <1>17, <1>t DEF OnceRelease, OnceReleased, OnceMove, OnceTypes, OnceLocations, Words
  <2>2. onceVal'[t].tag = onceVal[t].tag /\ onceVal[t].tag = 1
    BY <1>17, <1>t DEF OnceRelease, OnceReleased, OnceMove, OnceTypes, Words, Final
  <2>3. /\ oncePc'[t] \in {"walk", "releasing"}
        /\ UNCHANGED <<once, onceAsync, onceNew, onceGot>>
        /\ \A u \in Caller \ {t} : oncePc'[u] = oncePc[u] /\ onceVal'[u] = onceVal[u]
    BY <1>17, <1>t DEF OnceRelease, OnceReleased, OnceMove, OnceTypes
  <2> QED BY <2>1, <2>2, <2>3, WordKept DEF Initializing
<1>18. ASSUME NEW t \in Caller, OnceReturn(t) PROVE OnceIInv'
  <2>1. OnceTypes'
    BY <1>18, <1>t DEF OnceReturn, OnceMove, OnceTypes, OnceLocations, Words, Word
  <2>2. /\ oncePc'[t] = "idle" /\ onceVal'[t].tag = 0
        /\ UNCHANGED <<once, onceGot>>
        /\ \A u \in Caller \ {t} : oncePc'[u] = oncePc[u] /\ onceVal'[u] = onceVal[u]
                                   /\ onceAsync'[u] = onceAsync[u] /\ onceNew'[u] = onceNew[u]
    BY <1>18, <1>t DEF OnceReturn, OnceMove, OnceTypes, Word
  <2> QED BY <2>1, <2>2, WordKept DEF Initializing
<1>19. CASE UNCHANGED onceVars
  BY <1>19, <1>t DEF onceVars, OnceIInv, OnceTypes, Initializers, Initializing, Final
<1> QED
  BY <1>1, <1>2, <1>3, <1>4, <1>5, <1>6, <1>7, <1>8, <1>9, <1>10, <1>11, <1>12, <1>13, <1>14, <1>15,
     <1>16, <1>17, <1>18, <1>19
  DEF OnceNext, OnceContinue

\* Of the threads that call RtlRunOnceBeginInitialize, however many, one at a time
\* is told to initialize synchronously, and all that are ever told STATUS_SUCCESS
\* are given the one context that RtlRunOnceComplete stored.
THEOREM OnceIsAgreed == OnceSpec => []OnceAgreed
<1>1. OnceIInv => OnceAgreed
  BY DEF OnceIInv, Initializers, Final, OnceAgreed
<1> QED BY <1>1, OnceInitially, OnceInductive, PTL DEF OnceSpec
=============================================================================
