--------------------------- MODULE ResourceProofs ---------------------------
(***************************************************************************)
(* The counts of RTL_RWLOCK are exact and no waiter is left behind, for    *)
(* every finite set of threads and every depth of recursion.  The two      *)
(* properties need each other: a release hands the lock to the readers     *)
(* that uSharedWaiters counts, so iNumberActive is right only as long as   *)
(* the waiter counts are, and the other way round.                         *)
(***************************************************************************)
EXTENDS Resource, FiniteSetTheorems, TLAPS

\* The types of the fields.
Types ==
    /\ iNumberActive \in Int
    /\ uExclusiveWaiters \in Nat /\ uSharedWaiters \in Nat
    /\ exclusiveSemaphore \in Nat /\ sharedSemaphore \in Nat
    /\ resourcePc \in [Thread -> ResourceLocations]
    /\ resourceDepth \in [Thread -> Int]

IInv == Types /\ ResourceCounted /\ ResourceHope

LEMMA CountType ==
    ASSUME NEW loc
    PROVE  /\ IsFiniteSet(At(loc))
           /\ CountAt(loc) \in Nat
           /\ CountAt(loc) = 0 <=> At(loc) = {}
<1>1. At(loc) \in SUBSET Thread
  BY DEF At
<1>2. IsFiniteSet(At(loc))
  BY <1>1, FS_Subset, ResourceAssumption
<1> QED BY <1>2, FS_CardinalityType, FS_EmptySet DEF CountAt

\* A thread that goes from one location to another is counted at the second and
\* no longer at the first; the other locations keep their threads.
LEMMA MoveCounts ==
    ASSUME Types, NEW t \in Thread, NEW to \in ResourceLocations, resourcePc[t] # to, ResourceGoto(t, to)
    PROVE  /\ resourcePc' \in [Thread -> ResourceLocations]
           /\ CountAt(to)' = CountAt(to) + 1 /\ At(to)' = At(to) \cup {t}
           /\ CountAt(resourcePc[t]) > 0
           /\ \A loc : loc = resourcePc[t] => CountAt(loc)' = CountAt(loc) - 1 /\ At(loc)' = At(loc) \ {t}
           /\ \A loc : loc \notin {to, resourcePc[t]} => CountAt(loc)' = CountAt(loc) /\ At(loc)' = At(loc)
<1>1. /\ resourcePc' \in [Thread -> ResourceLocations]
      /\ \A u \in Thread : resourcePc'[u] = IF u = t THEN to ELSE resourcePc[u]
  BY DEF Types, ResourceGoto
<1>2. At(to)' = At(to) \cup {t} /\ t \notin At(to)
  BY <1>1 DEF At
<1>3. CountAt(to)' = CountAt(to) + 1
  BY <1>2, CountType, FS_AddElement DEF CountAt
<1>4. ASSUME NEW loc, loc = resourcePc[t]
      PROVE  CountAt(loc)' = CountAt(loc) - 1 /\ At(loc)' = At(loc) \ {t}
  <2>1. At(loc)' = At(loc) \ {t} /\ t \in At(loc)
    BY <1>1, <1>4 DEF At
  <2> QED BY <2>1, CountType, FS_RemoveElement DEF CountAt
<1>5. CountAt(resourcePc[t]) > 0
  <2>1. At(resourcePc[t]) # {}
    BY DEF At
  <2> QED BY <2>1, CountType
<1>6. ASSUME NEW loc, loc \notin {to, resourcePc[t]}
      PROVE  CountAt(loc)' = CountAt(loc) /\ At(loc)' = At(loc)
  <2>1. At(loc)' = At(loc)
    BY <1>1, <1>6 DEF At
  <2> QED BY <2>1 DEF CountAt
<1> QED BY <1>1, <1>2, <1>3, <1>4, <1>5, <1>6

\* The other steps leave every thread where it is.
LEMMA StayCounts ==
    ASSUME UNCHANGED resourcePc
    PROVE  \A loc : CountAt(loc)' = CountAt(loc) /\ At(loc)' = At(loc)
BY DEF CountAt, At

LEMMA Inductive ==
    IInv /\ [ResourceNext]_resourceVars => IInv'
<1> SUFFICES ASSUME IInv, [ResourceNext]_resourceVars PROVE IInv'
  OBVIOUS
<1> USE DEF IInv
<1>t. /\ \A loc : CountAt(loc) \in Nat /\ (CountAt(loc) = 0 <=> At(loc) = {})
      /\ \A t \in Thread : t \in At(resourcePc[t]) /\ \A loc : t \in At(loc) <=> resourcePc[t] = loc
  BY CountType DEF At
<1>1. ASSUME NEW t \in Thread, TakeExclusive(t) PROVE IInv'
  <2>1. /\ resourcePc' \in [Thread -> ResourceLocations]
        /\ At("exclusive")' = At("exclusive") \cup {t}
        /\ At("shared")' = At("shared") /\ At("retryShared")' = At("retryShared")
        /\ CountAt("waitExclusive")' = CountAt("waitExclusive")
        /\ CountAt("waitShared")' = CountAt("waitShared")
    BY <1>1, MoveCounts DEF TakeExclusive, ResourceLocations
  <2>d. resourceDepth' \in [Thread -> Int]
    BY <1>1 DEF TakeExclusive, Types
  <2>2. Types'
    BY <1>1, <2>1, <2>d DEF TakeExclusive, Types, waiterCounts, semaphores
  <2>5. CountAt("shared") = 0 /\ CountAt("retryShared") = 0 /\ sharedSemaphore = 0 /\ At("exclusive") = {}
    BY <1>1, <1>t DEF TakeExclusive, Types, ResourceCounted
  <2>6. resourceDepth'[t] = 1
    BY <1>1 DEF TakeExclusive, Types
  <2>7. At("exclusive")' = {t} /\ At("shared")' \cup At("retryShared")' = {}
    BY <1>t, <2>1, <2>5
  <2>8. iNumberActive' = -1 /\ hOwningThreadId' = t /\ sharedSemaphore' = 0
    BY <1>1, <2>5 DEF TakeExclusive, semaphores
  <2>3. ResourceCounted'
    BY <2>6, <2>7, <2>8 DEF ResourceCounted
  <2>4. ResourceHope'
    BY <1>1, <1>t, <2>1 DEF TakeExclusive, Types, waiterCounts, semaphores, ResourceHope
  <2> QED BY <2>2, <2>3, <2>4
<1>2. ASSUME NEW t \in Thread, AwaitExclusive(t) PROVE IInv'
  <2>1. /\ resourcePc' \in [Thread -> ResourceLocations]
        /\ At("exclusive")' = At("exclusive")
        /\ At("shared")' = At("shared") /\ At("retryShared")' = At("retryShared")
        /\ CountAt("shared")' = CountAt("shared") /\ CountAt("retryShared")' = CountAt("retryShared")
        /\ CountAt("waitExclusive")' = CountAt("waitExclusive") + 1
        /\ CountAt("waitShared")' = CountAt("waitShared")
    BY <1>2, MoveCounts DEF AwaitExclusive, ResourceLocations
  <2>2. Types'
    BY <1>2, <2>1 DEF AwaitExclusive, Types, waiterCounts, semaphores
  <2>3. ResourceCounted'
    BY <1>2, <1>t, <2>1 DEF AwaitExclusive, Types, waiterCounts, semaphores, ResourceCounted
  <2>4. ResourceHope'
    BY <1>2, <1>t, <2>1 DEF AwaitExclusive, Types, waiterCounts, semaphores, ResourceHope
  <2> QED BY <2>2, <2>3, <2>4
<1>3. ASSUME NEW t \in Thread, ExclusiveWoken(t) PROVE IInv'
  <2>1. /\ resourcePc' \in [Thread -> ResourceLocations]
        /\ At("exclusive")' = At("exclusive")
        /\ At("shared")' = At("shared") /\ At("retryShared")' = At("retryShared")
        /\ CountAt("shared")' = CountAt("shared") /\ CountAt("retryShared")' = CountAt("retryShared")
        /\ CountAt("waitExclusive")' = CountAt("waitExclusive") - 1
        /\ At("retryExclusive")' # {}
        /\ CountAt("waitShared")' = CountAt("waitShared")
    BY <1>3, <1>t, MoveCounts DEF ExclusiveWoken, ResourceLocations
  <2>2. Types'
    BY <1>3, <2>1 DEF ExclusiveWoken, Types, waiterCounts, semaphores
  <2>3. ResourceCounted'
    BY <1>3, <1>t, <2>1 DEF ExclusiveWoken, Types, waiterCounts, semaphores, ResourceCounted
  <2>4. ResourceHope'
    BY <1>3, <1>t, <2>1 DEF ExclusiveWoken, Types, waiterCounts, semaphores, ResourceHope
  <2> QED BY <2>2, <2>3, <2>4
<1>4. ASSUME NEW t \in Thread, TakeShared(t) PROVE IInv'
  <2>1. /\ resourcePc' \in [Thread -> ResourceLocations]
        /\ At("exclusive")' = At("exclusive")
        /\ CountAt("shared")' = CountAt("shared") + 1
        /\ CountAt("retryShared")' = IF resourcePc[t] = "retryShared" THEN CountAt("retryShared") - 1 ELSE CountAt("retryShared")
        /\ CountAt("waitExclusive")' = CountAt("waitExclusive")
        /\ CountAt("waitShared")' = CountAt("waitShared")
        /\ At("retryExclusive")' = At("retryExclusive")
    BY <1>4, MoveCounts DEF TakeShared, ResourceLocations
  <2>d. resourceDepth' \in [Thread -> Int]
    BY <1>4 DEF TakeShared, Types
  <2>2. Types'
    BY <1>4, <2>1, <2>d DEF TakeShared, Types, waiterCounts, semaphores
  <2>3. ResourceCounted'
    BY <1>4, <1>t, <2>1 DEF TakeShared, Types, waiterCounts, semaphores, ResourceCounted
  <2>4. ResourceHope'
    BY <1>4, <1>t, <2>1 DEF TakeShared, Types, waiterCounts, semaphores, ResourceHope
  <2> QED BY <2>2, <2>3, <2>4
<1>5. ASSUME NEW t \in Thread, AwaitShared(t) PROVE IInv'
  <2>n. resourcePc[t] = "none"
    BY <1>5, <1>t DEF AwaitShared, ResourceCounted, Types
  <2>1. /\ resourcePc' \in [Thread -> ResourceLocations]
        /\ At("exclusive")' = At("exclusive")
        /\ At("shared")' = At("shared") /\ At("retryShared")' = At("retryShared")
        /\ CountAt("shared")' = CountAt("shared") /\ CountAt("retryShared")' = CountAt("retryShared")
        /\ CountAt("waitExclusive")' = CountAt("waitExclusive")
        /\ CountAt("waitShared")' = CountAt("waitShared") + 1
        /\ At("retryExclusive")' = At("retryExclusive")
    BY <1>5, <2>n, MoveCounts DEF AwaitShared, ResourceLocations
  <2>2. Types'
    BY <1>5, <2>1 DEF AwaitShared, Types, waiterCounts, semaphores
  <2>3. ResourceCounted'
    BY <1>5, <1>t, <2>1 DEF AwaitShared, Types, waiterCounts, semaphores, ResourceCounted
  <2>4. ResourceHope'
    BY <1>5, <1>t, <2>1 DEF AwaitShared, Types, waiterCounts, semaphores, ResourceHope
  <2> QED BY <2>2, <2>3, <2>4
<1>6. ASSUME NEW t \in Thread, SharedWoken(t) PROVE IInv'
  <2>1. /\ resourcePc' \in [Thread -> ResourceLocations]
        /\ At("exclusive")' = At("exclusive")
        /\ CountAt("shared")' = CountAt("shared") /\ CountAt("retryShared")' = CountAt("retryShared") + 1
        /\ CountAt("waitExclusive")' = CountAt("waitExclusive")
        /\ CountAt("waitShared")' = CountAt("waitShared") - 1
        /\ At("retryExclusive")' = At("retryExclusive")
    BY <1>6, MoveCounts DEF SharedWoken, ResourceLocations
  <2>2. Types'
    BY <1>6, <2>1 DEF SharedWoken, Types, waiterCounts, semaphores
  <2>3. ResourceCounted'
    BY <1>6, <1>t, <2>1 DEF SharedWoken, Types, waiterCounts, semaphores, ResourceCounted
  <2>4. ResourceHope'
    BY <1>6, <1>t, <2>1 DEF SharedWoken, Types, waiterCounts, semaphores, ResourceHope
  <2> QED BY <2>2, <2>3, <2>4
<1>7. ASSUME NEW t \in Thread, ReleaseShared(t) PROVE IInv'
  <2>1. /\ resourcePc' \in [Thread -> ResourceLocations]
        /\ At("exclusive")' = At("exclusive")
        /\ CountAt("shared")' = CountAt("shared") - 1 /\ CountAt("retryShared")' = CountAt("retryShared")
        /\ CountAt("waitExclusive")' = CountAt("waitExclusive")
        /\ CountAt("waitShared")' = CountAt("waitShared")
        /\ At("retryExclusive")' = At("retryExclusive")
    BY <1>7, MoveCounts DEF ReleaseShared, ResourceLocations
  <2>d. resourceDepth' \in [Thread -> Int]
    BY <1>7 DEF ReleaseShared, Types
  <2>2. Types'
    BY <1>7, <2>1, <2>d DEF ReleaseShared, WakeWriter, Types, waiterCounts, semaphores
  <2>3. ResourceCounted'
    BY <1>7, <1>t, <2>1 DEF ReleaseShared, WakeWriter, Types, waiterCounts, semaphores, ResourceCounted
  <2>4. ResourceHope'
    BY <1>7, <1>t, <2>1 DEF ReleaseShared, WakeWriter, Types, waiterCounts, semaphores, ResourceHope
  <2> QED BY <2>2, <2>3, <2>4
<1>8. ASSUME NEW t \in Thread, ReleaseExclusive(t) PROVE IInv'
  <2>1. /\ resourcePc' \in [Thread -> ResourceLocations]
        /\ At("exclusive")' = At("exclusive") \ {t}
        /\ At("shared")' = At("shared") /\ At("retryShared")' = At("retryShared")
        /\ CountAt("shared")' = CountAt("shared") /\ CountAt("retryShared")' = CountAt("retryShared")
        /\ CountAt("waitExclusive")' = CountAt("waitExclusive")
        /\ CountAt("waitShared")' = CountAt("waitShared")
        /\ At("retryExclusive")' = At("retryExclusive")
    BY <1>8, MoveCounts DEF ReleaseExclusive, ResourceLocations
  <2>d. resourceDepth' \in [Thread -> Int]
    BY <1>8 DEF ReleaseExclusive, Types
  <2>2. Types'
    BY <1>8, <2>1, <2>d DEF ReleaseExclusive, WakeWriter, Types, waiterCounts, semaphores
  <2>3. ResourceCounted'
    BY <1>8, <1>t, <2>1 DEF ReleaseExclusive, WakeWriter, Types, waiterCounts, semaphores, ResourceCounted
  <2>4. ResourceHope'
    BY <1>8, <1>t, <2>1 DEF ReleaseExclusive, WakeWriter, Types, waiterCounts, semaphores, ResourceHope
  <2> QED BY <2>2, <2>3, <2>4
<1>9. ASSUME NEW t \in Thread, TakeRecursive(t) PROVE IInv'
  <2>1. \A loc : CountAt(loc)' = CountAt(loc) /\ At(loc)' = At(loc)
    BY <1>9, StayCounts DEF TakeRecursive
  <2>2. Types'
    BY <1>9, <2>1 DEF TakeRecursive, Types, waiterCounts, semaphores
  <2>3. ResourceCounted'
    BY <1>9, <1>t, <2>1 DEF TakeRecursive, Types, waiterCounts, semaphores, ResourceCounted
  <2>4. ResourceHope'
    BY <1>9, <2>1 DEF TakeRecursive, Types, waiterCounts, semaphores, ResourceHope
  <2> QED BY <2>2, <2>3, <2>4
<1>10. ASSUME NEW t \in Thread, ReleaseRecursive(t) PROVE IInv'
  <2>1. \A loc : CountAt(loc)' = CountAt(loc) /\ At(loc)' = At(loc)
    BY <1>10, StayCounts DEF ReleaseRecursive
  <2>2. Types'
    BY <1>10, <2>1 DEF ReleaseRecursive, Types, waiterCounts, semaphores
  <2>3. ResourceCounted'
    BY <1>10, <1>t, <2>1 DEF ReleaseRecursive, Types, waiterCounts, semaphores, ResourceCounted
  <2>4. ResourceHope'
    BY <1>10, <2>1 DEF ReleaseRecursive, Types, waiterCounts, semaphores, ResourceHope
  <2> QED BY <2>2, <2>3, <2>4
<1>11. CASE UNCHANGED resourceVars
  <2>1. \A loc : CountAt(loc)' = CountAt(loc) /\ At(loc)' = At(loc)
    BY <1>11, StayCounts DEF resourceVars
  <2>2. Types' /\ ResourceCounted' /\ ResourceHope'
    BY <1>11, <2>1 DEF resourceVars, Types, waiterCounts, semaphores, ResourceCounted, ResourceHope
  <2> QED BY <2>2
<1> QED BY <1>1, <1>2, <1>3, <1>4, <1>5, <1>6, <1>7, <1>8, <1>9, <1>10, <1>11 DEF ResourceNext

LEMMA InvariantHolds == ResourceSpec => []IInv
<1>1. ResourceInit => IInv
  <2> SUFFICES ASSUME ResourceInit PROVE IInv
    OBVIOUS
  <2>1. Types
    BY DEF ResourceInit, Types, ResourceLocations
  <2>2. \A loc : loc # "none" => At(loc) = {} /\ CountAt(loc) = 0
    BY FS_EmptySet DEF ResourceInit, At, CountAt
  <2>3. ResourceCounted /\ ResourceHope
    BY <2>2 DEF ResourceInit, ResourceCounted, ResourceHope
  <2> QED BY <2>1, <2>3 DEF IInv
<1> QED BY <1>1, Inductive, PTL DEF ResourceSpec

\* iNumberActive is exact whatever the threads do: a writer is alone, and the
\* readers that RtlReleaseResource has counted in advance are all on their way.
THEOREM ResourceIsCounted == ResourceSpec => []ResourceCounted
<1>1. IInv => ResourceCounted
  BY DEF IInv
<1> QED BY <1>1, InvariantHolds, PTL

\* Every waiting thread is counted once, and there is always one that will wake
\* it, although any thread may take the lock that a woken one came for.
THEOREM ResourceKeepsHope == ResourceSpec => []ResourceHope
<1>1. IInv => ResourceHope
  BY DEF IInv
<1> QED BY <1>1, InvariantHolds, PTL
=============================================================================
