--------------------------- MODULE SRWLockProofs ---------------------------
(***************************************************************************)
(* Mutual exclusion of the slim reader/writer lock for any number of       *)
(* threads up to the documented limit.  The lock word alone decides who    *)
(* may enter, so the inductive invariant says what the word counts         *)
(* (WordCountsThreads); the queue and the compared values play no part.    *)
(***************************************************************************)
EXTENDS SRWLock, FiniteSetTheorems, TLAPS

IInv ==
    /\ pc \in [Thread -> Locations]
    /\ WordCountsThreads
    /\ MutualExclusion

\* Arithmetic on a half-word that stays below Wrap is ordinary arithmetic.
LEMMA ModSmall ==
    ASSUME NEW x \in 0 .. Wrap - 1 PROVE x % Wrap = x
BY SRWAssumption

LEMMA Parity ==
    ASSUME NEW a \in Nat PROVE (2 * a) % 2 = 0 /\ (2 * a + 1) % 2 = 1
OBVIOUS

\* What the invariant says of the three sets of threads, as numbers.
LEMMA Counts ==
    ASSUME IInv
    PROVE  /\ IsFiniteSet(ExclusiveWaiters) /\ Cardinality(ExclusiveWaiters) \in Nat
           /\ IsFiniteSet(ExclusiveOwners) /\ Cardinality(ExclusiveOwners) \in 0 .. 1
           /\ IsFiniteSet(ExclusiveOwners \cup SharedOwners)
           /\ Cardinality(ExclusiveOwners \cup SharedOwners) \in Nat
           /\ IsFiniteSet(ExclusiveWaiters \cup ExclusiveOwners)
           /\ Cardinality(ExclusiveWaiters \cup ExclusiveOwners) =
                 Cardinality(ExclusiveWaiters) + Cardinality(ExclusiveOwners)
           /\ owners = 0 <=> ExclusiveOwners \cup SharedOwners = {}
           /\ Cardinality(ExclusiveOwners) = 0 <=> ExclusiveOwners = {}
<1> DEFINE W == ExclusiveWaiters
           X == ExclusiveOwners
           O == ExclusiveOwners \cup SharedOwners
<1>1. W \in SUBSET Thread /\ X \in SUBSET Thread /\ O \in SUBSET Thread
  BY DEF ExclusiveWaiters, ExclusiveOwners, SharedOwners
<1>2. IsFiniteSet(W) /\ IsFiniteSet(X) /\ IsFiniteSet(O) /\ IsFiniteSet(W \cup X)
  BY <1>1, FS_Subset, FS_Union, SRWAssumption
<1>3. Cardinality(W) \in Nat /\ Cardinality(X) \in Nat /\ Cardinality(O) \in Nat
  BY <1>2, FS_CardinalityType
<1>4. W \cap X = {}
  BY DEF ExclusiveWaiters, ExclusiveOwners
<1>5. Cardinality(W \cup X) = Cardinality(W) + Cardinality(X)
  BY <1>2, <1>3, <1>4, FS_Union, FS_EmptySet
<1>6. Cardinality(X) \in 0 .. 1
  <2>1. CASE X = {}
    BY <2>1, FS_EmptySet
  <2>2. CASE X # {}
    <3>1. PICK t \in X : X \cup SharedOwners = {t}
      BY <2>2 DEF IInv, MutualExclusion
    <3>2. X = {t}
      BY <3>1
    <3>3. Cardinality({t}) = 1
      BY FS_Singleton
    <3> QED BY <3>2, <3>3
  <2> QED BY <2>1, <2>2
<1>7. owners = 0 <=> O = {}
  BY <1>2, FS_EmptySet DEF IInv, WordCountsThreads
<1>8. Cardinality(X) = 0 <=> X = {}
  BY <1>2, FS_EmptySet
<1> QED BY <1>2, <1>3, <1>5, <1>6, <1>7, <1>8

\* A set of threads is at most as large as Thread, half of Wrap at most.
LEMMA Room ==
    ASSUME NEW A \in SUBSET Thread
    PROVE  IsFiniteSet(A) /\ Cardinality(A) \in Nat /\ 2 * Cardinality(A) < Wrap
<1>1. IsFiniteSet(A) /\ Cardinality(A) <= Cardinality(Thread)
  BY FS_Subset, SRWAssumption
<1>2. Cardinality(A) \in Nat /\ Cardinality(Thread) \in Nat
  BY <1>1, FS_CardinalityType, SRWAssumption
<1> QED BY <1>1, <1>2, SRWAssumption

-----------------------------------------------------------------------------
\* Every step keeps the word equal to the counts and the owner exclusive.
LEMMA Inductive ==
    ASSUME IInv, [Next]_vars PROVE IInv'
<1> USE DEF Move
<1> DEFINE W == ExclusiveWaiters
           X == ExclusiveOwners
           O == ExclusiveOwners \cup SharedOwners
           w == Cardinality(W)
           x == Cardinality(X)
           o == Cardinality(O)
<1>t. pc \in [Thread -> Locations]
  BY DEF IInv
<1>c. /\ IsFiniteSet(W) /\ IsFiniteSet(X) /\ IsFiniteSet(O)
      /\ w \in Nat /\ x \in 0 .. 1 /\ o \in Nat
      /\ exclusive_waiters = 2 * w + x /\ owners = o
      /\ o = 0 <=> O = {}
      /\ x = 0 <=> X = {}
  BY Counts DEF IInv, WordCountsThreads
<1>m. \A t \in X : O = {t}
  BY DEF IInv, MutualExclusion
<1>r. /\ 2 * w + x < Wrap /\ 2 * o < Wrap
      /\ \A t \in Thread \ (W \cup X) : 2 * w + 2 + x < Wrap
      /\ \A t \in Thread \ O : o + 1 < Wrap
  <2>1. W \cup X \in SUBSET Thread /\ O \in SUBSET Thread
    BY DEF ExclusiveWaiters, ExclusiveOwners, SharedOwners
  <2>2. Cardinality(W \cup X) = w + x /\ IsFiniteSet(W \cup X)
    BY Counts
  <2>3. 2 * (w + x) < Wrap /\ 2 * o < Wrap
    BY <2>1, <2>2, Room
  <2>4. ASSUME NEW t \in Thread \ (W \cup X) PROVE 2 * w + 2 + x < Wrap
    <3>1. (W \cup X) \cup {t} \in SUBSET Thread
      BY <2>1, <2>4
    <3>2. Cardinality((W \cup X) \cup {t}) = w + x + 1
      BY <2>2, <2>4, FS_AddElement
    <3>3. 2 * (w + x + 1) < Wrap
      BY <3>1, <3>2, Room
    <3> QED BY <3>3, <1>c, SRWAssumption
  <2>5. ASSUME NEW t \in Thread \ O PROVE o + 1 < Wrap
    <3>1. O \cup {t} \in SUBSET Thread
      BY <2>1, <2>5
    <3>2. Cardinality(O \cup {t}) = o + 1
      BY <1>c, <2>5, FS_AddElement
    <3>3. 2 * (o + 1) < Wrap
      BY <3>1, <3>2, Room
    <3> QED BY <3>3, <1>c, SRWAssumption
  <2>6. 2 * w + x < Wrap
    BY <2>3, <1>c, SRWAssumption
  <2> QED BY <2>3, <2>4, <2>5, <2>6
\* A step that moves t between locations of the same kind changes no count.
<1>same. ASSUME ExclusiveWaiters' = W, ExclusiveOwners' = X, SharedOwners' = SharedOwners,
                exclusive_waiters' = exclusive_waiters, owners' = owners,
                pc' \in [Thread -> Locations]
         PROVE  IInv'
  BY <1>same DEF IInv, WordCountsThreads, MutualExclusion
<1>1. ASSUME NEW t \in Thread, AnnounceExclusive(t) PROVE IInv'
  <2>1. pc' \in [Thread -> Locations] /\ t \in Thread \ (W \cup X) /\ t \notin W
    BY <1>1, <1>t DEF AnnounceExclusive, Locations, ExclusiveWaiters, ExclusiveOwners
  <2>2. ExclusiveWaiters' = W \cup {t} /\ ExclusiveOwners' = X /\ SharedOwners' = SharedOwners
    BY <1>1, <1>t DEF AnnounceExclusive, ExclusiveWaiters, ExclusiveOwners, SharedOwners
  <2>3. Cardinality(W \cup {t}) = w + 1
    BY <2>1, <1>c, FS_AddElement
  <2>4. 2 * w + 2 + x < Wrap
    BY <2>1, <1>r
  <2>5. 2 * w + x + 2 \in 0 .. Wrap - 1
    BY <2>4, <1>c, SRWAssumption
  <2>6. exclusive_waiters' = 2 * (w + 1) + x
    BY <1>1, <2>5, <1>c, ModSmall DEF AnnounceExclusive, Add16
  <2>7. owners' = o
    BY <1>1, <1>c DEF AnnounceExclusive
  <2> QED BY <2>1, <2>2, <2>3, <2>6, <2>7, <1>m DEF IInv, WordCountsThreads, MutualExclusion
<1>2. ASSUME NEW t \in Thread, GrabExclusive(t) PROVE IInv'
  <2>1. pc' \in [Thread -> Locations] /\ t \in W
    BY <1>2, <1>t DEF GrabExclusive, Locations, ExclusiveWaiters
  <2>2. O = {} /\ X = {} /\ SharedOwners = {}
    BY <1>2, <1>c DEF GrabExclusive
  <2>3. ExclusiveWaiters' = W \ {t} /\ ExclusiveOwners' = {t} /\ SharedOwners' = {}
    BY <1>2, <1>t, <2>2 DEF GrabExclusive, ExclusiveWaiters, ExclusiveOwners, SharedOwners
  <2>4. Cardinality(W \ {t}) = w - 1 /\ Cardinality({t}) = 1 /\ w - 1 \in Nat
    <3>1. Cardinality(W \ {t}) = w - 1 /\ IsFiniteSet(W \ {t})
      BY <2>1, <1>c, FS_RemoveElement
    <3> QED BY <3>1, FS_CardinalityType, FS_Singleton
  <2>5. x = 0 /\ 2 * w + x - 2 = 2 * (w - 1) /\ 2 * (w - 1) \in 0 .. Wrap - 1
    BY <2>2, <2>4, <1>c, <1>r, SRWAssumption
  <2>6. Add16(exclusive_waiters, -2) = 2 * (w - 1)
    BY <2>5, <1>c, ModSmall DEF Add16
  <2>7. exclusive_waiters' = 2 * (w - 1) + 1
    BY <1>2, <2>4, <2>6, Parity DEF GrabExclusive, SetBit0
  <2>8. owners' = 1
    BY <1>2 DEF GrabExclusive
  <2>9. {t} \cup {} = {t}
    OBVIOUS
  <2> QED BY <2>1, <2>3, <2>4, <2>7, <2>8, <2>9 DEF IInv, WordCountsThreads, MutualExclusion
<1>3. ASSUME NEW t \in Thread, FailExclusive(t) \/ WaitExclusive(t) PROVE IInv'
  <2>1. /\ pc' \in [Thread -> Locations]
        /\ exclusive_waiters' = exclusive_waiters /\ owners' = owners
    BY <1>3, <1>t DEF FailExclusive, WaitExclusive, Locations
  <2>2. ExclusiveWaiters' = W /\ ExclusiveOwners' = X /\ SharedOwners' = SharedOwners
    BY <1>3, <1>t DEF FailExclusive, WaitExclusive, ExclusiveWaiters, ExclusiveOwners, SharedOwners
  <2> QED BY <2>1, <2>2, <1>same
<1>4. ASSUME NEW t \in Thread,
             CallShared(t) \/ FailShared(t) \/ WaitShared(t) PROVE IInv'
  <2>1. /\ pc' \in [Thread -> Locations]
        /\ exclusive_waiters' = exclusive_waiters /\ owners' = owners
    BY <1>4, <1>t DEF CallShared, FailShared, WaitShared, Locations
  <2>2. ExclusiveWaiters' = W /\ ExclusiveOwners' = X /\ SharedOwners' = SharedOwners
    BY <1>4, <1>t DEF CallShared, FailShared, WaitShared, ExclusiveWaiters, ExclusiveOwners, SharedOwners
  <2> QED BY <2>1, <2>2, <1>same
<1>5. ASSUME NEW t \in Thread, GrabShared(t) \/ TryAcquireShared(t) PROVE IInv'
  <2>1. pc' \in [Thread -> Locations] /\ t \in Thread \ O
    BY <1>5, <1>t DEF GrabShared, TryAcquireShared, Locations, ExclusiveOwners, SharedOwners
  <2>2. x = 0 /\ X = {}
    <3>1. exclusive_waiters = 0
      BY <1>5 DEF GrabShared, TryAcquireShared
    <3> QED BY <3>1, <1>c
  <2>3. ExclusiveWaiters' = W /\ ExclusiveOwners' = X /\ SharedOwners' = SharedOwners \cup {t}
    BY <1>5, <1>t DEF GrabShared, TryAcquireShared, ExclusiveWaiters, ExclusiveOwners, SharedOwners
  <2>4. (ExclusiveOwners \cup SharedOwners)' = O \cup {t}
    BY <2>3
  <2>5. Cardinality(O \cup {t}) = o + 1
    BY <2>1, <1>c, FS_AddElement
  <2>6. o + 1 \in 0 .. Wrap - 1
    BY <2>1, <1>c, <1>r, SRWAssumption
  <2>7. owners' = o + 1 /\ exclusive_waiters' = exclusive_waiters
    BY <1>5, <2>6, <1>c, ModSmall DEF GrabShared, TryAcquireShared, Add16
  <2>8. WordCountsThreads'
    BY <2>3, <2>4, <2>5, <2>7, <1>c DEF WordCountsThreads
  <2> QED BY <2>1, <2>2, <2>3, <2>8 DEF IInv, MutualExclusion
<1>6. ASSUME NEW t \in Thread, Return(t) \/ ReturnSpuriously(t) PROVE IInv'
  <2>1. /\ pc' \in [Thread -> Locations]
        /\ exclusive_waiters' = exclusive_waiters /\ owners' = owners
    BY <1>6, <1>t DEF Return, ReturnSpuriously, Locations
  <2>2. ExclusiveWaiters' = W /\ ExclusiveOwners' = X /\ SharedOwners' = SharedOwners
    BY <1>6, <1>t DEF Return, ReturnSpuriously, ExclusiveWaiters, ExclusiveOwners, SharedOwners
  <2> QED BY <2>1, <2>2, <1>same
<1>7. ASSUME NEW t \in Thread, ReleaseExclusive(t) PROVE IInv'
  <2>1. pc' \in [Thread -> Locations] /\ t \in X
    BY <1>7, <1>t DEF ReleaseExclusive, Locations, ExclusiveOwners
  <2>2. O = {t} /\ X = {t} /\ SharedOwners \subseteq {t} /\ x = 1
    BY <2>1, <1>c, <1>m
  <2>3. ExclusiveWaiters' = W /\ ExclusiveOwners' = {} /\ SharedOwners' = {}
    BY <1>7, <1>t, <2>2 DEF ReleaseExclusive, ExclusiveWaiters, ExclusiveOwners, SharedOwners
  <2>4. exclusive_waiters' = 2 * w
    BY <1>7, <2>2, <1>c, Parity DEF ReleaseExclusive, ClearBit0
  <2>5. owners' = 0
    BY <1>7 DEF ReleaseExclusive
  <2>6. Cardinality({}) = 0 /\ {} \cup {} = {}
    BY FS_EmptySet
  <2>7. WordCountsThreads'
    BY <2>3, <2>4, <2>5, <2>6, <1>c DEF WordCountsThreads
  <2> QED BY <2>1, <2>3, <2>7 DEF IInv, MutualExclusion
<1>8. ASSUME NEW t \in Thread, ReleaseShared(t) PROVE IInv'
  <2>1. pc' \in [Thread -> Locations] /\ t \in SharedOwners /\ t \in O /\ t \notin X
    BY <1>8, <1>t DEF ReleaseShared, Locations, SharedOwners, ExclusiveOwners
  <2>2. X = {}
    BY <2>1, <1>m
  <2>3. /\ ExclusiveWaiters' = W /\ ExclusiveOwners' = X
        /\ SharedOwners' = SharedOwners \ {t}
    BY <1>8, <1>t DEF ReleaseShared, ExclusiveWaiters, ExclusiveOwners, SharedOwners
  <2>4. (ExclusiveOwners \cup SharedOwners)' = O \ {t}
    BY <2>2, <2>3
  <2>5. Cardinality(O \ {t}) = o - 1
    BY <2>1, <1>c, FS_RemoveElement
  <2>6. o - 1 \in 0 .. Wrap - 1
    BY <2>1, <1>c, <1>r, SRWAssumption
  <2>7. owners' = o - 1 /\ exclusive_waiters' = exclusive_waiters
    <3>1. Add16(owners, -1) = o - 1
      BY <2>6, <1>c, ModSmall DEF Add16
    <3> QED BY <1>8, <3>1 DEF ReleaseShared
  <2>8. WordCountsThreads'
    BY <2>3, <2>4, <2>5, <2>7, <1>c DEF WordCountsThreads
  <2> QED BY <2>1, <2>2, <2>3, <2>8 DEF IInv, MutualExclusion
<1>9. ASSUME NEW t \in Thread, WakeOne(t) \/ WakeAll(t) PROVE IInv'
  <2>1. /\ pc' \in [Thread -> Locations]
        /\ exclusive_waiters' = exclusive_waiters /\ owners' = owners
    BY <1>9, <1>t DEF WakeOne, WakeAll, Locations
  <2>2. ExclusiveWaiters' = W /\ ExclusiveOwners' = X /\ SharedOwners' = SharedOwners
    BY <1>9, <1>t DEF WakeOne, WakeAll, ExclusiveWaiters, ExclusiveOwners, SharedOwners
  <2> QED BY <2>1, <2>2, <1>same
<1>10. ASSUME NEW t \in Thread, TryAcquireExclusive(t) PROVE IInv'
  <2>1. pc' \in [Thread -> Locations]
    BY <1>10, <1>t DEF TryAcquireExclusive, Locations
  <2>2. O = {} /\ X = {} /\ SharedOwners = {} /\ x = 0
    BY <1>10, <1>c DEF TryAcquireExclusive
  <2>3. ExclusiveWaiters' = W /\ ExclusiveOwners' = {t} /\ SharedOwners' = {}
    BY <1>10, <1>t, <2>2 DEF TryAcquireExclusive, ExclusiveWaiters, ExclusiveOwners, SharedOwners
  <2>4. exclusive_waiters' = 2 * w + 1
    BY <1>10, <2>2, <1>c, Parity DEF TryAcquireExclusive, SetBit0
  <2>5. owners' = 1 /\ Cardinality({t}) = 1 /\ {t} \cup {} = {t}
    BY <1>10, FS_Singleton DEF TryAcquireExclusive
  <2>6. WordCountsThreads'
    BY <2>3, <2>4, <2>5 DEF WordCountsThreads
  <2> QED BY <2>1, <2>3, <2>6 DEF IInv, MutualExclusion
<1>11. CASE UNCHANGED vars
  <2>1. /\ pc' \in [Thread -> Locations]
        /\ exclusive_waiters' = exclusive_waiters /\ owners' = owners
    BY <1>11, <1>t DEF vars
  <2>2. ExclusiveWaiters' = W /\ ExclusiveOwners' = X /\ SharedOwners' = SharedOwners
    BY <1>11 DEF vars, ExclusiveWaiters, ExclusiveOwners, SharedOwners
  <2> QED BY <2>1, <2>2, <1>same
<1> QED
  BY <1>1, <1>2, <1>3, <1>4, <1>5, <1>6, <1>7, <1>8, <1>9, <1>10, <1>11, SRWAssumption
     DEF Next, Continue

LEMMA InvariantHolds == Spec => []IInv
<1>1. Init => IInv
  <2> SUFFICES ASSUME Init PROVE IInv
    OBVIOUS
  <2>1. pc \in [Thread -> Locations]
    BY DEF Init, Locations
  <2>2. ExclusiveWaiters = {} /\ ExclusiveOwners = {} /\ SharedOwners = {}
    BY DEF Init, ExclusiveWaiters, ExclusiveOwners, SharedOwners
  <2>3. Cardinality({}) = 0 /\ {} \cup {} = {}
    BY FS_EmptySet
  <2>4. WordCountsThreads
    BY <2>2, <2>3 DEF Init, WordCountsThreads
  <2> QED BY <2>1, <2>2, <2>4 DEF IInv, MutualExclusion
<1> QED BY <1>1, Inductive, PTL DEF Spec

\* An exclusive owner of a slim reader/writer lock is alone, for every number of
\* threads up to the documented 2^15-1.
THEOREM SRWMutualExclusion == Spec => []MutualExclusion
<1>1. IInv => MutualExclusion
  BY DEF IInv
<1> QED BY <1>1, InvariantHolds, PTL

\* The lock word counts the owners and the exclusive waiters, so neither half
\* wraps, for every number of threads up to the documented limit.
THEOREM SRWWordCountsThreads == Spec => []WordCountsThreads
<1>1. IInv => WordCountsThreads
  BY DEF IInv
<1> QED BY <1>1, InvariantHolds, PTL
=============================================================================
