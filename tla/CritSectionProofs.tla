------------------------- MODULE CritSectionProofs -------------------------
(***************************************************************************)
(* Mutual exclusion of the critical section, for any number of threads and *)
(* any recursion depth, and what rests on it: the unprotected fields       *)
(* describe the owner, and no token is lost.                               *)
(***************************************************************************)
EXTENDS CritSection, TLAPS

\* t has what entitles it to the section: it owns it, or is about to post it.
Holds(t) == Owns(t) \/ pc[t] = "post"

\* The part of the type invariant the proof needs.
Types ==
    /\ LockCount \in Int /\ RecursionCount \in Nat
    /\ OwningThread \in Thread \cup {NoThread}
    /\ LockSemaphore \in {0, 1}
    /\ pc \in [Thread -> Locations]
    /\ depth \in [Thread -> Nat]
    /\ detaching \in BOOLEAN

\* The section is held by one thread or by the token, never by both; after
\* process_detaching there is only one thread.
Unique ==
    /\ \A t, u \in Thread : Holds(t) /\ Holds(u) => t = u
    /\ ~detaching => \A t \in Thread : Holds(t) => LockSemaphore = 0
    /\ detaching => \A t, u \in Thread : pc[t] # "dead" /\ pc[u] # "dead" => t = u

\* OwningThread is a thread in the section, whose entries RecursionCount counts;
\* every other thread has entered no times.
Fields ==
    \A t \in Thread :
        /\ OwningThread = t => pc[t] \in {"in", "check", "dead"}
        /\ pc[t] = "in" \/ (pc[t] = "check" /\ OwningThread = t) =>
            OwningThread = t /\ RecursionCount = depth[t] /\ depth[t] > 0
        /\ pc[t] # "dead" /\ OwningThread # t => depth[t] = 0

\* LockCount covers the entries of the holder, so it is -1 only when the section
\* is free: only the holder decrements it.
Covered ==
    /\ LockCount >= -1
    /\ ~detaching /\ LockSemaphore = 1 => LockCount >= 0
    /\ \A t \in Thread :
        /\ Holds(t) => LockCount >= 0
        /\ pc[t] = "in" => LockCount >= RecursionCount - 1
        /\ pc[t] = "check" /\ OwningThread = t => LockCount >= RecursionCount
        /\ detaching /\ pc[t] = "check" => LockCount >= 0
        /\ detaching => pc[t] \notin {"tryToken", "compare", "asleep"}

IInv == Types /\ Unique /\ Fields /\ Covered

\* Initially the section is free.
LEMMA InitIInv == Init => IInv
  <1> SUFFICES ASSUME Init PROVE IInv
    OBVIOUS
  <1> USE CritSectionAssumption DEF Init, Holds, Owns
  <1>1. pc \in [Thread -> Locations] /\ depth \in [Thread -> Nat]
    BY DEF Locations
  <1>2. detaching \in BOOLEAN
    BY Zenon
  <1>3. Types
    BY <1>1, <1>2 DEF Types
  <1>4. Unique /\ Covered
    BY DEF Unique, Covered
  <1>5. Fields
    BY DEF Fields
  <1> QED
    BY <1>3, <1>4, <1>5 DEF IInv

\* Every step of RtlEnterCriticalSection, RtlLeaveCriticalSection and
\* RtlExitUserProcess preserves the invariant.
LEMMA NextIInv == IInv /\ [Next]_vars => IInv'
  <1> SUFFICES ASSUME IInv, [Next]_vars PROVE IInv'
    OBVIOUS
  <1> USE CritSectionAssumption DEF IInv
  <1>1. ASSUME NEW t \in Thread, Increment(t) PROVE IInv'
    <2> USE <1>1 DEF Increment, flags
    <2>1. Types'
      BY DEF Types, Locations
    <2>2. Unique'
      BY DEF Types, Unique, Fields, Covered, Holds, Owns, Locations
    <2>3. Fields'
      BY DEF Types, Unique, Fields, Covered, Holds, Owns, Locations
    <2>4. Covered'
      BY DEF Types, Unique, Fields, Covered, Holds, Owns, Locations
    <2> QED
      BY <2>1, <2>2, <2>3, <2>4
  <1>2. ASSUME NEW t \in Thread, CheckOwner(t) PROVE IInv'
    <2> USE <1>2 DEF CheckOwner, Move, flags
    <2>1. Types'
      BY DEF Types, Locations
    <2>2. Unique'
      BY DEF Types, Unique, Fields, Covered, Holds, Owns, Locations
    <2>3. Fields'
      BY DEF Types, Unique, Fields, Covered, Holds, Owns, Locations
    <2>4. Covered'
      BY DEF Types, Unique, Fields, Covered, Holds, Owns, Locations
    <2> QED
      BY <2>1, <2>2, <2>3, <2>4
  <1>3. ASSUME NEW t \in Thread, SwapFree(t) PROVE IInv'
    <2> USE <1>3 DEF SwapFree, Move, flags
    <2>1. Types'
      BY DEF Types, Locations
    <2>2. Unique'
      BY DEF Types, Unique, Fields, Covered, Holds, Owns, Locations
    <2>3. Fields'
      BY DEF Types, Unique, Fields, Covered, Holds, Owns, Locations
    <2>4. Covered'
      BY DEF Types, Unique, Fields, Covered, Holds, Owns, Locations
    <2> QED
      BY <2>1, <2>2, <2>3, <2>4
  <1>4. ASSUME NEW t \in Thread, TryRecursive(t) PROVE IInv'
    <2> USE <1>4 DEF TryRecursive, flags
    <2>1. Types'
      BY DEF Types, Locations
    <2>2. Unique'
      BY DEF Types, Unique, Fields, Covered, Holds, Owns, Locations
    <2>3. Fields'
      BY DEF Types, Unique, Fields, Covered, Holds, Owns, Locations
    <2>4. Covered'
      BY DEF Types, Unique, Fields, Covered, Holds, Owns, Locations
    <2> QED
      BY <2>1, <2>2, <2>3, <2>4
  <1>5. ASSUME NEW t \in Thread, Claim(t) PROVE IInv'
    <2> USE <1>5 DEF Claim, Move, flags
    <2>1. Types'
      BY DEF Types, Locations
    <2>2. Unique'
      BY DEF Types, Unique, Fields, Covered, Holds, Owns, Locations
    <2>3. Fields'
      BY DEF Types, Unique, Fields, Covered, Holds, Owns, Locations
    <2>4. Covered'
      BY DEF Types, Unique, Fields, Covered, Holds, Owns, Locations
    <2> QED
      BY <2>1, <2>2, <2>3, <2>4
  <1>6. ASSUME NEW t \in Thread, TakeToken(t) PROVE IInv'
    <2> USE <1>6 DEF TakeToken, Move, flags
    <2>1. Types'
      BY DEF Types, Locations
    <2>2. Unique'
      BY DEF Types, Unique, Fields, Covered, Holds, Owns, Locations
    <2>3. Fields'
      BY DEF Types, Unique, Fields, Covered, Holds, Owns, Locations
    <2>4. Covered'
      BY DEF Types, Unique, Fields, Covered, Holds, Owns, Locations
    <2> QED
      BY <2>1, <2>2, <2>3, <2>4
  <1>7. ASSUME NEW t \in Thread, NoToken(t) PROVE IInv'
    <2> USE <1>7 DEF NoToken, Move, fields, flags
    <2>1. Types'
      BY DEF Types, Locations
    <2>2. Unique'
      BY DEF Types, Unique, Fields, Covered, Holds, Owns, Locations
    <2>3. Fields'
      BY DEF Types, Unique, Fields, Covered, Holds, Owns, Locations
    <2>4. Covered'
      BY DEF Types, Unique, Fields, Covered, Holds, Owns, Locations
    <2> QED
      BY <2>1, <2>2, <2>3, <2>4
  <1>8. ASSUME NEW t \in Thread, SleepOnToken(t) PROVE IInv'
    <2> USE <1>8 DEF SleepOnToken, Move, fields, flags
    <2>1. Types'
      BY DEF Types, Locations
    <2>2. Unique'
      BY DEF Types, Unique, Fields, Covered, Holds, Owns, Locations
    <2>3. Fields'
      BY DEF Types, Unique, Fields, Covered, Holds, Owns, Locations
    <2>4. Covered'
      BY DEF Types, Unique, Fields, Covered, Holds, Owns, Locations
    <2> QED
      BY <2>1, <2>2, <2>3, <2>4
  <1>9. ASSUME NEW t \in Thread, Woken(t) PROVE IInv'
    <2> USE <1>9 DEF Woken, Move, fields, flags
    <2>1. Types'
      BY DEF Types, Locations
    <2>2. Unique'
      BY DEF Types, Unique, Fields, Covered, Holds, Owns, Locations
    <2>3. Fields'
      BY DEF Types, Unique, Fields, Covered, Holds, Owns, Locations
    <2>4. Covered'
      BY DEF Types, Unique, Fields, Covered, Holds, Owns, Locations
    <2> QED
      BY <2>1, <2>2, <2>3, <2>4
  <1>10. ASSUME NEW t \in Thread, TimedOut(t) PROVE IInv'
    <2> USE <1>10 DEF TimedOut, Move, fields, flags
    <2>1. Types'
      BY DEF Types, Locations
    <2>2. Unique'
      BY DEF Types, Unique, Fields, Covered, Holds, Owns, Locations
    <2>3. Fields'
      BY DEF Types, Unique, Fields, Covered, Holds, Owns, Locations
    <2>4. Covered'
      BY DEF Types, Unique, Fields, Covered, Holds, Owns, Locations
    <2> QED
      BY <2>1, <2>2, <2>3, <2>4
  <1>11. ASSUME NEW t \in Thread, LeaveRecursive(t) PROVE IInv'
    <2> USE <1>11 DEF LeaveRecursive, flags
    <2>1. Types'
      BY DEF Types, Fields, Locations
    <2>2. Unique'
      BY DEF Types, Unique, Fields, Covered, Holds, Owns, Locations
    <2>3. Fields'
      BY DEF Types, Unique, Fields, Covered, Holds, Owns, Locations
    <2>4. Covered'
      BY DEF Types, Unique, Fields, Covered, Holds, Owns, Locations
    <2> QED
      BY <2>1, <2>2, <2>3, <2>4
  <1>12. ASSUME NEW t \in Thread, LeaveLast(t) PROVE IInv'
    <2> USE <1>12 DEF LeaveLast, Move, flags
    <2>1. Types'
      BY DEF Types, Locations
    <2>2. Unique'
      BY DEF Types, Unique, Fields, Covered, Holds, Owns, Locations
    <2>3. Fields'
      BY DEF Types, Unique, Fields, Covered, Holds, Owns, Locations
    <2>4. Covered'
      BY DEF Types, Unique, Fields, Covered, Holds, Owns, Locations
    <2> QED
      BY <2>1, <2>2, <2>3, <2>4
  <1>13. ASSUME NEW t \in Thread, Decrement(t) PROVE IInv'
    <2> USE <1>13 DEF Decrement, Move, flags
    <2>1. Types'
      BY DEF Types, Locations
    <2>2. Unique'
      BY DEF Types, Unique, Fields, Covered, Holds, Owns, Locations
    <2>3. Fields'
      BY DEF Types, Unique, Fields, Covered, Holds, Owns, Locations
    <2>4. Covered'
      BY DEF Types, Unique, Fields, Covered, Holds, Owns, Locations
    <2> QED
      BY <2>1, <2>2, <2>3, <2>4
  <1>14. ASSUME NEW t \in Thread, Post(t) PROVE IInv'
    <2> USE <1>14 DEF Post, Move, flags
    <2>1. Types'
      BY DEF Types, Locations
    <2>2. Unique'
      BY DEF Types, Unique, Fields, Covered, Holds, Owns, Locations
    <2>3. Fields'
      BY DEF Types, Unique, Fields, Covered, Holds, Owns, Locations
    <2>4. Covered'
      BY DEF Types, Unique, Fields, Covered, Holds, Owns, Locations
    <2> QED
      BY <2>1, <2>2, <2>3, <2>4
  <1>15. ASSUME NEW t \in Thread, Wake(t) PROVE IInv'
    <2> USE <1>15 DEF Wake, Move, fields, flags
    <2>1. Types'
      BY DEF Types, Locations
    <2>2. Unique'
      BY DEF Types, Unique, Fields, Covered, Holds, Owns, Locations
    <2>3. Fields'
      BY DEF Types, Unique, Fields, Covered, Holds, Owns, Locations
    <2>4. Covered'
      BY DEF Types, Unique, Fields, Covered, Holds, Owns, Locations
    <2> QED
      BY <2>1, <2>2, <2>3, <2>4
  <1>16. ASSUME NEW t \in Thread, ExitProcess(t) PROVE IInv'
    <2> USE <1>16 DEF ExitProcess, fields
    <2>1. Types'
      BY DEF Types, Locations
    <2>2. Unique'
      BY DEF Types, Unique, Fields, Holds, Owns, Locations
    <2>3. Fields'
      BY DEF Types, Unique, Fields, Holds, Owns, Locations
    <2>4. Covered'
      BY DEF Types, Covered, Holds, Owns
    <2> QED
      BY <2>1, <2>2, <2>3, <2>4
  <1>17. CASE UNCHANGED vars
    BY <1>17 DEF vars, Types, Unique, Fields, Covered, Holds, Owns
  <1> QED
    BY <1>1, <1>2, <1>3, <1>4, <1>5, <1>6, <1>7, <1>8, <1>9, <1>10, <1>11, <1>12, <1>13, <1>14, <1>15, <1>16, <1>17 DEF Next, Continue

\* The invariant holds in every state of the critical section.
THEOREM CritSectionInvariant == Spec => []IInv
  BY InitIInv, NextIInv, PTL DEF Spec

\* At most one thread owns the critical section, for any number of threads:
\* RtlEnterCriticalSection lets a second thread in neither by LockCount nor by a
\* token, and after process_detaching only one thread is left.
THEOREM CritSectionMutualExclusion == Spec => []MutualExclusion
  <1>1. IInv => MutualExclusion
    BY DEF IInv, Unique, Holds, MutualExclusion
  <1> QED
    BY <1>1, CritSectionInvariant, PTL

\* OwningThread and RecursionCount, which are written without interlocked
\* operations, describe the thread that is in the section.
THEOREM CritSectionFieldsOfOwner == Spec => []FieldsOfOwner
  <1>1. IInv => FieldsOfOwner
    BY DEF IInv, Fields, FieldsOfOwner
  <1> QED
    BY <1>1, CritSectionInvariant, PTL

\* RtlpUnWaitCriticalSection never posts a token on top of another.
THEOREM CritSectionTokenNotLost == Spec => []TokenNotLost
  <1>1. IInv => TokenNotLost
    BY DEF IInv, Unique, Holds, TokenNotLost
  <1> QED
    BY <1>1, CritSectionInvariant, PTL
=============================================================================
