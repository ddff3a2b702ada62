------------------------------- MODULE SList -------------------------------
(***************************************************************************)
(* Interlocked singly linked lists, RtlInterlocked*SList                   *)
(* (dlls/ntdll/sync.c).  The header holds the first entry, the number of   *)
(* entries (16 bits) and a sequence number, and is replaced as a whole by  *)
(* a compare-and-swap; it is read in two loads, one of the pointer and one *)
(* of the two numbers, in any order.                                       *)
(*                                                                         *)
(* A popped entry belongs to the thread that popped it, which may free it: *)
(* a load of its Next field by a thread that is still popping yields any   *)
(* value (a page fault there leaves the new header as it was).  The        *)
(* sequence number wraps around; no more than SequenceModulus - 1 updates  *)
(* are taken to happen between a thread's loads and its swap.              *)
(***************************************************************************)
EXTENDS Integers, FiniteSets, SequencesExt, Threads

CONSTANTS Entry, NoEntry,
          DepthModulus,     \* 2^16
          SequenceModulus,  \* 2^48, or 2^16 on 32-bit platforms
          User,             \* threads that use the list
          MaxCalls          \* bound on the calls of each of them

ASSUME SListAssumption ==
    /\ IsFiniteSet(Entry) /\ NoEntry \notin Entry
    /\ User \subseteq Thread /\ MaxCalls \in [User -> Nat]
    /\ FoldFunction(+, 0, MaxCalls) < SequenceModulus

VARIABLES header,       \* SLIST_HEADER
          entryNext,    \* the Next field of an entry
          slistPc,
          slistOp,      \* the call: its name, and the entries it pushes
          old,          \* the local variable, and the halves loaded so far
          new,
          entryOwner,   \* the entries a thread may use
          slistCalls    \* calls a thread has begun

slistVars == <<header, entryNext, slistPc, slistOp, old, new, entryOwner, slistCalls>>

\* Mutant: no sequence number.
HeaderUnnumbered(first, count, seq) ==
    [first |-> first, depth |-> count % DepthModulus, sequence |-> 0]

\* struct Header16: NextEntry, Depth, Sequence.
Header(first, count, seq) ==
    [first |-> first, depth |-> count % DepthModulus, sequence |-> seq % SequenceModulus]

NoOp == [name |-> "none", push |-> <<>>]
NothingLoaded == [header |-> Header(NoEntry, 0, 0), halves |-> {}]

\* RtlInitializeSListHead, and pushes of some entries; one thread has the others.
SListInit ==
    LET all == SetToSeq(Entry)
    IN  \E k \in 0 .. Len(all), t0 \in User :
            /\ header = Header(IF k = 0 THEN NoEntry ELSE all[1], k, SequenceModulus - 1)
            /\ entryNext = [e \in Entry |-> LET i == CHOOSE i \in DOMAIN all : all[i] = e
                                            IN  IF i < k THEN all[i + 1] ELSE NoEntry]
            /\ entryOwner = [t \in User |-> IF t = t0 THEN {all[i] : i \in k + 1 .. Len(all)} ELSE {}]
            /\ slistPc = [t \in User |-> "idle"]
            /\ slistOp = [t \in User |-> NoOp]
            /\ old = [t \in User |-> NothingLoaded]
            /\ new = [t \in User |-> Header(NoEntry, 0, 0)]
            /\ slistCalls = [t \in User |-> 0]

\* The entries from the header on.
Contents ==
    LET walk[k \in 0 .. Cardinality(Entry)] ==
            IF k = 0 THEN <<>>
            ELSE LET s == walk[k - 1]
                     e == IF s = <<>> THEN header.first ELSE entryNext[Last(s)]
                 IN  IF Len(s) < k - 1 \/ e = NoEntry THEN s ELSE Append(s, e)
    IN  walk[Cardinality(Entry)]

-----------------------------------------------------------------------------
SListCall(t, name, push) ==
    /\ slistPc[t] = "idle"
    /\ slistCalls[t] < MaxCalls[t]
    /\ slistPc' = [slistPc EXCEPT ![t] = "load"]
    /\ slistOp' = [slistOp EXCEPT ![t] = [name |-> name, push |-> push]]
    /\ slistCalls' = [slistCalls EXCEPT ![t] = @ + 1]
    /\ UNCHANGED <<header, entryNext, old, new, entryOwner>>

\* RtlInterlockedPushEntrySList
PushEntry(t) == \E e \in entryOwner[t] : SListCall(t, "push", <<e>>)

\* RtlInterlockedPushListSListEx: the caller has linked the entries.
PushList(t) ==
    \E e, f \in entryOwner[t] :
        /\ e # f
        /\ slistPc[t] = "idle"
        /\ slistCalls[t] < MaxCalls[t]
        /\ slistPc' = [slistPc EXCEPT ![t] = "load"]
        /\ slistOp' = [slistOp EXCEPT ![t] = [name |-> "push", push |-> <<e, f>>]]
        /\ slistCalls' = [slistCalls EXCEPT ![t] = @ + 1]
        /\ entryNext' = [entryNext EXCEPT ![e] = f]
        /\ UNCHANGED <<header, old, new, entryOwner>>

\* RtlInterlockedPopEntrySList
PopEntry(t) == SListCall(t, "pop", <<>>)

\* RtlInterlockedFlushSList, which looks first whether there is anything.
FlushList(t) == header.first # NoEntry /\ SListCall(t, "flush", <<>>)

\* One of the loads of old = *list.
LoadHalf(t) ==
    /\ slistPc[t] = "load"
    /\ \E half \in {"pointer", "counts"} \ old[t].halves :
           /\ old' = [old EXCEPT ![t] =
                  [header |-> IF half = "pointer" THEN [@.header EXCEPT !.first = header.first]
                              ELSE [header EXCEPT !.first = old[t].header.first],
                   halves |-> @.halves \cup {half}]]
           /\ slistPc' = [slistPc EXCEPT ![t] = IF old[t].halves = {} THEN "load" ELSE "prepare"]
    /\ UNCHANGED <<header, entryNext, slistOp, new, entryOwner, slistCalls>>

SListReturn(t) ==
    /\ slistPc' = [slistPc EXCEPT ![t] = "idle"]
    /\ slistOp' = [slistOp EXCEPT ![t] = NoOp]
    /\ old' = [old EXCEPT ![t] = NothingLoaded]
    /\ new' = [new EXCEPT ![t] = Header(NoEntry, 0, 0)]
    /\ UNCHANGED slistCalls

\* Push: the last new entry points to the old first one.
PreparePush(t) ==
    LET h == old[t].header
        push == slistOp[t].push
    IN  /\ slistPc[t] = "prepare" /\ slistOp[t].name = "push"
        /\ slistPc' = [slistPc EXCEPT ![t] = "swap"]
        /\ entryNext' = [entryNext EXCEPT ![Last(push)] = h.first]
        /\ new' = [new EXCEPT ![t] = Header(push[1], h.depth + Len(push), h.sequence + 1)]
        /\ UNCHANGED <<header, slistOp, old, entryOwner, slistCalls>>

\* Pop from an empty list: NULL.
PopNothing(t) ==
    /\ slistPc[t] = "prepare" /\ slistOp[t].name = "pop"
    /\ old[t].header.first = NoEntry
    /\ SListReturn(t)
    /\ UNCHANGED <<header, entryNext, entryOwner>>

\* Pop: reads the Next field of an entry that may be gone.
PreparePop(t) ==
    LET h == old[t].header
    IN  /\ slistPc[t] = "prepare" /\ slistOp[t].name = "pop" /\ h.first # NoEntry
        /\ slistPc' = [slistPc EXCEPT ![t] = "swap"]
        /\ \E e \in IF h.first \in ToSet(Contents) THEN {entryNext[h.first]} ELSE Entry \cup {NoEntry} :
               new' = [new EXCEPT ![t] = Header(e, h.depth - 1, h.sequence + 1)]
        /\ UNCHANGED <<header, entryNext, slistOp, old, entryOwner, slistCalls>>

PrepareFlush(t) ==
    /\ slistPc[t] = "prepare" /\ slistOp[t].name = "flush"
    /\ slistPc' = [slistPc EXCEPT ![t] = "swap"]
    /\ new' = [new EXCEPT ![t] = Header(NoEntry, 0, old[t].header.sequence + 1)]
    /\ UNCHANGED <<header, entryNext, slistOp, old, entryOwner, slistCalls>>

\* What the caller owns after a successful swap: it gives up what it pushes, and
\* gets the old first entry, or all the entries from there on.
OwnedAfter(t) ==
    CASE slistOp[t].name = "push" -> entryOwner[t] \ ToSet(slistOp[t].push)
      [] slistOp[t].name = "pop" -> entryOwner[t] \cup {old[t].header.first}
      [] slistOp[t].name = "flush" -> entryOwner[t] \cup ToSet(Contents)

\* InterlockedCompareExchange128, InterlockedCompareExchange64
SwapHeader(t) ==
    /\ slistPc[t] = "swap"
    /\ header = old[t].header
    /\ header' = new[t]
    /\ entryOwner' = [entryOwner EXCEPT ![t] = OwnedAfter(t)]
    /\ SListReturn(t)
    /\ UNCHANGED entryNext

SwapFails(t) ==
    /\ slistPc[t] = "swap"
    /\ header # old[t].header
    /\ slistPc' = [slistPc EXCEPT ![t] = "load"]
    /\ old' = [old EXCEPT ![t] = NothingLoaded]
    /\ UNCHANGED <<header, entryNext, slistOp, new, entryOwner, slistCalls>>

SListNext ==
    \E t \in User :
        \/ PushEntry(t) \/ PushList(t) \/ PopEntry(t) \/ FlushList(t)
        \/ LoadHalf(t) \/ PreparePush(t) \/ PopNothing(t) \/ PreparePop(t) \/ PrepareFlush(t)
        \/ SwapHeader(t) \/ SwapFails(t)

SListSpecification == SListInit /\ [][SListNext]_slistVars

-----------------------------------------------------------------------------
\* RtlQueryDepthSList, RtlFirstEntrySList
QueryDepth == header.depth

Stack == INSTANCE SListSpec WITH Thread <- User, stack <- Contents, owned <- entryOwner, depth <- QueryDepth

\* However pushes, pops and flushes interleave, and whatever becomes of popped
\* entries, the list behaves like a stack whose operations are atomic: no entry is
\* lost or handed out twice, each pop takes the entry that is on top when its swap
\* succeeds, and the depth is the number of entries.
SListIsStack == Stack!Spec
=============================================================================
