----------------------------- MODULE SListSpec -----------------------------
(***************************************************************************)
(* What an interlocked singly linked list promises: a stack whose          *)
(* operations are atomic.  owned[t] is the set of entries thread t may use *)
(* as it likes: those it has not pushed yet, or has popped or flushed.     *)
(***************************************************************************)
EXTENDS Naturals, FiniteSets, SequencesExt

CONSTANTS Thread, Entry, DepthModulus

VARIABLES stack, owned, depth

stackVars == <<stack, owned, depth>>

Init ==
    /\ stack \in UNION {[1 .. k -> Entry] : k \in 0 .. Cardinality(Entry)} /\ IsInjective(stack)
    /\ owned \in [Thread -> SUBSET Entry]
    /\ depth = Len(stack) % DepthModulus

Become(t, new, mine) ==
    /\ stack' = new
    /\ owned' = [owned EXCEPT ![t] = mine]
    /\ depth' = Len(new) % DepthModulus

Push(t) == \E e \in owned[t] : Become(t, <<e>> \o stack, owned[t] \ {e})

PushList(t) ==
    \E e, f \in owned[t] : e # f /\ Become(t, <<e, f>> \o stack, owned[t] \ {e, f})

Pop(t) == stack # <<>> /\ Become(t, Tail(stack), owned[t] \cup {Head(stack)})

Flush(t) == Become(t, <<>>, owned[t] \cup ToSet(stack))

Next == \E t \in Thread : Push(t) \/ PushList(t) \/ Pop(t) \/ Flush(t)

Spec == Init /\ [][Next]_stackVars
=============================================================================
