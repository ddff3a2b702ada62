----------------------------- MODULE MCServerWait -----------------------------
EXTENDS ServerWait, TLC

CONSTANTS m, e, s

Call(op, objs, when, alertable, signal) ==
    [op |-> op, objs |-> objs, when |-> when, alertable |-> alertable, signal |-> signal]

Symmetry == Permutations(Thread)

\* A plain wait, a signal-and-wait that only the owner of the mutex may make, a
\* wait for two objects and one for either of two.
ObjectCalls == {Call("wait", <<m>>, "infinite", FALSE, None),
                Call("signal_and_wait", <<s>>, "infinite", FALSE, m),
                Call("wait_all", <<m, s>>, "infinite", FALSE, None),
                Call("wait", <<e, m>>, "infinite", FALSE, None)}

\* Waits that time out or are alertable, for the suspend and APC paths.
InterruptCalls == {Call("wait", <<e>>, "finite", TRUE, None),
                   Call("wait_all", <<e, s>>, "zero", FALSE, None)}

\* A wait for two objects with a timeout beside a plain wait.
TimeoutCalls == {Call("wait", <<s>>, "infinite", FALSE, None),
                 Call("wait_all", <<e, s>>, "finite", FALSE, None)}

SignalCalls == {Call("signal_and_wait", <<e>>, "infinite", FALSE, s)}
=============================================================================
