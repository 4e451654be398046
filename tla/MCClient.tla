------------------------------ MODULE MCClient ------------------------------
(* Instances of Client for TLC. *)
EXTENDS Client, TLC

CONSTANTS o1, o2, t1

U(kind, with, timed, callback) ==
    [kind |-> kind, with |-> with, timed |-> timed, callback |-> callback]

\* Two threads: one connects, subscribes, or calls with a progress callback, with a time-out
\* or without; the other drops the subscription, calls without a time-out or closes the
\* client meanwhile; or both close it.  A close is timed when its $/sessionClose may take more
\* than its five seconds: that is not met together with a call's own time-out.
Connect0 == U("connect", None, TRUE, FALSE)
Sub(timed) == U("subscribe", t1, timed, TRUE)
Call(timed) == U("call", None, timed, timed)
Close(timed) == U("close", None, timed, FALSE)

Pairs ==
    {<<Connect0, Call(FALSE)>>, <<Connect0, Close(TRUE)>>,
     <<Sub(TRUE), U("unsubscribe", o1, FALSE, FALSE)>>, <<Sub(TRUE), Call(FALSE)>>,
     <<Sub(FALSE), Close(TRUE)>>, <<Call(TRUE), Call(FALSE)>>, <<Call(TRUE), Close(FALSE)>>,
     <<Call(FALSE), Close(TRUE)>>, <<Close(TRUE), Close(TRUE)>>}

PairUsage == {o1 :> p[1] @@ o2 :> p[2] : p \in Pairs}

=============================================================================
