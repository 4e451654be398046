----------------------------- MODULE MCDispatch -----------------------------
(* Small instances of Dispatch for TLC: what clients send in each run.     *)
EXTENDS Dispatch, TLC

M(kind, s, rid, target, flags) ==
    [kind |-> kind, session |-> s, rid |-> rid, target |-> target, flags |-> flags]

\* Cancellations of handlers and subscriptions, across sessions.
CancelTraffic ==
    UNION {{M("call", s, i, None, f) : f \in {{}, {"cancellable", "waits"}}}
           \cup {M("subscribe", s, i, t, {}) : t \in Topics}
           \cup {M("cancel", s, i, t, {}) : t \in Ids \cup Calls}
           : s \in Sessions, i \in Ids}

\* A session set up, used and closed, with progress reported by handlers and by the threads
\* they leave behind; every kind of message and every exit, with and without an audited or
\* pre_auth method, as a request and as a note.
SessionTraffic ==
    UNION {{M(k, s, i, None, {}) : k \in {"setup", "continue", "close", "info", "malformed"}}
           \cup {M("call", s, i, None, f) :
                    f \in {{"audit"}, {"pre_auth"}, {"pre_auth", "stub", "audit"}}}
           \cup {M("transfer", s, i, None, f) : f \in {{"pre_auth"}, {"pre_auth", "audit"}}}
           \cup {M("subscribe", s, i, t, {"audit"}) : t \in Topics}
           : s \in Sessions, i \in Ids \cup {None}}

\* A subscribe, while the socket may drop.
LeakTraffic ==
    {M("subscribe", s, i, t, {}) : s \in Sessions, i \in Ids, t \in Topics}

CallSymmetry == Permutations(Calls)
CallIdSymmetry == Permutations(Calls) \cup Permutations(Ids)
=============================================================================
