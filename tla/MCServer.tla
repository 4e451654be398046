------------------------------ MODULE MCServer ------------------------------
(* Small instances of Server for TLC: what clients send in each run.       *)
EXTENDS Server

M(kind, s, rid, target, flags) ==
    [kind |-> kind, session |-> s, rid |-> rid, target |-> target, flags |-> flags]

\* Requests that report progress, and a subscriber.
StreamTraffic ==
    UNION {{M("call", s, i, None, {}), M("subscribe", s, i, t, {})}
           : s \in Sessions, i \in Ids, t \in Topics}

\* Handlers that wait to be cancelled, cancels, and a note.
WaitTraffic ==
    UNION {{M("call", s, i, None, {"cancellable", "waits"}), M("call", s, None, None, {})}
           \cup {M("cancel", s, i, t, {}) : t \in Ids}
           : s \in Sessions, i \in Ids}

CallIdSymmetry == Permutations(Calls) \cup Permutations(Ids)

=============================================================================
