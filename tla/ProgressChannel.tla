--------------------------- MODULE ProgressChannel --------------------------
(***************************************************************************)
(* What the outbound queue of a JSONRPCProtocol promises to whoever runs   *)
(* requests and whoever reads it: a request emits progress only while its  *)
(* handler runs, ending it takes its own unread progress away with it, in  *)
(* one step, and nothing else; everything else is read oldest first.       *)
(*                                                                         *)
(* No registry of request ids, no counter, no lock: Dispatch implements    *)
(* this with all three (Dispatch!ImplementsChannel).                       *)
(***************************************************************************)
EXTENDS Integers

CONSTANTS Requests, Ids, None, Stamps

VARIABLES
    phase,      \* "pending", "running" or "over", for each request
    queue       \* unread entries; rid = None for a published notification

vars == <<phase, queue>>

Phases == {"pending", "running", "over"}

TypeOK ==
    /\ phase \in [Requests -> Phases]
    /\ queue \subseteq [stamp : Stamps, rid : Ids \cup {None}, origin : Requests]

Init == phase = [r \in Requests |-> "pending"] /\ queue = {}

Move(r, from, to) == phase[r] = from /\ phase' = [phase EXCEPT ![r] = to]

Start(r) == Move(r, "pending", "running") /\ UNCHANGED queue

\* Denied, malformed, a control operation: over without having run.
Refuse(r) == Move(r, "pending", "over") /\ UNCHANGED queue

Newest(n) == \A e \in queue : e.stamp < n

Emit(r) ==
    /\ phase[r] = "running"
    /\ \E n \in Stamps, i \in Ids :
          Newest(n) /\ queue' = queue \cup {[stamp |-> n, rid |-> i, origin |-> r]}
    /\ UNCHANGED phase

End(r) ==
    /\ Move(r, "running", "over")
    /\ queue' = {e \in queue : e.rid # None => e.origin # r}

Announce(audience) ==
    /\ \E n \in Stamps :
          /\ Newest(n)
          /\ queue' = queue \cup {[stamp |-> n, rid |-> None, origin |-> r] : r \in audience}
    /\ UNCHANGED phase

Deliver(e) ==
    /\ \A f \in queue : e.stamp <= f.stamp
    /\ queue' = queue \ {e}
    /\ UNCHANGED phase

Next ==
    \/ \E r \in Requests : Start(r) \/ Refuse(r) \/ Emit(r) \/ End(r)
    \/ \E audience \in SUBSET Requests : Announce(audience)
    \/ \E e \in queue : Deliver(e)

Spec == Init /\ [][Next]_vars
=============================================================================
