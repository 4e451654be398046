------------------------------- MODULE Login -------------------------------
(***************************************************************************)
(* What a session owes its application about who is logged in: one log-in  *)
(* at a time, about one user from its first message to its last, whose     *)
(* factors count for that log-in only; whoever is let in stays, and every  *)
(* call runs as him.                                                       *)
(*                                                                         *)
(* No session field that is read and written in separate steps, no         *)
(* lifecycle stored after it, no verifier: AuthStack implements this with  *)
(* all of them (AuthStack!ImplementsLogin).                                *)
(***************************************************************************)
CONSTANTS
    Callers,        \* calls an application method may serve
    Users, OtpUsers, Trusted, None

VARIABLES
    phase,          \* "out", "pending" or "in"
    user,           \* whom the log-in is about, or who is in
    proven,         \* factors passed in this log-in
    caller          \* whom a call ran as

vars == <<phase, user, proven, caller>>

\* A ticket, or a local peer's credentials, are enough; else whoever has a second factor
\* needs it too.
Enough(u, factors) ==
    \/ factors = {"gssapi"}
    \/ factors = {"peercred"} /\ u \in Trusted
    \/ \E first \in {"scram", "cert"} :
          factors = IF u \in OtpUsers THEN {first, "otp"} ELSE {first}

Init ==
    /\ phase = "out" /\ user = None /\ proven = {}
    /\ caller = [c \in Callers |-> None]

\* A certificate may come with the first message, and ask for a second factor.
Begin(u) ==
    /\ phase = "out" /\ phase' = "pending"
    /\ user' = u
    /\ proven' = {} \/ (proven' = {"cert"} /\ u \in OtpUsers)
    /\ UNCHANGED caller

Prove ==
    /\ phase = "pending"
    /\ proven = {} /\ user \in OtpUsers
    /\ proven' = {"scram"}
    /\ UNCHANGED <<phase, user, caller>>

Admit(u, factor) ==
    /\ phase = "out" \/ (phase = "pending" /\ user = u)
    /\ proven' = proven \cup {factor} /\ Enough(u, proven')
    /\ phase' = "in" /\ user' = u
    /\ UNCHANGED caller

Fail ==
    /\ phase = "pending" /\ phase' = "out"
    /\ user' = None /\ proven' = {}
    /\ UNCHANGED caller

Serve(c) ==
    /\ phase = "in" /\ caller[c] = None
    /\ caller' = [caller EXCEPT ![c] = user]
    /\ UNCHANGED <<phase, user, proven>>

Next ==
    \/ \E u \in Users :
          Begin(u) \/ \E f \in {"peercred", "gssapi", "scram", "cert", "otp"} : Admit(u, f)
    \/ Prove \/ Fail
    \/ \E c \in Callers : Serve(c)

Spec == Init /\ [][Next]_vars
=============================================================================
