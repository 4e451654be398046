----------------------------- MODULE AuthStack -----------------------------
(***************************************************************************)
(* The setup handlers an AuthStack installs, on one session: where         *)
(* Dispatch leaves open what a setup handler returns, this module says it. *)
(*                                                                         *)
(* Everything the stack remembers is one field of the session,             *)
(* server_state_internal: the connection's Peer at first, a pending        *)
(* exchange while a log-in goes on, the identity in the end.  A handler    *)
(* reads it once, runs a verifier, and may write it; dispatch then stores  *)
(* the lifecycle the handler returned, and the audit thread later builds a *)
(* record from what the field holds by that time.                          *)
(*                                                                         *)
(* What a verifier finds is a choice, within this: it accepts a proof only *)
(* for the user the pending exchange is about.                             *)
(***************************************************************************)
EXTENDS Sequences

CONSTANTS
    Msgs,           \* messages a client sends
    Users,
    OtpUsers,       \* users whose first factor calls for a second
    Trusted,        \* users a local peer is taken for by its credentials
    Named,          \* users whose identity is a dict, with the name in it
    Traffic,        \* what the client may send
    Transports,     \* what the connection may be
    Pipelined,      \* the client does not wait for answers
    None

\* A SCRAM or GSSAPI message of the wrong type for its place is among the rejected.
Message == [kind : {"setup", "continue", "call"},
            mech : {"none", "scram", "gssapi", "cert", "otp"}, user : Users]

\* `exchange' is the setup message a log-in began with, `proven' the factors passed
\* in it; `origin' tells whether the Peer is still known.
Pending == {"scram", "gssapi", "otp"}
Holder == [kind : {"peer", "identity"} \cup Pending, user : Users \cup {None},
           exchange : Msgs \cup {None},
           proven : SUBSET {"scram", "gssapi", "cert", "otp", "peercred"}, origin : BOOLEAN]

Peer == [kind |-> "peer", user |-> None, exchange |-> None, proven |-> {}, origin |-> TRUE]

Result == [answer : {"success", "again", "rejected", "error", "refused"},
           to : {"NONE", "INIT", "ESTABLISHED", "unchanged"}]

ASSUME AuthAssumption ==
    /\ OtpUsers \subseteq Users /\ Trusted \subseteq Users /\ Named \subseteq Users
    /\ Traffic \subseteq Message
    /\ Transports \subseteq {"unix", "tcp", "mtls"}  \* mtls: with a client certificate
    /\ Pipelined \in BOOLEAN
    /\ None \notin Msgs \cup Users \cup Message \cup Holder \cup Result

VARIABLES
    transport,      \* what it is, in the Peer for as long as that is kept
    msg,            \* what a message asks for
    pc,             \* where its dispatch stands
    lifecycle,      \* SessionState.lifecycle
    holder,         \* SessionState.server_state_internal
    seen,           \* what a handler has read of holder
    conversations,  \* PAM conversations not ended, by the setup that opened them
    result,         \* the AuthResult, and the lifecycle to store with it
    auditQueue,     \* _audit_queue
    record          \* the audit record's user

vars == <<transport, msg, pc, lifecycle, holder, seen, conversations, result, auditQueue,
          record>>

AuthTypeOK ==
    /\ transport \in Transports
    /\ msg \in [Msgs -> Traffic \cup {None}]
    /\ pc \in [Msgs -> {"idle", "handling", "verifying", "storing", "done"}]
    /\ lifecycle \in {"NONE", "INIT", "ESTABLISHED"}
    /\ holder \in Holder
    /\ seen \in [Msgs -> Holder \cup {None}]
    /\ conversations \subseteq Msgs
    /\ result \in [Msgs -> Result \cup {None}]
    /\ auditQueue \in Seq(Msgs)
    /\ record \in [Msgs -> Users \cup {None, "PEER", "UNKNOWN"}]
    /\ holder.kind # "peer" => holder.user \in Users /\ holder.exchange \in Msgs
    /\ \A m \in Msgs : pc[m] \in {"verifying", "storing"} => seen[m] # None

AuthInit ==
    /\ transport \in Transports
    /\ msg = [m \in Msgs |-> None]
    /\ pc = [m \in Msgs |-> "idle"]
    /\ lifecycle = "NONE"
    /\ holder = Peer
    /\ seen = [m \in Msgs |-> None]
    /\ conversations = {}
    /\ result = [m \in Msgs |-> None]
    /\ auditQueue = <<>>
    /\ record = [m \in Msgs |-> None]

GoTo(m, where) == pc' = [pc EXCEPT ![m] = where]
Answer(m, answer, to) == result' = [result EXCEPT ![m] = [answer |-> answer, to |-> to]]

-----------------------------------------------------------------------------
(* Dispatch, before and after the handler.                                 *)

\* The lifecycle a message is accepted at.
\* Deliberately wrong: DueAnyTime lets a setup begin at any lifecycle.
DueAnyTime(kind) == IF kind = "setup" THEN lifecycle
                    ELSE IF kind = "continue" THEN "INIT" ELSE "ESTABLISHED"
Due(kind) == CASE kind = "setup" -> "NONE"
               [] kind = "continue" -> "INIT"
               [] kind = "call" -> "ESTABLISHED"

Gate(m, x) ==
    /\ pc[m] = "idle"
    /\ Pipelined \/ \A n \in Msgs : pc[n] \in {"idle", "done"}
    /\ msg' = [msg EXCEPT ![m] = x]
    /\ \/ lifecycle = Due(x.kind) /\ GoTo(m, "handling") /\ UNCHANGED result
       \/ lifecycle # Due(x.kind) /\ GoTo(m, "done") /\ Answer(m, "refused", "unchanged")
    /\ UNCHANGED <<transport, lifecycle, holder, seen, conversations, auditQueue, record>>

\* The reply is ready; the audit job waits for the audit thread.
Return(m) == GoTo(m, "done") /\ auditQueue' = Append(auditQueue, m)

\* A setup handler looks whom it deals with; so does a method, which then returns.
ReadHolder(m) ==
    /\ pc[m] = "handling"
    /\ seen' = [seen EXCEPT ![m] = holder]
    /\ \/ msg[m].kind = "call" /\ Return(m)
       \/ msg[m].kind # "call" /\ GoTo(m, "verifying") /\ UNCHANGED auditQueue
    /\ UNCHANGED <<transport, msg, lifecycle, holder, conversations, result, record>>

\* The proof m brings is put to the PAM conversation of the pending exchange.
Judged(m) == msg[m].kind = "continue" /\ msg[m].mech = "scram" /\ seen[m].kind = "scram"

\* A verifier raised: an error, and no lifecycle to store.  The conversation it spoke
\* with may be ended by then.
Raise(m) ==
    /\ pc[m] = "verifying"
    /\ Answer(m, "error", "unchanged")
    /\ \/ UNCHANGED conversations
       \/ Judged(m) /\ conversations' = conversations \ {seen[m].exchange}
    /\ Return(m)
    /\ UNCHANGED <<transport, msg, lifecycle, holder, seen, record>>

Store(m) ==
    /\ pc[m] = "storing"
    /\ lifecycle' = result[m].to
    /\ Return(m)
    /\ UNCHANGED <<transport, msg, holder, seen, conversations, result, record>>

\* default_username() on what the session holds now: of identities it knows dicts only, of
\* peers those with a uid.
Attributed(h) == CASE h.kind = "identity" /\ h.user \in Named -> h.user
                   [] h.kind = "peer" /\ transport = "unix" -> "PEER"
                   [] OTHER -> "UNKNOWN"

\* The audit thread takes the oldest job and builds its record.
Audit ==
    /\ auditQueue # <<>>
    /\ auditQueue' = Tail(auditQueue)
    /\ record' = [record EXCEPT ![Head(auditQueue)] = Attributed(holder)]
    /\ UNCHANGED <<transport, msg, pc, lifecycle, holder, seen, conversations, result>>

-----------------------------------------------------------------------------
(* What a handler returns, and leaves in the holder.                       *)

\* The exchange m takes part in: its own if it is a setup, else the one pending.
\* Deliberately wrong: ExchangeSeen takes the one the field held before.
ExchangeSeen(m) == seen[m].exchange
Exchange(m) == IF msg[m].kind = "setup" THEN m ELSE seen[m].exchange
\* Deliberately wrong: ProvenSeen adds what an earlier log-in has proved.
ProvenSeen(m) == seen[m].proven
ProvenBy(m) == IF msg[m].kind = "setup" THEN {} ELSE seen[m].proven
OriginOf(m) == IF msg[m].kind = "setup" THEN seen[m].kind = "peer" ELSE seen[m].origin

Held(m, kind, user, factors) ==
    [kind |-> kind, user |-> user, exchange |-> Exchange(m),
     proven |-> ProvenBy(m) \cup factors, origin |-> OriginOf(m)]

Conclude(m, answer, to) == Answer(m, answer, to) /\ GoTo(m, "storing")

\* _establish()
Establish(m, user, factors) ==
    /\ holder' = Held(m, "identity", user, factors)
    /\ Conclude(m, "success", "ESTABLISHED")

\* The exchange goes on; `kind' is the holder's class.
GoOn(m, kind, user, factors) ==
    /\ holder' = Held(m, kind, user, factors)
    /\ Conclude(m, "again", "INIT")

\* The lifecycle after a rejection.
\* Deliberately wrong: StillInit leaves the exchange open.
StillInit == "INIT"
AfterReject == "NONE"

\* Every rejection leaves the holder as it is.
Refuse(m) == Conclude(m, "rejected", AfterReject) /\ UNCHANGED holder

\* Deliberately wrong: NoSecondFactor takes the first factor for enough.
NoSecondFactor(u) == FALSE
NeedsOtp(u) == u \in OtpUsers

\* A verifier that finds the first factor good: a second one may be due.
FirstFactor(m, user, factor) ==
    IF NeedsOtp(user) THEN GoOn(m, "otp", user, {factor}) ELSE Establish(m, user, {factor})

-----------------------------------------------------------------------------
(* _on_setup().                                                            *)

\* What the handler knows of the connection: it takes the holder for the Peer.
SeesPeer(m) == seen[m].kind = "peer"

SetupPeercred(m) ==
    /\ SeesPeer(m) /\ transport = "unix"
    /\ \E u \in Trusted : Establish(m, u, {"peercred"})

SetupCert(m) ==
    /\ msg[m].mech = "cert"
    /\ \/ SeesPeer(m) /\ transport = "mtls" /\ FirstFactor(m, msg[m].user, "cert")
       \/ Refuse(m)

\* scram_begin() ends the conversation again wherever it refuses.
SetupScram(m) ==
    /\ msg[m].mech = "scram"
    /\ \/ GoOn(m, "scram", msg[m].user, {}) /\ conversations' = conversations \cup {m}
       \/ Refuse(m) /\ UNCHANGED conversations

SetupGssapi(m) ==
    /\ msg[m].mech = "gssapi"
    /\ \/ GoOn(m, "gssapi", msg[m].user, {})
       \/ Establish(m, msg[m].user, {"gssapi"})
       \/ Refuse(m)

OnSetup(m) ==
    /\ pc[m] = "verifying" /\ msg[m].kind = "setup"
    /\ \/ SetupScram(m)
       \/ /\ \/ SetupPeercred(m) \/ SetupCert(m) \/ SetupGssapi(m)
             \/ msg[m].mech = "none" /\ Refuse(m)
          /\ UNCHANGED conversations
    /\ UNCHANGED <<transport, msg, lifecycle, seen, auditQueue, record>>

-----------------------------------------------------------------------------
(* _on_continue().                                                         *)

\* The proof is about the user of the pending exchange.
Proves(m) == msg[m].user = seen[m].user

\* A conversation that has ended finds no proof good.
FinalAccepted(m) ==
    /\ Proves(m) /\ seen[m].exchange \in conversations
    /\ FirstFactor(m, seen[m].user, "scram")

\* scram_finish(): whatever it finds, the conversation is over.
\* Deliberately wrong: LeftTalking ends it for a bad proof only.
LeftTalking(m) ==
    \/ FinalAccepted(m) /\ UNCHANGED conversations
    \/ Refuse(m) /\ conversations' = conversations \ {seen[m].exchange}
ScramFinish(m) ==
    /\ FinalAccepted(m) \/ Refuse(m)
    /\ conversations' = conversations \ {seen[m].exchange}

\* A message of the wrong type, or without a SCRAM exchange, reaches no conversation.
ContinueScram(m) ==
    /\ msg[m].mech = "scram"
    /\ \/ Judged(m) /\ ScramFinish(m)
       \/ Refuse(m) /\ UNCHANGED conversations

ContinueGssapi(m) ==
    /\ msg[m].mech = "gssapi"
    /\ \/ /\ seen[m].kind = "gssapi" /\ Proves(m)
          /\ GoOn(m, "gssapi", seen[m].user, {}) \/ Establish(m, seen[m].user, {"gssapi"})
       \/ Refuse(m)

\* A wrong token may be tried again, also one nobody asked for; another prompt
\* keeps the exchange; a denied or expired user is out.
ContinueOtp(m) ==
    /\ msg[m].mech = "otp"
    /\ \/ seen[m].kind = "otp" /\ Proves(m) /\ Establish(m, seen[m].user, {"otp"})
       \/ seen[m].kind = "otp" /\ GoOn(m, "otp", seen[m].user, {})
       \/ Conclude(m, "again", "INIT") /\ UNCHANGED holder
       \/ seen[m].kind = "otp" /\ Refuse(m)

OnContinue(m) ==
    /\ pc[m] = "verifying" /\ msg[m].kind = "continue"
    /\ \/ ContinueScram(m)
       \/ (ContinueGssapi(m) \/ ContinueOtp(m)) /\ UNCHANGED conversations
    /\ UNCHANGED <<transport, msg, lifecycle, seen, auditQueue, record>>

-----------------------------------------------------------------------------
AuthNext ==
    \/ \E m \in Msgs :
           \/ \E x \in Traffic : Gate(m, x)
           \/ ReadHolder(m) \/ Raise(m) \/ OnSetup(m) \/ OnContinue(m) \/ Store(m)
    \/ Audit

AuthSpec == AuthInit /\ [][AuthNext]_vars

-----------------------------------------------------------------------------
(* Properties.                                                             *)

Ran(m) == msg[m] # None /\ msg[m].kind = "call" /\ seen[m] # None

\* Whom an application method takes its caller for is somebody the exchange was
\* about from its first message on, with the second factor passed in that same
\* exchange if he needs one: factors of two log-ins are never added up.
CallsActAsProven ==
    \A m \in Msgs : Ran(m) =>
        /\ seen[m].kind = "identity"
        /\ msg[seen[m].exchange].kind = "setup"
        /\ seen[m].proven # {"otp"}
        /\ seen[m].user \in OtpUsers /\ seen[m].proven \cap {"scram", "cert"} # {}
               => "otp" \in seen[m].proven
        /\ "peercred" \in seen[m].proven \/ msg[seen[m].exchange].user = seen[m].user

\* A rejection is the end of the exchange: no later message of the client makes it a
\* success, although its pending state stays in the session.
RejectedExchangeDead ==
    [][\A m \in Msgs :
          result'[m] # result[m] /\ result'[m].answer = "success"
          => \A n \in Msgs \ {m} :
                result[n] # None /\ result[n].answer = "rejected" => Exchange(n) # Exchange(m)]_vars

\* A log-in that got past its SCRAM proof has no PAM conversation open any more, also
\* when the proof was tried again after an error.
ProofEndsConversation ==
    "scram" \in holder.proven => holder.exchange \notin conversations

\* The record of a method call names the user the call ran as, although the audit
\* thread reads it from the session some time later; or nobody, when his identity has
\* no name that default_username() finds.
AuditNamesCaller ==
    \A m \in Msgs : Ran(m) /\ record[m] # None =>
        record[m] = IF seen[m].user \in Named THEN seen[m].user ELSE "UNKNOWN"

\* _on_setup() reads "the server-seeded Peer" from the session.
SetupSeesPeer ==
    \A m \in Msgs :
        seen[m] # None /\ msg[m].kind = "setup" => seen[m].kind = "peer"

-----------------------------------------------------------------------------
(* The log-in, as its callers may take it.                                 *)

\* Where the session stands: what a handler has decided counts before dispatch stores it.
Stands(where) ==
    \/ lifecycle = where /\ \A m \in Msgs : pc[m] # "storing"
    \/ \E m \in Msgs : pc[m] = "storing" /\ result[m].to = where

Phase == IF Stands("NONE") THEN "out" ELSE IF Stands("INIT") THEN "pending" ELSE "in"

RanAs == [m \in Msgs |-> IF Ran(m) THEN seen[m].user ELSE None]

LoggedIn == INSTANCE Login WITH
    Callers <- Msgs,
    phase   <- Phase,
    user    <- IF Phase = "out" THEN None ELSE holder.user,
    proven  <- IF Phase = "out" THEN {} ELSE holder.proven,
    caller  <- RanAs

\* Reading the session, verifying, writing the session and storing the lifecycle are one
\* step to whoever calls a method: a log-in is about one user and counts its own factors,
\* a rejected one leaves nothing that the next could use, and who is in stays in.
ImplementsLogin == LoggedIn!Spec

=============================================================================
