-------------------------- MODULE AuthStackProofs --------------------------
(***************************************************************************)
(* What AuthStack promises, proved for any number of messages, any users   *)
(* and any traffic.  Its variables have their types whatever the client    *)
(* does; the rest holds of a client that waits for answers.                *)
(*                                                                         *)
(* The argument: with one message at work at a time, what a handler has    *)
(* read of the session is what the session still holds, so the pending     *)
(* exchange a handler goes on with is one a setup has begun, which nobody  *)
(* rejected meanwhile; and once the session is established no handler      *)
(* writes it any more, so what a method read of it is what the audit       *)
(* thread reads later.                                                     *)
(***************************************************************************)
EXTENDS AuthStack, Naturals, TLAPS

AtWork == {"handling", "verifying", "storing"}

\* What the type invariant rests on.
AuthTypeInv ==
    /\ AuthTypeOK
    /\ \A m \in Msgs :
        /\ seen[m] # None /\ seen[m].kind # "peer"
              => seen[m].user \in Users /\ seen[m].exchange \in Msgs
        /\ pc[m] = "storing" => result[m] # None /\ result[m].to # "unchanged"
        /\ pc[m] # "idle" => msg[m] # None

\* One message at work at a time, at its lifecycle, on what the session holds.
OneAtWork ==
    /\ \A m, n \in Msgs : pc[m] \in AtWork /\ pc[n] \in AtWork => m = n
    /\ \A m \in Msgs :
        /\ pc[m] \in AtWork => lifecycle = Due(msg[m].kind)
        /\ pc[m] \in {"idle", "handling"} => seen[m] = None
        /\ pc[m] = "verifying" => seen[m] = holder
        /\ pc[m] \in {"verifying", "storing"} => msg[m].kind # "call"

\* A setup began the exchange h tells of, and was about its user.
Rightful(h) ==
    /\ msg[h.exchange].kind = "setup"
    /\ h.kind \in Pending => msg[h.exchange].user = h.user
    /\ h.kind \in {"scram", "gssapi"} => h.proven = {}
    /\ h.kind = "otp" => h.proven \in {{"scram"}, {"cert"}} /\ h.user \in OtpUsers
    /\ h.kind = "identity" =>
        /\ h.proven # {"otp"}
        /\ h.user \in OtpUsers /\ h.proven \cap {"scram", "cert"} # {} => "otp" \in h.proven
        /\ "peercred" \in h.proven \/ msg[h.exchange].user = h.user

HolderSound == holder.kind # "peer" => pc[holder.exchange] # "idle" /\ Rightful(holder)

\* A session becomes established with an identity, which nobody replaces.
EstablishedHeld ==
    /\ lifecycle = "ESTABLISHED" => holder.kind = "identity"
    /\ \A m \in Msgs :
        /\ pc[m] = "storing" /\ result[m].to = "ESTABLISHED" => holder.kind = "identity"
        /\ Ran(m) => lifecycle = "ESTABLISHED" /\ seen[m] = holder

\* Only a call that has returned has a record, and then the user it ran as.
Recorded ==
    /\ \A i \in 1 .. Len(auditQueue) : pc[auditQueue[i]] = "done"
    /\ \A m \in Msgs : record[m] # None =>
        /\ pc[m] = "done"
        /\ Ran(m) => record[m] = IF seen[m].user \in Named THEN seen[m].user ELSE "UNKNOWN"

\* The session is in the middle of an exchange, or about to be.
Going ==
    \/ lifecycle = "INIT" /\ \A m \in Msgs : pc[m] # "storing"
    \/ \E m \in Msgs : pc[m] = "storing" /\ result[m].to = "INIT"

Rejected(n) == result[n] # None /\ result[n].answer = "rejected"

\* The exchange that goes on is none that was rejected, and a setup yet to act is
\* nobody's exchange.
RejectedOver ==
    \A n \in Msgs :
        /\ Rejected(n) => pc[n] \in {"storing", "done"} /\ seen[n] # None
        /\ Rejected(n) /\ Going => Exchange(n) # holder.exchange
        /\ pc[n] \in {"idle", "handling", "verifying"} =>
              /\ holder.exchange # n
              /\ \A k \in Msgs : seen[k] # None => seen[k].exchange # n

AuthInv ==
    /\ AuthTypeInv /\ OneAtWork /\ HolderSound /\ EstablishedHeld /\ Recorded /\ RejectedOver
    /\ ProofEndsConversation

-----------------------------------------------------------------------------
(* What a handler comes to, and type correctness.                          *)

Factors == {"scram", "gssapi", "cert", "otp", "peercred"}

\* A handler refuses, asks again, goes on with an exchange or establishes the session.
Outcome(m) ==
    /\ pc[m] = "verifying" /\ msg[m].kind # "call"
    /\ \/ Refuse(m)
       \/ msg[m].kind = "continue" /\ Conclude(m, "again", "INIT") /\ UNCHANGED holder
       \/ /\ msg[m].kind = "setup" \/ seen[m].kind # "peer"
          /\ \E user \in Users, factors \in SUBSET Factors :
                \/ \E kind \in Pending : GoOn(m, kind, user, factors)
                \/ Establish(m, user, factors)
    /\ UNCHANGED <<transport, msg, lifecycle, seen, auditQueue, record>>

LEMMA FirstFactorOutcome ==
    ASSUME NEW m \in Msgs, NEW user \in Users, NEW factor \in Factors,
           FirstFactor(m, user, factor)
    PROVE  \E u \in Users, factors \in SUBSET Factors :
              \/ \E kind \in Pending : GoOn(m, kind, u, factors)
              \/ Establish(m, u, factors)
  <1>1. {factor} \in SUBSET Factors
    OBVIOUS
  <1>2. CASE NeedsOtp(user)
    BY <1>1, <1>2 DEF FirstFactor, Pending
  <1>3. CASE ~NeedsOtp(user)
    BY <1>1, <1>3 DEF FirstFactor
  <1>4. QED
    BY <1>2, <1>3

LEMMA MessageType ==
    ASSUME AuthTypeInv, NEW m \in Msgs, pc[m] # "idle"
    PROVE  msg[m] \in Message /\ msg[m].user \in Users
  BY AuthAssumption DEF AuthTypeInv, AuthTypeOK, Message

LEMMA SetupOutcome ==
    ASSUME AuthTypeInv, NEW m \in Msgs, OnSetup(m)
    PROVE  Outcome(m) /\ conversations' \in {conversations, conversations \cup {m}}
  <1>1. pc[m] = "verifying" /\ msg[m].kind = "setup"
    BY DEF OnSetup
  <1>2. msg[m].user \in Users
    BY <1>1, MessageType
  <1>3. UNCHANGED <<transport, msg, lifecycle, seen, auditQueue, record>>
    BY DEF OnSetup
  <1>4. {} \in SUBSET Factors /\ {"gssapi"} \in SUBSET Factors /\ {"peercred"} \in SUBSET Factors
    BY DEF Factors
  <1>5. CASE SetupScram(m)
    BY <1>1, <1>2, <1>3, <1>4, <1>5 DEF SetupScram, Outcome, Pending
  <1>6. CASE SetupPeercred(m) /\ UNCHANGED conversations
    <2>1. PICK u \in Trusted : Establish(m, u, {"peercred"})
      BY <1>6 DEF SetupPeercred
    <2>2. u \in Users
      BY AuthAssumption
    <2>3. QED
      BY <1>1, <1>3, <1>4, <1>6, <2>1, <2>2 DEF Outcome
  <1>7. CASE SetupCert(m) /\ UNCHANGED conversations
    <2>1. CASE Refuse(m)
      BY <1>1, <1>3, <1>7, <2>1 DEF Outcome
    <2>2. CASE FirstFactor(m, msg[m].user, "cert")
      BY <1>1, <1>2, <1>3, <1>7, <2>2, FirstFactorOutcome DEF Outcome, Factors
    <2>3. QED
      BY <1>7, <2>1, <2>2 DEF SetupCert
  <1>8. CASE SetupGssapi(m) /\ UNCHANGED conversations
    BY <1>1, <1>2, <1>3, <1>4, <1>8 DEF SetupGssapi, Outcome, Pending
  <1>9. CASE Refuse(m) /\ UNCHANGED conversations
    BY <1>1, <1>3, <1>9 DEF Outcome
  <1>10. QED
    BY <1>5, <1>6, <1>7, <1>8, <1>9 DEF OnSetup

LEMMA ContinueOutcome ==
    ASSUME AuthTypeInv, NEW m \in Msgs, OnContinue(m)
    PROVE  Outcome(m) /\ conversations' \in {conversations, conversations \ {seen[m].exchange}}
  <1>1. pc[m] = "verifying" /\ msg[m].kind = "continue"
    BY DEF OnContinue
  <1>2. seen[m].kind # "peer" => seen[m].user \in Users
    BY <1>1 DEF AuthTypeInv, AuthTypeOK
  <1>3. UNCHANGED <<transport, msg, lifecycle, seen, auditQueue, record>>
    BY DEF OnContinue
  <1>4. {} \in SUBSET Factors /\ {"gssapi"} \in SUBSET Factors /\ {"otp"} \in SUBSET Factors
    BY DEF Factors
  <1>5. CASE ContinueScram(m)
    <2>1. CASE Judged(m) /\ FinalAccepted(m) /\ conversations' = conversations \ {seen[m].exchange}
      BY <1>1, <1>2, <1>3, <2>1, FirstFactorOutcome DEF Judged, FinalAccepted, Outcome, Factors
    <2>2. QED
      BY <1>1, <1>3, <1>5, <2>1 DEF ContinueScram, ScramFinish, Outcome
  <1>6. CASE ContinueGssapi(m) /\ UNCHANGED conversations
    BY <1>1, <1>2, <1>3, <1>4, <1>6 DEF ContinueGssapi, Outcome, Pending
  <1>7. CASE ContinueOtp(m) /\ UNCHANGED conversations
    BY <1>1, <1>2, <1>3, <1>4, <1>7 DEF ContinueOtp, Outcome, Pending
  <1>8. QED
    BY <1>5, <1>6, <1>7 DEF OnContinue

LEMMA HeldType ==
    ASSUME AuthTypeInv, NEW m \in Msgs, pc[m] = "verifying",
           msg[m].kind = "setup" \/ seen[m].kind # "peer",
           NEW kind \in {"identity"} \cup Pending, NEW user \in Users,
           NEW factors \in SUBSET Factors
    PROVE  /\ Held(m, kind, user, factors) \in Holder
           /\ Held(m, kind, user, factors).exchange \in Msgs
  <1>1. seen[m] \in Holder /\ (seen[m].kind # "peer" => seen[m].exchange \in Msgs)
    BY DEF AuthTypeInv, AuthTypeOK
  <1>2. Exchange(m) \in Msgs
    BY <1>1 DEF Exchange
  <1>3. ProvenBy(m) \in SUBSET Factors
    BY <1>1 DEF ProvenBy, Holder, Factors
  <1>4. OriginOf(m) \in BOOLEAN
    BY <1>1 DEF OriginOf, Holder
  <1>5. QED
    BY <1>2, <1>3, <1>4 DEF Held, Holder, Factors

LEMMA AuthTypeInit == AuthInit => AuthTypeInv
  BY AuthAssumption
  DEF AuthInit, AuthTypeInv, AuthTypeOK, Peer, Holder

LEMMA OutcomeType ==
    ASSUME AuthTypeInv, NEW m \in Msgs, Outcome(m), conversations' \subseteq Msgs
    PROVE  AuthTypeInv'
  <1> DEFINE Holds(h) ==
        h \in Holder /\ (h.kind # "peer" => h.user \in Users /\ h.exchange \in Msgs)
  <1>1. Holds(holder)
    BY DEF AuthTypeInv, AuthTypeOK
  <1>2. Holds(holder')
    <2>1. CASE UNCHANGED holder
      BY <1>1, <2>1
    <2>2. CASE ~UNCHANGED holder
      <3>1. PICK user \in Users, factors \in SUBSET Factors :
               \/ \E kind \in Pending : GoOn(m, kind, user, factors)
               \/ Establish(m, user, factors)
        BY <2>2 DEF Outcome, Refuse
      <3>2. PICK kind \in {"identity"} \cup Pending : holder' = Held(m, kind, user, factors)
        BY <3>1 DEF GoOn, Establish
      <3>3. msg[m].kind = "setup" \/ seen[m].kind # "peer"
        BY <2>2 DEF Outcome, Refuse
      <3>4. holder'.user = user
        BY <3>2 DEF Held
      <3>5. QED
        BY <3>2, <3>3, <3>4, HeldType DEF Outcome
    <2>3. QED
      BY <2>1, <2>2
  <1>3. PICK answer \in {"success", "again", "rejected"}, to \in {"NONE", "INIT", "ESTABLISHED"} :
           Conclude(m, answer, to)
    BY DEF Outcome, Refuse, AfterReject, GoOn, Establish
  <1>4. [answer |-> answer, to |-> to] \in Result
    BY DEF Result
  <1>5. [answer |-> answer, to |-> to] # None
    BY <1>4, AuthAssumption
  <1>6. /\ pc' = [pc EXCEPT ![m] = "storing"]
        /\ result' = [result EXCEPT ![m] = [answer |-> answer, to |-> to]]
    BY <1>3 DEF Conclude, Answer, GoTo
  <1>7. UNCHANGED <<transport, msg, lifecycle, seen, auditQueue, record>> /\ pc[m] = "verifying"
    BY DEF Outcome
  <1>8. AuthTypeOK'
    BY <1>2, <1>4, <1>6, <1>7 DEF AuthTypeInv, AuthTypeOK
  <1>9. QED
    BY <1>5, <1>6, <1>7, <1>8 DEF AuthTypeInv, AuthTypeOK

LEMMA AuthTypeStep ==
    ASSUME AuthTypeInv, [AuthNext]_vars
    PROVE  AuthTypeInv'
  <1>1. ASSUME NEW m \in Msgs, NEW x \in Traffic, Gate(m, x) PROVE AuthTypeInv'
    <2>1. x \in Message /\ x # None
      BY AuthAssumption
    <2>2. [answer |-> "refused", to |-> "unchanged"] \in Result
      BY DEF Result
    <2>3. QED
      BY <1>1, <2>1, <2>2 DEF Gate, GoTo, Answer, AuthTypeInv, AuthTypeOK
  <1>2. ASSUME NEW m \in Msgs, ReadHolder(m) PROVE AuthTypeInv'
    <2>1. holder \in Holder /\ holder # None
      BY AuthAssumption DEF AuthTypeInv, AuthTypeOK
    <2>2. CASE msg[m].kind = "call" /\ Return(m)
      BY <1>2, <2>1, <2>2 DEF ReadHolder, Return, GoTo, AuthTypeInv, AuthTypeOK
    <2>3. CASE msg[m].kind # "call" /\ GoTo(m, "verifying") /\ UNCHANGED auditQueue
      BY <1>2, <2>1, <2>3 DEF ReadHolder, GoTo, AuthTypeInv, AuthTypeOK
    <2>4. QED
      BY <1>2, <2>2, <2>3 DEF ReadHolder
  <1>3. ASSUME NEW m \in Msgs, Raise(m) PROVE AuthTypeInv'
    <2>1. [answer |-> "error", to |-> "unchanged"] \in Result
      BY DEF Result
    <2>2. QED
      BY <1>3, <2>1 DEF Raise, Return, GoTo, Answer, AuthTypeInv, AuthTypeOK
  <1>4. ASSUME NEW m \in Msgs, OnSetup(m) \/ OnContinue(m) PROVE AuthTypeInv'
    <2>1. conversations' \subseteq Msgs
      BY <1>4, SetupOutcome, ContinueOutcome DEF AuthTypeInv, AuthTypeOK
    <2>2. QED
      BY <1>4, <2>1, SetupOutcome, ContinueOutcome, OutcomeType
  <1>5. ASSUME NEW m \in Msgs, Store(m) PROVE AuthTypeInv'
    <2>1. result[m].to \in {"NONE", "INIT", "ESTABLISHED"}
      BY <1>5 DEF Store, AuthTypeInv, AuthTypeOK, Result
    <2>2. QED
      BY <1>5, <2>1 DEF Store, Return, GoTo, AuthTypeInv, AuthTypeOK
  <1>6. CASE Audit
    <2>1. Head(auditQueue) \in Msgs /\ Tail(auditQueue) \in Seq(Msgs)
      BY <1>6 DEF Audit, AuthTypeInv, AuthTypeOK
    <2>2. Attributed(holder) \in Users \cup {"PEER", "UNKNOWN"}
      BY DEF Attributed, AuthTypeInv, AuthTypeOK
    <2>3. QED
      BY <1>6, <2>1, <2>2 DEF Audit, AuthTypeInv, AuthTypeOK
  <1>7. CASE UNCHANGED vars
    BY <1>7 DEF vars, AuthTypeInv, AuthTypeOK
  <1>8. QED
    BY <1>1, <1>2, <1>3, <1>4, <1>5, <1>6, <1>7 DEF AuthNext

\* Every variable of the log-in keeps its type, also when the client pipelines: a handler
\* that runs has read the session, and what the session holds names a user and an exchange.
THEOREM AuthTypeCorrect == AuthSpec => []AuthTypeOK
  <1>1. AuthTypeInv => AuthTypeOK
    BY DEF AuthTypeInv
  <1>2. QED
    BY <1>1, AuthTypeInit, AuthTypeStep, PTL DEF AuthSpec

-----------------------------------------------------------------------------
(* One message at work at a time.                                          *)

LEMMA AuthInvInit == AuthInit => AuthInv
  <1>1. ASSUME AuthInit PROVE OneAtWork /\ EstablishedHeld /\ Recorded
    BY <1>1 DEF AuthInit, OneAtWork, EstablishedHeld, Recorded, AtWork, Ran
  <1>2. ASSUME AuthInit PROVE HolderSound /\ ProofEndsConversation
    BY <1>2 DEF AuthInit, HolderSound, ProofEndsConversation, Peer
  <1>3. ASSUME AuthInit PROVE RejectedOver
    BY <1>3, AuthAssumption DEF AuthInit, RejectedOver, Rejected, Peer
  <1>4. QED
    BY <1>1, <1>2, <1>3, AuthTypeInit DEF AuthInv

LEMMA OneAtWorkStep ==
    ASSUME ~Pipelined, AuthTypeInv, OneAtWork, AuthNext
    PROVE  OneAtWork'
  <1> USE DEF AuthTypeInv, AuthTypeOK, OneAtWork, AtWork
  <1>1. ASSUME NEW m \in Msgs, NEW x \in Traffic, Gate(m, x) PROVE OneAtWork'
    <2>1. \A n \in Msgs : pc[n] \in {"idle", "done"}
      BY <1>1 DEF Gate
    <2>2. CASE lifecycle = Due(x.kind) /\ GoTo(m, "handling")
      BY <1>1, <2>1, <2>2 DEF Gate, GoTo
    <2>3. CASE GoTo(m, "done")
      BY <1>1, <2>1, <2>3 DEF Gate, GoTo
    <2>4. QED
      BY <1>1, <2>2, <2>3 DEF Gate
  <1>2. ASSUME NEW m \in Msgs, ReadHolder(m) PROVE OneAtWork'
    <2>1. CASE msg[m].kind = "call" /\ GoTo(m, "done")
      BY <1>2, <2>1 DEF ReadHolder, GoTo
    <2>2. CASE msg[m].kind # "call" /\ GoTo(m, "verifying")
      BY <1>2, <2>2 DEF ReadHolder, GoTo
    <2>3. QED
      BY <1>2, <2>1, <2>2 DEF ReadHolder, Return
  <1>3. ASSUME NEW m \in Msgs, Raise(m) PROVE OneAtWork'
    BY <1>3 DEF Raise, Return, GoTo
  <1>4. ASSUME NEW m \in Msgs, OnSetup(m) \/ OnContinue(m) PROVE OneAtWork'
    <2>1. Outcome(m)
      BY <1>4, SetupOutcome, ContinueOutcome
    <2>2. GoTo(m, "storing")
      BY <2>1 DEF Outcome, Refuse, GoOn, Establish, Conclude
    <2>3. QED
      BY <2>1, <2>2 DEF Outcome, GoTo
  <1>5. ASSUME NEW m \in Msgs, Store(m) PROVE OneAtWork'
    BY <1>5 DEF Store, Return, GoTo
  <1>6. CASE Audit
    BY <1>6 DEF Audit
  <1>7. QED
    BY <1>1, <1>2, <1>3, <1>4, <1>5, <1>6 DEF AuthNext

-----------------------------------------------------------------------------
(* What the session holds.                                                 *)

LEMMA SoundFrame ==
    ASSUME AuthTypeInv, HolderSound, UNCHANGED holder,
           \A n \in Msgs : pc[n] # "idle" => pc'[n] # "idle" /\ msg'[n] = msg[n]
    PROVE  HolderSound'
  BY DEF AuthTypeInv, AuthTypeOK, HolderSound, Rightful

LEMMA SoundHeld ==
    ASSUME AuthTypeInv, NEW m \in Msgs, Exchange(m) \in Msgs,
           pc[m] = "verifying", pc[Exchange(m)] # "idle",
           NEW kind, NEW user, NEW factors, Rightful(Held(m, kind, user, factors)),
           holder' = Held(m, kind, user, factors), GoTo(m, "storing"), UNCHANGED msg
    PROVE  HolderSound'
  <1>1. Held(m, kind, user, factors).exchange = Exchange(m)
    BY DEF Held
  <1>2. pc'[Exchange(m)] # "idle"
    BY DEF GoTo, AuthTypeInv, AuthTypeOK
  <1>3. QED
    BY <1>1, <1>2 DEF HolderSound, Rightful

LEMMA SoundFirstFactor ==
    ASSUME AuthTypeInv, NEW m \in Msgs, Exchange(m) \in Msgs,
           pc[m] = "verifying", pc[Exchange(m)] # "idle", msg[Exchange(m)].kind = "setup",
           NEW user, msg[Exchange(m)].user = user, ProvenBy(m) = {},
           NEW factor \in {"scram", "cert"}, FirstFactor(m, user, factor), UNCHANGED msg
    PROVE  HolderSound'
  <1>1. CASE NeedsOtp(user)
    <2>1. Rightful(Held(m, "otp", user, {factor}))
      BY <1>1 DEF Rightful, Held, NeedsOtp
    <2>2. QED
      BY <1>1, <2>1, SoundHeld DEF FirstFactor, GoOn, Conclude
  <1>2. CASE ~NeedsOtp(user)
    <2>1. Rightful(Held(m, "identity", user, {factor}))
      BY <1>2 DEF Rightful, Held, NeedsOtp, Pending
    <2>2. QED
      BY <1>2, <2>1, SoundHeld DEF FirstFactor, Establish, Conclude
  <1>3. QED
    BY <1>1, <1>2

LEMMA SoundRefuse ==
    ASSUME AuthTypeInv, HolderSound, NEW m \in Msgs, UNCHANGED <<msg, holder>>, GoTo(m, "storing")
    PROVE  HolderSound'
  BY SoundFrame DEF GoTo, AuthTypeInv, AuthTypeOK

LEMMA SoundSetup ==
    ASSUME AuthTypeInv, HolderSound, NEW m \in Msgs, OnSetup(m)
    PROVE  HolderSound'
  <1>1. pc[m] = "verifying" /\ msg[m].kind = "setup" /\ UNCHANGED msg
    BY DEF OnSetup
  <1>2. Exchange(m) = m /\ ProvenBy(m) = {}
    BY <1>1 DEF Exchange, ProvenBy
  <1>3. CASE Refuse(m)
    BY <1>1, <1>3, SoundRefuse DEF Refuse, Conclude
  <1>4. ASSUME NEW kind \in {"scram", "gssapi"}, GoOn(m, kind, msg[m].user, {}) PROVE HolderSound'
    <2>1. Rightful(Held(m, kind, msg[m].user, {}))
      BY <1>1, <1>2 DEF Rightful, Held
    <2>2. QED
      BY <1>1, <1>2, <1>4, <2>1, SoundHeld DEF GoOn, Conclude
  <1>5. CASE Establish(m, msg[m].user, {"gssapi"})
    <2>1. Rightful(Held(m, "identity", msg[m].user, {"gssapi"}))
      BY <1>1, <1>2 DEF Rightful, Held, Pending
    <2>2. QED
      BY <1>1, <1>2, <1>5, <2>1, SoundHeld DEF Establish, Conclude
  <1>6. CASE SetupPeercred(m)
    <2>1. PICK u \in Trusted : Establish(m, u, {"peercred"})
      BY <1>6 DEF SetupPeercred
    <2>2. Rightful(Held(m, "identity", u, {"peercred"}))
      BY <1>1, <1>2 DEF Rightful, Held, Pending
    <2>3. QED
      BY <1>1, <1>2, <2>1, <2>2, SoundHeld DEF Establish, Conclude
  <1>7. CASE FirstFactor(m, msg[m].user, "cert")
    BY <1>1, <1>2, <1>7, SoundFirstFactor
  <1>8. QED
    BY <1>3, <1>4, <1>5, <1>6, <1>7 DEF OnSetup, SetupScram, SetupCert, SetupGssapi

LEMMA SoundContinue ==
    ASSUME AuthTypeInv, OneAtWork, HolderSound, NEW m \in Msgs, OnContinue(m)
    PROVE  HolderSound'
  <1>1. pc[m] = "verifying" /\ msg[m].kind = "continue" /\ UNCHANGED msg
    BY DEF OnContinue
  <1>2. seen[m] = holder /\ Exchange(m) = holder.exchange /\ ProvenBy(m) = holder.proven
    BY <1>1 DEF OneAtWork, Exchange, ProvenBy
  <1>3. CASE GoTo(m, "storing") /\ UNCHANGED holder
    BY <1>1, <1>3, SoundRefuse
  <1>4. ASSUME holder.kind # "peer"
        PROVE  /\ holder.exchange \in Msgs /\ pc[holder.exchange] # "idle"
               /\ Rightful(holder)
    BY <1>4 DEF HolderSound, AuthTypeInv, AuthTypeOK
  <1>5. CASE Judged(m) /\ FinalAccepted(m)
    <2>1. holder.kind = "scram" /\ FirstFactor(m, holder.user, "scram")
      BY <1>2, <1>5 DEF Judged, FinalAccepted
    <2>2. ProvenBy(m) = {} /\ msg[holder.exchange].user = holder.user
      BY <1>2, <1>4, <2>1 DEF Rightful, Pending
    <2>3. QED
      BY <1>1, <1>2, <1>4, <2>1, <2>2, SoundFirstFactor DEF Rightful
  <1>6. CASE holder.kind = "gssapi" /\ GoOn(m, "gssapi", holder.user, {})
    <2>1. Rightful(Held(m, "gssapi", holder.user, {}))
      BY <1>2, <1>4, <1>6 DEF Rightful, Held, Pending
    <2>2. QED
      BY <1>1, <1>2, <1>4, <1>6, <2>1, SoundHeld DEF GoOn, Conclude
  <1>7. CASE holder.kind = "gssapi" /\ Establish(m, holder.user, {"gssapi"})
    <2>1. Rightful(Held(m, "identity", holder.user, {"gssapi"}))
      BY <1>2, <1>4, <1>7 DEF Rightful, Held, Pending
    <2>2. QED
      BY <1>1, <1>2, <1>4, <1>7, <2>1, SoundHeld DEF Establish, Conclude
  <1>8. CASE holder.kind = "otp" /\ Establish(m, holder.user, {"otp"})
    <2>1. Rightful(Held(m, "identity", holder.user, {"otp"}))
      BY <1>2, <1>4, <1>8 DEF Rightful, Held, Pending
    <2>2. QED
      BY <1>1, <1>2, <1>4, <1>8, <2>1, SoundHeld DEF Establish, Conclude
  <1>9. CASE holder.kind = "otp" /\ GoOn(m, "otp", holder.user, {})
    <2>1. Rightful(Held(m, "otp", holder.user, {}))
      BY <1>2, <1>4, <1>9 DEF Rightful, Held, Pending
    <2>2. QED
      BY <1>1, <1>2, <1>4, <1>9, <2>1, SoundHeld DEF GoOn, Conclude
  <1>10. CASE ContinueScram(m)
    BY <1>3, <1>5, <1>10 DEF ContinueScram, ScramFinish, Refuse, Conclude
  <1>11. CASE ContinueGssapi(m)
    BY <1>2, <1>3, <1>6, <1>7, <1>11 DEF ContinueGssapi, Refuse, Conclude
  <1>12. CASE ContinueOtp(m)
    BY <1>2, <1>3, <1>8, <1>9, <1>12 DEF ContinueOtp, Refuse, Conclude
  <1>13. QED
    BY <1>10, <1>11, <1>12 DEF OnContinue

LEMMA SoundStep ==
    ASSUME AuthTypeInv, OneAtWork, HolderSound, AuthNext
    PROVE  HolderSound'
  <1> USE DEF AuthTypeInv, AuthTypeOK, GoTo
  <1>1. ASSUME NEW m \in Msgs, NEW x \in Traffic, Gate(m, x) PROVE HolderSound'
    BY <1>1, SoundFrame DEF Gate
  <1>2. ASSUME NEW m \in Msgs, ReadHolder(m) \/ Raise(m) \/ Store(m) PROVE HolderSound'
    BY <1>2, SoundFrame DEF ReadHolder, Raise, Store, Return
  <1>3. CASE Audit
    BY <1>3, SoundFrame DEF Audit
  <1>4. QED
    BY <1>1, <1>2, <1>3, SoundSetup, SoundContinue DEF AuthNext

-----------------------------------------------------------------------------
(* An established session, and its records.                                *)

LEMMA DueValues ==
    /\ Due("call") = "ESTABLISHED" /\ Due("continue") = "INIT"
    /\ \A x \in Message : x.kind # "call" => Due(x.kind) \in {"NONE", "INIT"}
  BY DEF Due, Message

\* A handler that may write the session finds it unestablished, and no call has run.
LEMMA WriterFirst ==
    ASSUME AuthTypeInv, OneAtWork, EstablishedHeld, NEW m \in Msgs,
           pc[m] \in {"verifying", "storing"}
    PROVE  lifecycle # "ESTABLISHED" /\ \A n \in Msgs : ~Ran(n)
  <1>1. msg[m] \in Message /\ msg[m].kind # "call" /\ lifecycle = Due(msg[m].kind)
    BY MessageType DEF OneAtWork, AtWork
  <1>2. lifecycle # "ESTABLISHED"
    BY <1>1, DueValues
  <1>3. QED
    BY <1>2 DEF EstablishedHeld

LEMMA EstablishedStep ==
    ASSUME ~Pipelined, AuthTypeInv, OneAtWork, EstablishedHeld, AuthNext
    PROVE  EstablishedHeld'
  <1> USE DEF AuthTypeInv, AuthTypeOK, EstablishedHeld, Ran
  <1>1. ASSUME NEW m \in Msgs, NEW x \in Traffic, Gate(m, x) PROVE EstablishedHeld'
    <2>1. pc[m] = "idle" /\ seen[m] = None /\ UNCHANGED <<seen, holder, lifecycle>>
      BY <1>1 DEF Gate, OneAtWork
    <2>2. \A n \in Msgs : pc'[n] = "storing" => pc[n] = "storing" /\ result'[n] = result[n]
      BY <1>1 DEF Gate, GoTo, Answer
    <2>3. \A n \in Msgs \ {m} : msg'[n] = msg[n]
      BY <1>1 DEF Gate
    <2>4. QED
      BY <2>1, <2>2, <2>3
  <1>2. ASSUME NEW m \in Msgs, ReadHolder(m) PROVE EstablishedHeld'
    <2>1. msg[m].kind = "call" => lifecycle = "ESTABLISHED"
      BY <1>2, DueValues DEF ReadHolder, OneAtWork, AtWork
    <2>2. \A n \in Msgs : pc'[n] = "storing" => pc[n] = "storing"
      BY <1>2 DEF ReadHolder, Return, GoTo
    <2>3. /\ seen' = [seen EXCEPT ![m] = holder]
          /\ UNCHANGED <<msg, lifecycle, holder, result>>
      BY <1>2 DEF ReadHolder
    <2>4. QED
      BY <2>1, <2>2, <2>3
  <1>3. ASSUME NEW m \in Msgs, Raise(m) PROVE EstablishedHeld'
    BY <1>3 DEF Raise, Return, GoTo, Answer
  <1>4. ASSUME NEW m \in Msgs, OnSetup(m) \/ OnContinue(m) PROVE EstablishedHeld'
    <2>1. Outcome(m)
      BY <1>4, SetupOutcome, ContinueOutcome
    <2>2. lifecycle # "ESTABLISHED" /\ \A n \in Msgs : ~Ran(n)
      BY <2>1, WriterFirst DEF Outcome
    <2>3. \A n \in Msgs \ {m} : pc[n] # "storing" /\ pc'[n] = pc[n]
      BY <2>1 DEF Outcome, OneAtWork, AtWork, Refuse, GoOn, Establish, Conclude, GoTo
    <2>4. result'[m].to = "ESTABLISHED" => holder'.kind = "identity"
      BY <2>1 DEF Outcome, Refuse, AfterReject, GoOn, Establish, Conclude, Answer, Held
    <2>5. QED
      BY <2>1, <2>2, <2>3, <2>4 DEF Outcome
  <1>5. ASSUME NEW m \in Msgs, Store(m) PROVE EstablishedHeld'
    <2>1. \A n \in Msgs : ~Ran(n)
      BY <1>5, WriterFirst DEF Store
    <2>2. QED
      BY <1>5, <2>1 DEF Store, Return, GoTo
  <1>6. CASE Audit
    BY <1>6 DEF Audit
  <1>7. QED
    BY <1>1, <1>2, <1>3, <1>4, <1>5, <1>6 DEF AuthNext

\* A message that returns joins the queue; nothing else changes what has returned.
LEMMA RecordedReturn ==
    ASSUME AuthTypeInv, Recorded, NEW m \in Msgs, pc[m] # "done", Return(m),
           UNCHANGED <<msg, record>>,
           \A n \in Msgs \ {m} : seen'[n] = seen[n]
    PROVE  Recorded'
  <1>1. pc' = [pc EXCEPT ![m] = "done"] /\ auditQueue' = Append(auditQueue, m)
    BY DEF Return, GoTo
  <1>2. \A i \in 1 .. Len(auditQueue') : pc'[auditQueue'[i]] = "done"
    BY <1>1 DEF AuthTypeInv, AuthTypeOK, Recorded
  <1>3. \A n \in Msgs : record'[n] # None => n # m /\ pc'[n] = "done"
    BY <1>1 DEF AuthTypeInv, AuthTypeOK, Recorded
  <1>4. QED
    BY <1>2, <1>3 DEF Recorded, Ran

LEMMA RecordedStep ==
    ASSUME ~Pipelined, AuthTypeInv, OneAtWork, EstablishedHeld, Recorded, AuthNext
    PROVE  Recorded'
  <1> USE DEF AuthTypeInv, AuthTypeOK
  <1>1. ASSUME NEW m \in Msgs, NEW x \in Traffic, Gate(m, x) PROVE Recorded'
    <2>1. pc[m] = "idle" /\ UNCHANGED <<auditQueue, record, seen>>
      BY <1>1 DEF Gate
    <2>2. \A n \in Msgs \ {m} : pc'[n] = pc[n] /\ msg'[n] = msg[n]
      BY <1>1 DEF Gate, GoTo
    <2>3. record[m] = None /\ \A i \in 1 .. Len(auditQueue) : auditQueue[i] # m
      BY <2>1 DEF Recorded
    <2>4. QED
      BY <2>1, <2>2, <2>3 DEF Recorded, Ran
  <1>2. ASSUME NEW m \in Msgs, ReadHolder(m) PROVE Recorded'
    <2>1. CASE Return(m)
      BY <1>2, <2>1, RecordedReturn DEF ReadHolder
    <2>2. CASE GoTo(m, "verifying") /\ UNCHANGED auditQueue
      BY <1>2, <2>2 DEF ReadHolder, GoTo, Recorded, Ran
    <2>3. QED
      BY <1>2, <2>1, <2>2 DEF ReadHolder
  <1>3. ASSUME NEW m \in Msgs, Raise(m) \/ Store(m) PROVE Recorded'
    BY <1>3, RecordedReturn DEF Raise, Store
  <1>4. ASSUME NEW m \in Msgs, OnSetup(m) \/ OnContinue(m) PROVE Recorded'
    <2>1. Outcome(m)
      BY <1>4, SetupOutcome, ContinueOutcome
    <2>2. GoTo(m, "storing")
      BY <2>1 DEF Outcome, Refuse, GoOn, Establish, Conclude
    <2>3. QED
      BY <2>1, <2>2 DEF Outcome, GoTo, Recorded, Ran
  <1>5. CASE Audit
    <2> DEFINE oldest == Head(auditQueue)
    <2>1. oldest \in Msgs /\ pc[oldest] = "done"
      BY <1>5 DEF Audit, Recorded
    <2>2. Ran(oldest) =>
             Attributed(holder) =
                IF seen[oldest].user \in Named THEN seen[oldest].user ELSE "UNKNOWN"
      BY <2>1 DEF EstablishedHeld, Attributed
    <2>3. \A i \in 1 .. Len(auditQueue') : pc'[auditQueue'[i]] = "done"
      BY <1>5 DEF Audit, Recorded
    <2>4. QED
      BY <1>5, <2>1, <2>2, <2>3 DEF Audit, Recorded, Ran
  <1>6. QED
    BY <1>1, <1>2, <1>3, <1>4, <1>5 DEF AuthNext

-----------------------------------------------------------------------------
(* A rejected exchange.                                                    *)

\* Nothing of this changes where the pending exchange, and the rejected, stay.
LEMMA RejectedFrame ==
    ASSUME AuthTypeInv, RejectedOver, holder' = holder,
           \A n \in Msgs : Rejected(n)' =>
               /\ Rejected(n) /\ pc'[n] \in {"storing", "done"}
               /\ seen'[n] = seen[n] /\ msg'[n] = msg[n],
           Going' => Going,
           \A n \in Msgs : pc'[n] \in {"idle", "handling", "verifying"}
               => pc[n] \in {"idle", "handling", "verifying"},
           \A n \in Msgs : seen'[n] \in {seen[n], holder}
    PROVE  RejectedOver'
  BY DEF RejectedOver, Exchange

\* A handler that goes on with the pending exchange, or with its own.
LEMMA RejectedOutcome ==
    ASSUME AuthTypeInv, OneAtWork, RejectedOver, NEW m \in Msgs, Outcome(m)
    PROVE  RejectedOver'
  <1> USE DEF AuthTypeInv, AuthTypeOK
  <1>1. /\ pc[m] = "verifying" /\ seen[m] = holder /\ lifecycle = Due(msg[m].kind)
        /\ UNCHANGED <<msg, seen, lifecycle>> /\ msg[m].kind \in {"setup", "continue"}
    BY MessageType DEF Outcome, OneAtWork, AtWork, Message
  <1>2. GoTo(m, "storing") /\ \A n \in Msgs \ {m} : result'[n] = result[n]
    BY DEF Outcome, Refuse, GoOn, Establish, Conclude, Answer
  <1>3. \A n \in Msgs : pc[n] # "storing" /\ (pc'[n] = "storing" => n = m)
    BY <1>1, <1>2 DEF OneAtWork, AtWork, GoTo
  <1>4. \/ /\ result'[m].to # "INIT" /\ holder'.exchange \in {holder.exchange, Exchange(m)}
        \/ /\ result'[m].to = "INIT" /\ result'[m].answer = "again"
           /\ holder'.exchange = Exchange(m)
    <2>1. CASE Refuse(m)
      BY <2>1 DEF Refuse, AfterReject, Conclude, Answer
    <2>2. CASE msg[m].kind = "continue" /\ Conclude(m, "again", "INIT") /\ UNCHANGED holder
      BY <1>1, <2>2 DEF Conclude, Answer, Exchange
    <2>3. ASSUME NEW kind, NEW user, NEW factors, GoOn(m, kind, user, factors)
          PROVE  /\ result'[m].to = "INIT" /\ result'[m].answer = "again"
                 /\ holder'.exchange = Exchange(m)
      BY <2>3 DEF GoOn, Conclude, Answer, Held
    <2>4. ASSUME NEW user, NEW factors, Establish(m, user, factors)
          PROVE  result'[m].to # "INIT" /\ holder'.exchange = Exchange(m)
      BY <2>4 DEF Establish, Conclude, Answer, Held
    <2>5. QED
      BY <2>1, <2>2, <2>3, <2>4 DEF Outcome
  <1>5. Exchange(m) \in {m, holder.exchange}
    BY <1>1 DEF Exchange
  <1>6. pc'[m] = "storing" /\ seen[m] # None /\ (Going' => result'[m].to = "INIT")
    <2>1. pc'[m] = "storing" /\ seen[m] # None
      BY <1>1, <1>2 DEF GoTo
    <2>2. QED
      BY <1>3, <2>1 DEF Going
  <1>7. ASSUME NEW n \in Msgs, Rejected(n)'
        PROVE  /\ pc'[n] \in {"storing", "done"} /\ seen'[n] # None
               /\ Going' => Exchange(n)' # holder'.exchange
    <2>1. CASE n = m
      <3>1. ~Going'
        BY <1>4, <1>7, <1>6, <2>1 DEF Rejected
      <3>2. QED
        BY <1>1, <1>6, <2>1, <3>1
    <2>2. CASE n # m
      <3>1. Rejected(n) /\ pc'[n] = pc[n] /\ Exchange(n)' = Exchange(n)
        BY <1>1, <1>2, <1>7, <2>2 DEF Rejected, GoTo, Exchange
      <3>2. CASE msg[m].kind = "setup"
        <4>1. Exchange(m) = m /\ Exchange(n) # m
          BY <1>1, <2>2, <3>1, <3>2 DEF Exchange, RejectedOver
        <4>2. Going' => holder'.exchange = m
          BY <1>4, <1>6, <4>1
        <4>3. QED
          BY <1>1, <3>1, <4>1, <4>2 DEF RejectedOver
      <3>3. CASE msg[m].kind = "continue"
        <4>1. Going /\ Exchange(m) = holder.exchange
          BY <1>1, <1>3, <3>3, DueValues DEF Going, Exchange
        <4>2. Exchange(n) # holder.exchange
          BY <3>1, <4>1 DEF RejectedOver
        <4>3. QED
          BY <1>1, <1>4, <3>1, <4>1, <4>2 DEF RejectedOver
      <3>4. QED
        BY <1>1, <3>2, <3>3
    <2>3. QED
      BY <2>1, <2>2
  <1>8. ASSUME NEW n \in Msgs, pc'[n] \in {"idle", "handling", "verifying"}
        PROVE  /\ holder'.exchange # n
               /\ \A k \in Msgs : seen'[k] # None => seen'[k].exchange # n
    BY <1>1, <1>2, <1>4, <1>5, <1>8 DEF RejectedOver, GoTo
  <1>9. QED
    BY <1>7, <1>8 DEF RejectedOver

LEMMA RejectedStep ==
    ASSUME ~Pipelined, AuthTypeInv, OneAtWork, RejectedOver, AuthNext
    PROVE  RejectedOver'
  <1> USE DEF AuthTypeInv, AuthTypeOK
  <1>1. ASSUME NEW m \in Msgs, NEW x \in Traffic, Gate(m, x) PROVE RejectedOver'
    <2>1. pc[m] = "idle" /\ UNCHANGED <<holder, seen, lifecycle>> /\ ~Rejected(m)
      BY <1>1 DEF Gate, RejectedOver
    <2>2. \A n \in Msgs \ {m} : pc'[n] = pc[n] /\ msg'[n] = msg[n] /\ result'[n] = result[n]
      BY <1>1 DEF Gate, GoTo, Answer
    <2>3. pc'[m] \in {"handling", "done"} /\ ~Rejected(m)'
      BY <1>1, <2>1 DEF Gate, GoTo, Answer, Rejected
    <2>4. Going' => Going
      BY <2>1, <2>2, <2>3 DEF Going
    <2>5. QED
      BY <2>1, <2>2, <2>3, <2>4, RejectedFrame DEF Rejected, RejectedOver
  <1>2. ASSUME NEW m \in Msgs, ReadHolder(m) PROVE RejectedOver'
    <2>1. /\ pc[m] = "handling" /\ UNCHANGED <<holder, lifecycle, result, msg>> /\ ~Rejected(m)
          /\ seen' = [seen EXCEPT ![m] = holder]
      BY <1>2 DEF ReadHolder, RejectedOver
    <2>2. pc'[m] \in {"verifying", "done"} /\ \A n \in Msgs \ {m} : pc'[n] = pc[n]
      BY <1>2 DEF ReadHolder, Return, GoTo
    <2>3. Going' => Going
      BY <2>1, <2>2 DEF Going
    <2>4. QED
      BY <2>1, <2>2, <2>3, RejectedFrame DEF Rejected, RejectedOver
  <1>3. ASSUME NEW m \in Msgs, Raise(m) PROVE RejectedOver'
    <2>1. pc[m] = "verifying" /\ UNCHANGED <<holder, lifecycle, seen, msg>> /\ ~Rejected(m)'
      BY <1>3 DEF Raise, Answer, Rejected
    <2>2. /\ pc'[m] = "done"
          /\ \A n \in Msgs \ {m} : pc'[n] = pc[n] /\ result'[n] = result[n]
      BY <1>3 DEF Raise, Return, GoTo, Answer
    <2>3. Going' => Going
      BY <2>1, <2>2 DEF Going
    <2>4. QED
      BY <2>1, <2>2, <2>3, RejectedFrame DEF Rejected, RejectedOver
  <1>4. ASSUME NEW m \in Msgs, OnSetup(m) \/ OnContinue(m) PROVE RejectedOver'
    BY <1>4, SetupOutcome, ContinueOutcome, RejectedOutcome
  <1>5. ASSUME NEW m \in Msgs, Store(m) PROVE RejectedOver'
    <2>1. /\ pc[m] = "storing" /\ UNCHANGED <<holder, seen, msg, result>>
          /\ lifecycle' = result[m].to
      BY <1>5 DEF Store
    <2>2. pc'[m] = "done" /\ \A n \in Msgs \ {m} : pc'[n] = pc[n] /\ pc[n] # "storing"
      BY <1>5 DEF Store, Return, GoTo, OneAtWork, AtWork
    <2>3. Going' => Going
      BY <2>1, <2>2 DEF Going
    <2>4. QED
      BY <2>1, <2>2, <2>3, RejectedFrame DEF Rejected, RejectedOver
  <1>6. CASE Audit
    BY <1>6, RejectedFrame DEF Audit, Rejected, RejectedOver, Going
  <1>7. QED
    BY <1>1, <1>2, <1>3, <1>4, <1>5, <1>6 DEF AuthNext

-----------------------------------------------------------------------------
(* PAM conversations.                                                      *)

LEMMA ConversationSetup ==
    ASSUME ProofEndsConversation, NEW m \in Msgs, OnSetup(m)
    PROVE  ProofEndsConversation'
  <1>1. ProvenBy(m) = {}
    BY DEF OnSetup, ProvenBy
  <1>2. CASE SetupScram(m)
    BY <1>1, <1>2 DEF SetupScram, GoOn, Held, Refuse, ProofEndsConversation
  <1>3. CASE UNCHANGED conversations /\ Refuse(m)
    BY <1>3 DEF Refuse, ProofEndsConversation
  <1>4. CASE SetupPeercred(m)
    BY <1>1, <1>4 DEF SetupPeercred, Establish, Held, ProofEndsConversation
  <1>5. ASSUME NEW user, FirstFactor(m, user, "cert") PROVE ProofEndsConversation'
    BY <1>1, <1>5 DEF FirstFactor, GoOn, Establish, Held, ProofEndsConversation
  <1>6. CASE UNCHANGED conversations /\ SetupGssapi(m)
    BY <1>1, <1>3, <1>6 DEF SetupGssapi, GoOn, Establish, Held, ProofEndsConversation
  <1>7. QED
    BY <1>2, <1>3, <1>4, <1>5, <1>6 DEF OnSetup, SetupCert

LEMMA ConversationContinue ==
    ASSUME AuthTypeInv, OneAtWork, HolderSound, ProofEndsConversation,
           NEW m \in Msgs, OnContinue(m)
    PROVE  ProofEndsConversation'
  <1>1. Exchange(m) = holder.exchange /\ ProvenBy(m) = holder.proven /\ seen[m] = holder
    BY DEF OnContinue, OneAtWork, Exchange, ProvenBy
  <1>2. CASE UNCHANGED <<holder, conversations>>
    BY <1>2 DEF ProofEndsConversation
  <1>3. CASE conversations' = conversations \ {holder.exchange} /\ (FinalAccepted(m) \/ Refuse(m))
    <2>1. holder'.exchange = holder.exchange
      BY <1>1, <1>3 DEF FinalAccepted, FirstFactor, GoOn, Establish, Held, Refuse
    <2>2. QED
      BY <1>3, <2>1 DEF ProofEndsConversation
  <1>4. CASE ContinueGssapi(m) /\ UNCHANGED conversations
    <2>1. CASE Refuse(m)
      BY <1>2, <1>4, <2>1 DEF Refuse
    <2>2. CASE ~Refuse(m)
      <3>1. holder.kind = "gssapi"
        BY <1>1, <1>4, <2>2 DEF ContinueGssapi
      <3>2. holder.proven = {}
        BY <3>1 DEF HolderSound, Rightful
      <3>3. QED
        BY <1>1, <1>4, <2>2, <3>2
        DEF ContinueGssapi, GoOn, Establish, Held, ProofEndsConversation
    <2>3. QED
      BY <2>1, <2>2
  <1>5. CASE ContinueOtp(m) /\ UNCHANGED conversations
    BY <1>1, <1>5 DEF ContinueOtp, Conclude, Refuse, GoOn, Establish, Held, ProofEndsConversation
  <1>6. QED
    BY <1>1, <1>2, <1>3, <1>4, <1>5 DEF OnContinue, ContinueScram, ScramFinish, Refuse

LEMMA ConversationStep ==
    ASSUME AuthTypeInv, OneAtWork, HolderSound, ProofEndsConversation, AuthNext
    PROVE  ProofEndsConversation'
  <1>1. ASSUME holder' = holder, conversations' \subseteq conversations
        PROVE  ProofEndsConversation'
    BY <1>1 DEF ProofEndsConversation
  <1>2. QED
    BY <1>1, ConversationSetup, ConversationContinue
    DEF AuthNext, Gate, ReadHolder, Raise, Store, Audit

-----------------------------------------------------------------------------
(* The theorems.                                                           *)

LEMMA AuthInvStep ==
    ASSUME ~Pipelined, AuthInv, [AuthNext]_vars
    PROVE  AuthInv'
  <1>1. CASE AuthNext
    BY <1>1, AuthTypeStep, OneAtWorkStep, SoundStep, EstablishedStep, RecordedStep,
       RejectedStep, ConversationStep DEF AuthInv
  <1>2. CASE UNCHANGED vars
    BY <1>2 DEF vars, AuthInv, AuthTypeInv, AuthTypeOK, OneAtWork, HolderSound, Rightful,
       EstablishedHeld, Ran, Recorded, RejectedOver, Rejected, Going, Exchange,
       ProofEndsConversation
  <1>3. QED
    BY <1>1, <1>2

LEMMA AuthInvariant ==
    ASSUME ~Pipelined
    PROVE  AuthSpec => []AuthInv
  <1>1. AuthInit => AuthInv
    BY AuthInvInit
  <1>2. AuthInv /\ [AuthNext]_vars => AuthInv'
    BY AuthInvStep
  <1>3. QED
    BY <1>1, <1>2, PTL DEF AuthSpec

\* A method runs as somebody the one exchange that established its session was about,
\* with the second factor passed in it if he needs one.
THEOREM CallerProven ==
    ASSUME ~Pipelined
    PROVE  AuthSpec => []CallsActAsProven
  <1>1. AuthInv => CallsActAsProven
    BY DEF AuthInv, EstablishedHeld, HolderSound, Rightful, CallsActAsProven
  <1>2. QED
    BY <1>1, AuthInvariant, PTL

\* The audit record of a call names the user the call ran as.
THEOREM CallerRecorded ==
    ASSUME ~Pipelined
    PROVE  AuthSpec => []AuditNamesCaller
  <1>1. AuthInv => AuditNamesCaller
    BY DEF AuthInv, Recorded, AuditNamesCaller
  <1>2. QED
    BY <1>1, AuthInvariant, PTL

\* A log-in past its SCRAM proof has no PAM conversation open.
THEOREM ConversationEnded ==
    ASSUME ~Pipelined
    PROVE  AuthSpec => []ProofEndsConversation
  <1>1. AuthInv => ProofEndsConversation
    BY DEF AuthInv
  <1>2. QED
    BY <1>1, AuthInvariant, PTL

\* No message makes a success of an exchange that was rejected.
THEOREM RejectedStaysDead ==
    ASSUME ~Pipelined
    PROVE  AuthSpec => RejectedExchangeDead
  <1> DEFINE Dead ==
        \A m \in Msgs :
            result'[m] # result[m] /\ result'[m].answer = "success"
            => \A n \in Msgs \ {m} :
                  result[n] # None /\ result[n].answer = "rejected" => Exchange(n) # Exchange(m)
  <1>1. ASSUME AuthInv, [AuthNext]_vars, NEW m \in Msgs, result'[m] # result[m],
               result'[m].answer = "success", NEW n \in Msgs \ {m}, Rejected(n)
        PROVE  Exchange(n) # Exchange(m)
    <2> USE DEF AuthInv, AuthTypeInv, AuthTypeOK
    <2>1. OnSetup(m) \/ OnContinue(m)
      <3>1. CASE \E k \in Msgs : (\E x \in Traffic : Gate(k, x)) \/ Raise(k)
        BY <1>1, <3>1 DEF Gate, Raise, Answer
      <3>2. CASE \E k \in Msgs \ {m} : OnSetup(k) \/ OnContinue(k)
        BY <1>1, <3>2, SetupOutcome, ContinueOutcome
        DEF Outcome, Refuse, GoOn, Establish, Conclude, Answer
      <3>3. result' # result
        BY <1>1
      <3>4. QED
        BY <1>1, <3>1, <3>2, <3>3 DEF AuthNext, vars, ReadHolder, Store, Audit
    <2>2. pc[m] = "verifying" /\ msg[m].kind \in {"setup", "continue"}
      BY <2>1 DEF OnSetup, OnContinue
    <2>3. CASE msg[m].kind = "setup"
      BY <1>1, <2>2, <2>3 DEF Exchange, RejectedOver
    <2>4. CASE msg[m].kind = "continue"
      <3>1. lifecycle = "INIT" /\ seen[m] = holder
        BY <1>1, <2>2, <2>4, DueValues DEF OneAtWork, AtWork
      <3>2. \A k \in Msgs : pc[k] # "storing"
        BY <1>1, <2>2 DEF OneAtWork, AtWork
      <3>3. QED
        BY <1>1, <2>4, <3>1, <3>2 DEF Exchange, RejectedOver, Going
    <2>5. QED
      BY <2>2, <2>3, <2>4
  <1>2. AuthInv /\ [AuthNext]_vars => Dead
    BY <1>1 DEF Rejected
  <1>3. QED
    BY <1>2, AuthInvariant, PTL DEF AuthSpec, RejectedExchangeDead

-----------------------------------------------------------------------------
(* Every step is one of Login, or none.                                    *)

PhaseOf(l) == IF l = "NONE" THEN "out" ELSE IF l = "INIT" THEN "pending" ELSE "in"

\* Where the session stands when no handler has decided, and when m's has.
LEMMA Resting ==
    /\ (\A n \in Msgs : pc[n] # "storing") => Phase = PhaseOf(lifecycle)
    /\ (\A n \in Msgs : pc'[n] # "storing") => Phase' = PhaseOf(lifecycle')
  BY DEF Phase, Stands, PhaseOf

LEMMA Decided ==
    ASSUME NEW m \in Msgs
    PROVE  /\ pc[m] = "storing" /\ (\A n \in Msgs : pc[n] = "storing" => n = m)
                => Phase = PhaseOf(result[m].to)
           /\ pc'[m] = "storing" /\ (\A n \in Msgs : pc'[n] = "storing" => n = m)
                => Phase' = PhaseOf(result'[m].to)
  BY DEF Phase, Stands, PhaseOf

LEMMA SilentLogin ==
    ASSUME Phase' = Phase, RanAs' = RanAs,
           Phase = "out" \/ (holder'.user = holder.user /\ holder'.proven = holder.proven)
    PROVE  UNCHANGED LoggedIn!vars
  BY DEF LoggedIn!vars

LEMMA RanSame ==
    ASSUME \A n \in Msgs : Ran(n)' = Ran(n) /\ (Ran(n) => seen'[n] = seen[n])
    PROVE  RanAs' = RanAs
  BY DEF RanAs

\* What a handler sees, and what its outcome does to where the session stands.
LEMMA Decides ==
    ASSUME AuthInv, NEW m \in Msgs, pc[m] = "verifying", NEW answer, NEW to,
           Conclude(m, answer, to), UNCHANGED <<msg, seen, lifecycle>>
    PROVE  /\ seen[m] = holder
           /\ msg[m].kind = "setup" => Phase = "out"
           /\ msg[m].kind = "continue" => Phase = "pending"
           /\ Phase' = PhaseOf(to) /\ RanAs' = RanAs
  <1> USE DEF AuthInv, AuthTypeInv, AuthTypeOK, OneAtWork, AtWork
  <1>1. seen[m] = holder /\ lifecycle = Due(msg[m].kind)
    OBVIOUS
  <1>2. \A n \in Msgs : pc[n] # "storing"
    OBVIOUS
  <1>3. pc'[m] = "storing" /\ result'[m].to = to /\ \A n \in Msgs : pc'[n] = "storing" => n = m
    BY <1>2 DEF Conclude, GoTo, Answer
  <1>4. Phase = PhaseOf(Due(msg[m].kind)) /\ Phase' = PhaseOf(to)
    BY <1>1, <1>2, <1>3, Resting, Decided
  <1>5. RanAs' = RanAs
    BY RanSame DEF Ran
  <1>6. QED
    BY <1>1, <1>4, <1>5 DEF PhaseOf, Due

LEMMA SetupLogin ==
    ASSUME AuthInv, NEW m \in Msgs, OnSetup(m)
    PROVE  [LoggedIn!Next]_(LoggedIn!vars)
  <1>1. /\ pc[m] = "verifying" /\ msg[m].kind = "setup" /\ UNCHANGED <<msg, seen, lifecycle>>
        /\ ProvenBy(m) = {} /\ msg[m].user \in Users
    BY MessageType DEF OnSetup, ProvenBy, AuthInv
  <1>2. CASE Refuse(m)
    <2>1. Phase = "out" /\ Phase' = "out" /\ RanAs' = RanAs
      BY <1>1, <1>2, Decides DEF Refuse, AfterReject, PhaseOf
    <2>2. QED
      BY <2>1, SilentLogin
  <1>3. ASSUME NEW kind, NEW factors, GoOn(m, kind, msg[m].user, factors),
               factors = {} \/ (factors = {"cert"} /\ msg[m].user \in OtpUsers)
        PROVE  LoggedIn!Next
    <2>1. Phase = "out" /\ Phase' = "pending" /\ RanAs' = RanAs
      BY <1>1, <1>3, Decides DEF GoOn, PhaseOf
    <2>2. holder'.user = msg[m].user /\ holder'.proven = factors
      BY <1>1, <1>3 DEF GoOn, Held
    <2>3. LoggedIn!Begin(msg[m].user)
      BY <1>3, <2>1, <2>2 DEF LoggedIn!Begin
    <2>4. QED
      BY <1>1, <2>3 DEF LoggedIn!Next
  <1>4. ASSUME NEW u \in Users, NEW factor \in {"peercred", "gssapi", "cert"},
               Establish(m, u, {factor}), LoggedIn!Enough(u, {factor})
        PROVE  LoggedIn!Next
    <2>1. Phase = "out" /\ Phase' = "in" /\ RanAs' = RanAs
      BY <1>1, <1>4, Decides DEF Establish, PhaseOf
    <2>2. holder'.user = u /\ holder'.proven = {factor}
      BY <1>1, <1>4 DEF Establish, Held
    <2>3. LoggedIn!Admit(u, factor)
      BY <1>4, <2>1, <2>2 DEF LoggedIn!Admit
    <2>4. QED
      BY <2>3 DEF LoggedIn!Next
  <1>5. CASE SetupPeercred(m)
    BY <1>4, <1>5, AuthAssumption DEF SetupPeercred, LoggedIn!Enough
  <1>6. CASE FirstFactor(m, msg[m].user, "cert")
    BY <1>1, <1>3, <1>4, <1>6 DEF FirstFactor, NeedsOtp, LoggedIn!Enough
  <1>7. CASE GoOn(m, "scram", msg[m].user, {}) \/ GoOn(m, "gssapi", msg[m].user, {})
    BY <1>3, <1>7
  <1>8. CASE Establish(m, msg[m].user, {"gssapi"})
    BY <1>1, <1>4, <1>8 DEF LoggedIn!Enough
  <1>9. QED
    BY <1>2, <1>5, <1>6, <1>7, <1>8 DEF OnSetup, SetupScram, SetupCert, SetupGssapi

LEMMA ContinueLogin ==
    ASSUME AuthInv, NEW m \in Msgs, OnContinue(m)
    PROVE  [LoggedIn!Next]_(LoggedIn!vars)
  <1>1. pc[m] = "verifying" /\ msg[m].kind = "continue" /\ UNCHANGED <<msg, seen, lifecycle>>
    BY DEF OnContinue
  <1>2. seen[m] = holder /\ ProvenBy(m) = holder.proven
    BY <1>1 DEF AuthInv, OneAtWork, ProvenBy
  <1>3. /\ holder.kind # "peer" => holder.user \in Users
        /\ holder.kind \in {"scram", "gssapi"} => holder.proven = {}
        /\ holder.kind = "otp" =>
              holder.proven \in {{"scram"}, {"cert"}} /\ holder.user \in OtpUsers
    BY DEF AuthInv, AuthTypeInv, AuthTypeOK, HolderSound, Rightful
  <1>4. CASE Refuse(m)
    <2>1. Phase = "pending" /\ Phase' = "out" /\ RanAs' = RanAs
      BY <1>1, <1>4, Decides DEF Refuse, AfterReject, PhaseOf
    <2>2. LoggedIn!Fail
      BY <2>1 DEF LoggedIn!Fail
    <2>3. QED
      BY <2>2 DEF LoggedIn!Next
  <1>5. CASE Conclude(m, "again", "INIT") /\ UNCHANGED holder
    <2>1. Phase = "pending" /\ Phase' = "pending" /\ RanAs' = RanAs
      BY <1>1, <1>5, Decides DEF PhaseOf
    <2>2. QED
      BY <1>5, <2>1, SilentLogin
  <1>6. ASSUME NEW kind, GoOn(m, kind, holder.user, {})
        PROVE  UNCHANGED LoggedIn!vars
    <2>1. Phase = "pending" /\ Phase' = "pending" /\ RanAs' = RanAs
      BY <1>1, <1>6, Decides DEF GoOn, PhaseOf
    <2>2. holder'.user = holder.user /\ holder'.proven = holder.proven
      BY <1>2, <1>6 DEF GoOn, Held
    <2>3. QED
      BY <2>1, <2>2, SilentLogin
  <1>7. CASE /\ GoOn(m, "otp", holder.user, {"scram"})
             /\ holder.kind = "scram" /\ NeedsOtp(holder.user)
    <2>1. Phase = "pending" /\ Phase' = "pending" /\ RanAs' = RanAs
      BY <1>1, <1>7, Decides DEF GoOn, PhaseOf
    <2>2. holder'.user = holder.user /\ holder'.proven = {"scram"} /\ holder.proven = {}
      BY <1>2, <1>3, <1>7 DEF GoOn, Held
    <2>3. LoggedIn!Prove
      BY <1>7, <2>1, <2>2 DEF LoggedIn!Prove, NeedsOtp
    <2>4. QED
      BY <2>3 DEF LoggedIn!Next
  <1>8. ASSUME NEW factor \in {"gssapi", "scram", "otp"}, Establish(m, holder.user, {factor}),
               holder.kind # "peer", LoggedIn!Enough(holder.user, holder.proven \cup {factor})
        PROVE  LoggedIn!Next
    <2>1. Phase = "pending" /\ Phase' = "in" /\ RanAs' = RanAs
      BY <1>1, <1>8, Decides DEF Establish, PhaseOf
    <2>2. holder'.user = holder.user /\ holder'.proven = holder.proven \cup {factor}
      BY <1>2, <1>8 DEF Establish, Held
    <2>3. LoggedIn!Admit(holder.user, factor)
      BY <1>8, <2>1, <2>2 DEF LoggedIn!Admit
    <2>4. QED
      BY <1>3, <1>8, <2>3 DEF LoggedIn!Next
  <1>9. CASE Judged(m) /\ FinalAccepted(m)
    <2>1. holder.kind = "scram" /\ FirstFactor(m, holder.user, "scram")
      BY <1>2, <1>9 DEF Judged, FinalAccepted
    <2>2. ~NeedsOtp(holder.user) => LoggedIn!Enough(holder.user, holder.proven \cup {"scram"})
      BY <1>3, <2>1 DEF NeedsOtp, LoggedIn!Enough
    <2>3. QED
      BY <1>7, <1>8, <2>1, <2>2 DEF FirstFactor
  <1>10. CASE ContinueScram(m)
    BY <1>4, <1>9, <1>10 DEF ContinueScram, ScramFinish
  <1>11. CASE ContinueGssapi(m)
    <2>1. holder.kind = "gssapi" => LoggedIn!Enough(holder.user, holder.proven \cup {"gssapi"})
      BY <1>3 DEF LoggedIn!Enough
    <2>2. QED
      BY <1>2, <1>4, <1>6, <1>8, <1>11, <2>1 DEF ContinueGssapi
  <1>12. CASE ContinueOtp(m)
    <2>1. holder.kind = "otp" => LoggedIn!Enough(holder.user, holder.proven \cup {"otp"})
      BY <1>3 DEF LoggedIn!Enough
    <2>2. QED
      BY <1>2, <1>4, <1>5, <1>6, <1>8, <1>12, <2>1 DEF ContinueOtp
  <1>13. QED
    BY <1>10, <1>11, <1>12 DEF OnContinue

LEMMA LoginStep ==
    ASSUME ~Pipelined, AuthInv, [AuthNext]_vars
    PROVE  [LoggedIn!Next]_(LoggedIn!vars)
  <1> USE DEF AuthInv, AuthTypeInv, AuthTypeOK, OneAtWork, AtWork
  <1>1. ASSUME NEW m \in Msgs, NEW x \in Traffic, Gate(m, x)
        PROVE  UNCHANGED LoggedIn!vars
    <2>1. /\ pc[m] = "idle" /\ seen[m] = None /\ UNCHANGED <<seen, holder, lifecycle>>
          /\ \A n \in Msgs : pc[n] # "storing" /\ pc'[n] # "storing"
      BY <1>1 DEF Gate, GoTo
    <2>2. Phase' = Phase
      BY <2>1, Resting
    <2>3. \A n \in Msgs : Ran(n)' = Ran(n)
      BY <1>1, <2>1 DEF Gate, Ran
    <2>4. QED
      BY <2>1, <2>2, <2>3, RanSame, SilentLogin
  <1>2. ASSUME NEW m \in Msgs, ReadHolder(m)
        PROVE  [LoggedIn!Next]_(LoggedIn!vars)
    <2>1. /\ pc[m] = "handling" /\ seen[m] = None /\ UNCHANGED <<msg, holder, lifecycle>>
          /\ seen' = [seen EXCEPT ![m] = holder]
          /\ lifecycle = Due(msg[m].kind)
          /\ \A n \in Msgs : pc[n] # "storing" /\ pc'[n] # "storing"
      BY <1>2 DEF ReadHolder, Return, GoTo
    <2>2. Phase = PhaseOf(lifecycle) /\ Phase' = Phase
      BY <2>1, Resting
    <2>3. CASE msg[m].kind # "call"
      <3>1. \A n \in Msgs : Ran(n)' = Ran(n) /\ (Ran(n) => seen'[n] = seen[n])
        BY <2>1, <2>3 DEF Ran
      <3>2. QED
        BY <2>1, <2>2, <3>1, RanSame, SilentLogin
    <2>4. CASE msg[m].kind = "call"
      <3>1. Phase = "in"
        BY <2>1, <2>2, <2>4 DEF Due, PhaseOf
      <3>2. holder # None /\ msg[m] # None
        BY <2>1, AuthAssumption
      <3>3. Ran(m)' /\ ~Ran(m) /\ seen'[m] = holder
        BY <2>1, <2>4, <3>2 DEF Ran
      <3>4. \A n \in Msgs \ {m} : Ran(n)' = Ran(n) /\ seen'[n] = seen[n]
        BY <2>1 DEF Ran
      <3>5. RanAs[m] = None /\ RanAs' = [RanAs EXCEPT ![m] = holder.user]
        BY <3>3, <3>4 DEF RanAs
      <3>6. LoggedIn!Serve(m)
        BY <2>1, <2>2, <3>1, <3>5 DEF LoggedIn!Serve
      <3>7. QED
        BY <3>6 DEF LoggedIn!Next
    <2>5. QED
      BY <2>3, <2>4
  <1>3. ASSUME NEW m \in Msgs, Raise(m) PROVE UNCHANGED LoggedIn!vars
    <2>1. /\ UNCHANGED <<msg, seen, holder, lifecycle>>
          /\ \A n \in Msgs : pc[n] # "storing" /\ pc'[n] # "storing"
      BY <1>3 DEF Raise, Return, GoTo
    <2>2. QED
      BY <2>1, Resting, RanSame, SilentLogin DEF Ran
  <1>4. ASSUME NEW m \in Msgs, Store(m) PROVE UNCHANGED LoggedIn!vars
    <2>1. /\ UNCHANGED <<msg, seen, holder, result>> /\ lifecycle' = result[m].to
          /\ pc[m] = "storing" /\ \A n \in Msgs : pc[n] = "storing" => n = m
          /\ \A n \in Msgs : pc'[n] # "storing"
      BY <1>4 DEF Store, Return, GoTo
    <2>2. Phase' = Phase
      BY <2>1, Resting, Decided
    <2>3. QED
      BY <2>1, <2>2, RanSame, SilentLogin DEF Ran
  <1>5. CASE Audit \/ UNCHANGED vars
    <2>1. UNCHANGED <<msg, pc, lifecycle, holder, seen, result>>
      BY <1>5 DEF Audit, vars
    <2>2. Phase' = Phase /\ RanAs' = RanAs
      BY <2>1 DEF Phase, Stands, RanAs, Ran
    <2>3. QED
      BY <2>1, <2>2, SilentLogin
  <1>6. QED
    BY <1>1, <1>2, <1>3, <1>4, <1>5, SetupLogin, ContinueLogin DEF AuthNext

\* Whatever the mechanisms, a session with its one field, its verifiers and its stored
\* lifecycle implements a log-in that takes its steps at once: a user is let in with enough
\* factors of one exchange, nobody takes his place, and every call runs as him.
THEOREM LoginImplemented ==
    ASSUME ~Pipelined
    PROVE  AuthSpec => ImplementsLogin
  <1>1. AuthInit => LoggedIn!Init
    BY DEF AuthInit, LoggedIn!Init, Phase, Stands, RanAs, Ran
  <1>2. AuthInv /\ [AuthNext]_vars => [LoggedIn!Next]_(LoggedIn!vars)
    BY LoginStep
  <1>3. QED
    BY <1>1, <1>2, AuthInvariant, PTL DEF AuthSpec, ImplementsLogin, LoggedIn!Spec

=============================================================================
