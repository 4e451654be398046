------------------------------ MODULE Dispatch ------------------------------
(***************************************************************************)
(* The dispatch core of truenas_pyjsonrpc: one JSONRPCProtocol object,     *)
(* driven by many executor threads at once (one per request), by the       *)
(* server's notification thread and by whoever publishes or drops a        *)
(* socket.                                                                 *)
(*                                                                         *)
(* A step is what one thread does between two points at which another      *)
(* thread can be seen: one critical section of the protocol's Condition    *)
(* `_cond', or one read or write of a session's lifecycle (which no lock   *)
(* guards).  pc[c] says where the thread that dispatches c stands.         *)
(*                                                                         *)
(* What a request carries is reduced to what dispatch branches on: its     *)
(* kind, its session, its id (None for a JSON-RPC notification), its       *)
(* target (the id a $/cancelRequest names, the topic of a subscribe) and   *)
(* the registration flags of its method.  A subscription id is a fresh     *)
(* uuid4, so it is the subscribing call itself.                            *)
(***************************************************************************)
EXTENDS Integers, FiniteSets

CONSTANTS
    Calls,              \* inbound messages, each dispatched once
    Sessions,           \* SessionState objects
    Ids,                \* request ids (UUIDs) clients choose
    Topics,             \* names of SERVER_CLIENT methods
    None,               \* Python's None, and "nothing there"
    Traffic,            \* the messages clients may send
    Admins,             \* sessions the authorization handler lets cancel anything
    HasSetup,           \* was add_session_setup() called?
    ReuseIds,           \* may a client use one id for two requests?
    BackgroundProgress, \* may update_progress run after the handler returned?
    MaxOutbound         \* bound: stamps given to outbound entries

Kinds == {"call", "subscribe", "transfer", "cancel",
          "setup", "continue", "close", "info", "malformed"}

Control == {"cancel", "setup", "continue", "close"}

\* JSONRPCMethod options dispatch looks at; "stub": registered without handler;
\* "waits": the handler only returns once it is cancelled (wait_for_cancel()).
Flags == {"cancellable", "pre_auth", "audit", "stub", "waits"}

Message == [kind : Kinds, session : Sessions, rid : Ids \cup {None},
            target : Ids \cup Calls \cup Topics \cup {None}, flags : SUBSET Flags]

SessionLifecycle == {"NONE", "INIT", "ESTABLISHED", "CLOSED"}

Replies == {"RESULT", "ERROR", "INVALID", "NOT_AUTHORIZED", "REQUEST_FAILED",
            "SESSION_NOT_ESTABLISHED", "SILENT"}

Stages == {"idle", "gate", "authorize", "admitted", "running", "returned", "directive",
           "cancelAuth", "cancelAct", "setup", "close", "sweep", "done"}

\* The session an outbound entry is routed by is its origin's; rid is None for a
\* published notification, whose origin is the subscription.
Entry == [stamp : Nat, rid : Ids \cup {None}, origin : Calls]

ASSUME DispatchAssumption ==
    /\ Traffic \subseteq Message
    /\ Admins \subseteq Sessions
    /\ None \notin Calls /\ None \notin Ids /\ None \notin Message
    /\ Ids \cap Calls = {}        \* a subscription id is a uuid4 of the server's own
    /\ HasSetup \in BOOLEAN /\ ReuseIds \in BOOLEAN /\ BackgroundProgress \in BOOLEAN
    /\ MaxOutbound \in Nat

VARIABLES
    msg,            \* the message a thread is dispatching
    pc,             \* where that thread stands
    reply,          \* what dispatch() returned for it (None: nothing yet)
    lifecycle,      \* SessionState.lifecycle
    socket,         \* progress of close_session() on a socket drop
    inflight,       \* _inflight: request id -> RequestState
    count,          \* RequestState.count
    cancelled,      \* requests whose cancel_event is set
    subs,           \* _subscriptions
    found,          \* the target _authorize_and_cancel looked up
    outbound,       \* _outbound: the deque, as entries stamped in arrival order
    stamp,          \* stamps given so far
    audits,         \* audit records produced for a call
    authenticated   \* history: sessions some setup handler ever established

requestVars == <<msg, pc, reply, audits>>
sessionVars == <<lifecycle, socket, authenticated>>
queueVars   == <<inflight, count, outbound, stamp>>
cancelVars  == <<cancelled, found>>
vars == <<requestVars, sessionVars, queueVars, cancelVars, subs>>

TypeOK ==
    /\ msg \in [Calls -> Message \cup {None}]
    /\ pc \in [Calls -> Stages]
    /\ reply \in [Calls -> Replies \cup {None}]
    /\ lifecycle \in [Sessions -> SessionLifecycle]
    /\ socket \in [Sessions -> {"open", "sweeping", "dropped"}]
    /\ inflight \in [Ids -> Calls \cup {None}]
    /\ count \in [Calls -> Nat]
    /\ cancelled \subseteq Calls
    /\ subs \subseteq Calls
    /\ found \in [Calls -> Calls \cup {None}]
    /\ outbound \subseteq Entry
    /\ stamp \in Nat
    /\ audits \in [Calls -> Nat]
    /\ authenticated \subseteq Sessions
    /\ \A c \in Calls : pc[c] # "idle" => msg[c] # None

Init ==
    /\ msg = [c \in Calls |-> None]
    /\ pc = [c \in Calls |-> "idle"]
    /\ reply = [c \in Calls |-> None]
    /\ lifecycle = [s \in Sessions |-> "NONE"]
    /\ socket = [s \in Sessions |-> "open"]
    /\ inflight = [i \in Ids |-> None]
    /\ count = [c \in Calls |-> 0]
    /\ cancelled = {}
    /\ subs = {}
    /\ found = [c \in Calls |-> None]
    /\ outbound = {}
    /\ stamp = 0
    /\ audits = [c \in Calls |-> 0]
    /\ authenticated = {}

-----------------------------------------------------------------------------
(* Leaving dispatch().                                                     *)

Session(c) == msg[c].session
IsNote(c)  == msg[c].rid = None

\* Deliberately wrong: a failure is answered with silence, too.
FailureSilenced(c, r) == IF IsNote(c) \/ r = "ERROR" THEN "SILENT" ELSE r

\* A notification is answered with silence, whatever the outcome.
Wire(c, r) == IF IsNote(c) THEN "SILENT" ELSE r

GoTo(c, stage) ==
    /\ pc' = [pc EXCEPT ![c] = stage]
    /\ UNCHANGED <<msg, reply, audits>>

\* Return r without going through the audit step.
Return(c, r) ==
    /\ pc' = [pc EXCEPT ![c] = "done"]
    /\ reply' = [reply EXCEPT ![c] = r]
    /\ UNCHANGED <<msg, audits>>

IsAudited(m) == m.kind \in Control \/ "audit" \in m.flags

\* Audit the outcome (a control operation always, a method if it asks for it),
\* then return it.
AuditAndReturn(c, r) ==
    /\ pc' = [pc EXCEPT ![c] = "done"]
    /\ reply' = [reply EXCEPT ![c] = r]
    /\ audits' = [audits EXCEPT ![c] = IF IsAudited(msg[c]) THEN @ + 1 ELSE @]
    /\ UNCHANGED msg

-----------------------------------------------------------------------------
(* Entering dispatch(): parsing and the CLOSED short-circuit.              *)

FreshId(m) ==
    (~ReuseIds /\ m.rid # None) =>
        \A d \in Calls : msg[d] # None => msg[d].rid # m.rid

\* Deliberately wrong: the CLOSED short-circuit left out.
NeverEnded(m) == FALSE

\* A CLOSED session accepts nothing further.
Ended(m) == lifecycle[m.session] = "CLOSED"

Begin(c, m) ==
    /\ pc[c] = "idle"
    /\ FreshId(m)
    /\ msg' = [msg EXCEPT ![c] = m]
    /\ \/ /\ m.kind = "malformed"
          /\ pc' = [pc EXCEPT ![c] = "done"]
          /\ reply' = [reply EXCEPT ![c] = "INVALID"]
       \/ /\ m.kind # "malformed"
          /\ Ended(m)
          /\ pc' = [pc EXCEPT ![c] = "done"]
          /\ reply' = [reply EXCEPT ![c] =
                          IF m.rid = None THEN "SILENT" ELSE "SESSION_NOT_ESTABLISHED"]
       \/ /\ m.kind # "malformed"
          /\ ~Ended(m)
          /\ pc' = [pc EXCEPT ![c] = "gate"]
          /\ UNCHANGED reply
    /\ UNCHANGED <<audits, sessionVars, queueVars, cancelVars, subs>>

-----------------------------------------------------------------------------
(* Registered methods: gate, authorize, then subscribe, run or negotiate.  *)

\* Deliberately wrong: the session gate forgotten.
UngatedOpen(c) == TRUE

\* The session-established gate lets c through.
Open(c) ==
    \/ ~HasSetup
    \/ "pre_auth" \in msg[c].flags
    \/ lifecycle[Session(c)] = "ESTABLISHED"

Gate(c) ==
    /\ pc[c] = "gate"
    /\ msg[c].kind \in {"call", "subscribe", "transfer"}
    /\ \/ msg[c].kind = "subscribe" /\ IsNote(c) /\ Return(c, "INVALID")
       \/ /\ ~(msg[c].kind = "subscribe" /\ IsNote(c))
          /\ ~Open(c)
          /\ Return(c, Wire(c, "SESSION_NOT_ESTABLISHED"))
       \/ /\ ~(msg[c].kind = "subscribe" /\ IsNote(c))
          /\ Return(c, Wire(c, "INVALID"))   \* unknown method or invalid params
       \/ /\ Open(c)
          /\ msg[c].kind = "transfer" /\ IsNote(c)
          /\ Return(c, "INVALID")
       \/ /\ Open(c)
          /\ ~(msg[c].kind \in {"subscribe", "transfer"} /\ IsNote(c))
          /\ GoTo(c, "authorize")
    /\ UNCHANGED <<sessionVars, queueVars, cancelVars, subs>>

\* The authorization handler is the server's: it may allow, deny or raise.
Authorize(c) ==
    /\ pc[c] = "authorize"
    /\ \/ GoTo(c, "admitted")
       \/ \E r \in {"NOT_AUTHORIZED", "ERROR"} : AuditAndReturn(c, Wire(c, r))
    /\ UNCHANGED <<sessionVars, queueVars, cancelVars, subs>>

Subscribe(c) ==
    /\ pc[c] = "admitted" /\ msg[c].kind = "subscribe"
    /\ subs' = subs \cup {c}
    /\ AuditAndReturn(c, "RESULT")
    /\ UNCHANGED <<sessionVars, queueVars, cancelVars>>

NoHandler(c) ==
    /\ pc[c] = "admitted" /\ msg[c].kind = "call" /\ "stub" \in msg[c].flags
    /\ AuditAndReturn(c, Wire(c, "ERROR"))
    /\ UNCHANGED <<sessionVars, queueVars, cancelVars, subs>>

\* The registry once c is in it; a request already there under the same id is
\* overwritten.
Registered(c) == IF IsNote(c) THEN inflight ELSE [inflight EXCEPT ![msg[c].rid] = c]

\* Enter the in-flight registry and call the handler.
Register(c) ==
    /\ pc[c] = "admitted" /\ msg[c].kind = "call" /\ "stub" \notin msg[c].flags
    /\ inflight' = Registered(c)
    /\ GoTo(c, "running")
    /\ UNCHANGED <<count, outbound, stamp, sessionVars, cancelVars, subs>>

\* wait_for_cancel() holds a waiting handler until its event is set; a method
\* that is not cancellable has no event and is not held.
MayReturn(c) == {"waits", "cancellable"} \subseteq msg[c].flags => c \in cancelled

\* Deliberately wrong: the entry left behind, as if _complete() were skipped when
\* the handler raises.
StillRegistered(c) == inflight

\* The registry once _complete() dropped the entry under c's id.
Unregistered(c) == IF IsNote(c) THEN inflight ELSE [inflight EXCEPT ![msg[c].rid] = None]

\* Deliberately wrong: the queue scan left out, and the scan matching the session.
NothingPurged(c) == outbound
SessionPurged(c) == {e \in outbound : Session(e.origin) # Session(c)}

\* The deque without the progress queued under c's id; the scan is skipped when
\* this request emitted nothing.
Purged(c) ==
    IF ~IsNote(c) /\ count[c] > 0 THEN {e \in outbound : e.rid # msg[c].rid} ELSE outbound

\* The handler returned or raised; _complete() runs either way.
Complete(c) ==
    /\ pc[c] = "running"
    /\ MayReturn(c)
    /\ inflight' = Unregistered(c)
    /\ outbound' = Purged(c)
    /\ GoTo(c, "returned")
    /\ UNCHANGED <<count, stamp, sessionVars, cancelVars, subs>>

\* Validate the return value, audit, return the envelope.
Finish(c) ==
    /\ pc[c] = "returned"
    /\ \E r \in {"RESULT", "ERROR"} : AuditAndReturn(c, Wire(c, r))
    /\ UNCHANGED <<sessionVars, queueVars, cancelVars, subs>>

\* Deliberately wrong: a failed negotiation returned without its audit record.
UnauditedFailure(c) == Return(c, "ERROR")

\* The attempt that failed is audited like any other call.
FailTransfer(c) == AuditAndReturn(c, "ERROR")

\* A raw-fd transfer: negotiate() fails, or a Transfer directive goes back.
Negotiate(c) ==
    /\ pc[c] = "admitted" /\ msg[c].kind = "transfer"
    /\ GoTo(c, "directive") \/ FailTransfer(c)
    /\ UNCHANGED <<sessionVars, queueVars, cancelVars, subs>>

\* protocol._run_transfer(): the server runs the directive's callback; validation, audit.  (A
\* directive that the server refuses, or whose hand-shake fails, is not run and not audited:
\* the dispatch then stays at "directive".)
RunTransfer(c) ==
    /\ pc[c] = "directive"
    /\ \E r \in {"RESULT", "ERROR"} : AuditAndReturn(c, r)
    /\ UNCHANGED <<sessionVars, queueVars, cancelVars, subs>>

-----------------------------------------------------------------------------
(* $/cancelRequest: look up under the lock, authorize without it, then act *)
(* on the object that was looked up.                                       *)

\* What goes by id t now: a request in flight, else a subscription, else nothing.
Holder(t) ==
    IF t \in Ids /\ inflight[t] # None THEN inflight[t]
    ELSE IF t \in subs THEN t ELSE None

CancelLookup(c) ==
    /\ pc[c] = "gate" /\ msg[c].kind = "cancel"
    /\ \/ Return(c, "INVALID") /\ UNCHANGED found      \* no id, or invalid params
       \/ /\ ~IsNote(c)
          /\ found' = [found EXCEPT ![c] = Holder(msg[c].target)]
          /\ GoTo(c, "cancelAuth")
    /\ UNCHANGED <<sessionVars, queueVars, cancelled, subs>>

\* The authorization handler the documentation asks for: session-scoped, given
\* the target's owner.  Admins may cancel anything.
MayCancel(c) ==
    \/ Session(c) \in Admins
    \/ found[c] # None /\ Session(found[c]) = Session(c)

CancelAuthorize(c) ==
    /\ pc[c] = "cancelAuth"
    /\ \/ MayCancel(c) /\ GoTo(c, "cancelAct")
       \/ ~MayCancel(c) /\ AuditAndReturn(c, "NOT_AUTHORIZED")
       \/ AuditAndReturn(c, "ERROR")
    /\ UNCHANGED <<sessionVars, queueVars, cancelVars, subs>>

\* Deliberately wrong: the id looked up again after the authorization.
TargetLookedUpAgain(c) ==
    IF msg[c].target \in Ids THEN inflight[msg[c].target] ELSE found[c]

\* The request or subscription the cancel acts on: the object found before the
\* authorization, whatever became of it since.
CancelTarget(c) == found[c]

\* Deliberately wrong: the active-abort callback run, the event never set; the
\* signal kept under the id instead of in the request's own state.
NotSignalled(t) == cancelled
SignalledById(t) == cancelled \cup {msg[t].rid}

\* cancel_event.set() on the target.
Signalled(t) == cancelled \cup {t}

CancelAct(c) ==
    LET t == CancelTarget(c) IN
    /\ pc[c] = "cancelAct"
    /\ \/ /\ t = None
          /\ AuditAndReturn(c, "REQUEST_FAILED")
          /\ UNCHANGED <<subs, cancelled>>
       \/ /\ t # None /\ msg[t].kind = "subscribe"
          /\ subs' = subs \ {t}
          /\ AuditAndReturn(c, "RESULT")
          /\ UNCHANGED cancelled
       \/ /\ t # None /\ msg[t].kind # "subscribe" /\ "cancellable" \notin msg[t].flags
          /\ AuditAndReturn(c, "REQUEST_FAILED")
          /\ UNCHANGED <<subs, cancelled>>
       \/ /\ t # None /\ msg[t].kind # "subscribe" /\ "cancellable" \in msg[t].flags
          /\ cancelled' = Signalled(t)
          /\ \E r \in {"RESULT", "ERROR"} : AuditAndReturn(c, r)   \* the abort callback may raise
          /\ UNCHANGED subs
    /\ UNCHANGED <<sessionVars, queueVars, found>>

-----------------------------------------------------------------------------
(* Session control: setup, continue, close, serverInfo.  The lifecycle is  *)
(* read here and written later, with no lock in between.                   *)

\* Deliberately wrong: a setup step admitted whatever the lifecycle.
AlwaysDue(c) == HasSetup

\* $/sessionSetup is due at NONE, $/sessionSetupContinue at INIT.
SetupDue(c) ==
    /\ HasSetup
    /\ lifecycle[Session(c)] = IF msg[c].kind = "setup" THEN "NONE" ELSE "INIT"

SetupGate(c) ==
    /\ pc[c] = "gate" /\ msg[c].kind \in {"setup", "continue"}
    /\ \/ /\ ~HasSetup \/ msg[c].kind = "continue"      \* the second step is optional
          /\ Return(c, Wire(c, "INVALID"))
       \/ HasSetup /\ IsNote(c) /\ Return(c, "INVALID")
       \/ ~IsNote(c) /\ SetupDue(c) /\ Return(c, "INVALID")      \* invalid params
       \/ HasSetup /\ ~IsNote(c) /\ ~SetupDue(c) /\ Return(c, "REQUEST_FAILED")
       \/ ~IsNote(c) /\ SetupDue(c) /\ GoTo(c, "setup")
    /\ UNCHANGED <<sessionVars, queueVars, cancelVars, subs>>

\* The setup handler fails, or returns the next lifecycle, which is stored
\* over whatever the lifecycle is by then.
SetupReturn(c) ==
    /\ pc[c] = "setup"
    /\ \/ /\ AuditAndReturn(c, "ERROR")
          /\ UNCHANGED <<lifecycle, authenticated>>
       \/ \E next \in SessionLifecycle :
            /\ lifecycle' = [lifecycle EXCEPT ![Session(c)] = next]
            /\ authenticated' = IF next = "ESTABLISHED"
                                THEN authenticated \cup {Session(c)} ELSE authenticated
            /\ AuditAndReturn(c, "RESULT")
    /\ UNCHANGED <<socket, queueVars, cancelVars, subs>>

SubsOf(s) == {c \in subs : Session(c) = s}

CloseGate(c) ==
    /\ pc[c] = "gate" /\ msg[c].kind = "close"
    /\ \/ IsNote(c) /\ Return(c, "INVALID")
       \/ /\ ~IsNote(c) /\ lifecycle[Session(c)] \notin {"INIT", "ESTABLISHED"}
          /\ Return(c, "REQUEST_FAILED")
       \/ /\ ~IsNote(c) /\ lifecycle[Session(c)] \in {"INIT", "ESTABLISHED"}
          /\ GoTo(c, "close")
    /\ UNCHANGED <<sessionVars, queueVars, cancelVars, subs>>

CloseMark(c) ==
    /\ pc[c] = "close"
    /\ lifecycle' = [lifecycle EXCEPT ![Session(c)] = "CLOSED"]
    /\ GoTo(c, "sweep")
    /\ UNCHANGED <<socket, authenticated, queueVars, cancelVars, subs>>

CloseSweep(c) ==
    /\ pc[c] = "sweep"
    /\ subs' = subs \ SubsOf(Session(c))
    /\ AuditAndReturn(c, "RESULT")
    /\ UNCHANGED <<sessionVars, queueVars, cancelVars>>

ServerInfo(c) ==
    /\ pc[c] = "gate" /\ msg[c].kind = "info"
    /\ \/ IsNote(c) /\ \E r \in {"SILENT", "INVALID"} : Return(c, r)
       \/ ~IsNote(c) /\ \E r \in {"RESULT", "ERROR", "INVALID"} : Return(c, r)
    /\ UNCHANGED <<sessionVars, queueVars, cancelVars, subs>>

-----------------------------------------------------------------------------
(* Other threads: progress, publication, the drain, a socket drop.         *)

\* `rid in _inflight', tested in the critical section that appends.
Live(c) == inflight[msg[c].rid] # None

Emitting(c) ==
    \/ pc[c] = "running"
    \/ BackgroundProgress /\ pc[c] \in {"returned", "done"}

\* update_progress(): dropped (no step) unless the request is in flight.
Progress(c) ==
    /\ stamp < MaxOutbound
    /\ Emitting(c) /\ msg[c].kind = "call" /\ ~IsNote(c)
    /\ Live(c)
    /\ count' = [count EXCEPT ![c] = @ + 1]
    /\ stamp' = stamp + 1
    /\ outbound' = outbound \cup {[stamp |-> stamp + 1, rid |-> msg[c].rid, origin |-> c]}
    /\ UNCHANGED <<requestVars, sessionVars, inflight, cancelVars, subs>>

\* send_notification(): one entry for each subscriber of the topic.
Publish(topic) ==
    LET audience == {d \in subs : msg[d].target = topic} IN
    /\ stamp < MaxOutbound
    /\ audience # {}
    /\ stamp' = stamp + 1
    /\ outbound' = outbound \cup
          {[stamp |-> stamp + 1, rid |-> None, origin |-> d] : d \in audience}
    /\ UNCHANGED <<requestVars, sessionVars, inflight, count, cancelVars, subs>>

\* Deliberately wrong: the queue drained from the wrong end.
Youngest(e) == \A f \in outbound : e.stamp >= f.stamp

Oldest(e) == \A f \in outbound : e.stamp <= f.stamp

\* poll_notification(): the notification thread pops the oldest entry.
Poll(e) ==
    /\ e \in outbound /\ Oldest(e)
    /\ outbound' = outbound \ {e}
    /\ UNCHANGED <<requestVars, sessionVars, inflight, count, stamp, cancelVars, subs>>

\* close_session() on a socket drop: mark, then sweep.
SocketDrop(s) ==
    /\ socket[s] = "open"
    /\ socket' = [socket EXCEPT ![s] = "sweeping"]
    /\ lifecycle' = [lifecycle EXCEPT ![s] = "CLOSED"]
    /\ UNCHANGED <<requestVars, authenticated, queueVars, cancelVars, subs>>

SocketSweep(s) ==
    /\ socket[s] = "sweeping"
    /\ socket' = [socket EXCEPT ![s] = "dropped"]
    /\ subs' = subs \ SubsOf(s)
    /\ UNCHANGED <<requestVars, lifecycle, authenticated, queueVars, cancelVars>>

-----------------------------------------------------------------------------

\* The thread that dispatches c moves on.
Thread(c) ==
    \/ Gate(c) \/ Authorize(c) \/ Subscribe(c) \/ NoHandler(c) \/ Register(c)
    \/ Complete(c) \/ Finish(c) \/ Negotiate(c) \/ RunTransfer(c)
    \/ CancelLookup(c) \/ CancelAuthorize(c) \/ CancelAct(c)
    \/ SetupGate(c) \/ SetupReturn(c)
    \/ CloseGate(c) \/ CloseMark(c) \/ CloseSweep(c) \/ ServerInfo(c)

Next ==
    \/ \E c \in Calls, m \in Traffic : Begin(c, m)
    \/ \E c \in Calls : Thread(c) \/ Progress(c)
    \/ \E topic \in Topics : Publish(topic)
    \/ \E e \in outbound : Poll(e)
    \/ \E s \in Sessions : SocketDrop(s) \/ SocketSweep(s)

Spec == Init /\ [][Next]_vars

-----------------------------------------------------------------------------
(* Safety.                                                                 *)

\* The in-flight registry never keeps a request whose handler has ended, and
\* files each one under its own id -- on every way out of the handler, and even
\* when two live requests carry the same id.
InflightOwnerRunning ==
    \A i \in Ids : inflight[i] # None =>
        pc[inflight[i]] = "running" /\ msg[inflight[i]].rid = i

\* When clients do not repeat an id, a handler that runs can be found under its
\* id: a $/cancelRequest reaches it and its progress is not dropped.
RunningIsRegistered ==
    \A c \in Calls :
        pc[c] = "running" /\ ~IsNote(c) => inflight[msg[c].rid] = c

\* Once a handler has ended none of its progress is waiting in the outbound
\* queue: what it emitted has been drained or is purged with its completion,
\* including when the purge is skipped because the counter says nothing was sent.
QueuedProgressIsLive ==
    \A e \in outbound : e.rid # None => pc[e.origin] = "running"

\* A method that is not pre_auth gets past the gate only on a session some
\* setup handler established, and nobody holds a subscription otherwise --
\* however setups, closes and socket drops of the session interleave.
Guarded(c) ==
    /\ \/ pc[c] \in {"authorize", "admitted", "running", "returned", "directive"}
       \/ c \in subs
    /\ "pre_auth" \notin msg[c].flags

HandlerNeedsAuthentication ==
    HasSetup => \A c \in Calls : Guarded(c) => Session(c) \in authenticated

-----------------------------------------------------------------------------
(* What the safety properties rest on: together they are inductive.        *)

IdsDistinct ==
    ~ReuseIds => \A c, d \in Calls :
        (/\ msg[c] # None /\ msg[d] # None
         /\ msg[c].rid # None /\ msg[c].rid = msg[d].rid) => c = d

\* The counter of a request with queued progress is positive, so the purge that
\* its completion brings is not skipped.
QueuedProgressCounted ==
    ~(ReuseIds /\ BackgroundProgress) => \A e \in outbound : e.rid # None =>
        pc[e.origin] = "running" /\ count[e.origin] > 0 /\ e.rid = msg[e.origin].rid

StampsBounded ==
    stamp \in 0..MaxOutbound /\ \A e \in outbound : e.stamp \in 1..stamp

EstablishedBySetup ==
    HasSetup => \A s \in Sessions : lifecycle[s] = "ESTABLISHED" => s \in authenticated

SubscribersDone == \A c \in subs : pc[c] = "done"

CancelAuthorized ==
    \A c \in Calls :
        /\ found[c] # None => pc[found[c]] # "idle"
        /\ pc[c] = "cancelAct" => MayCancel(c)

IInv ==
    /\ TypeOK
    /\ InflightOwnerRunning
    /\ IdsDistinct
    /\ ~ReuseIds => RunningIsRegistered
    /\ QueuedProgressCounted
    /\ StampsBounded
    /\ SubscribersDone
    /\ EstablishedBySetup
    /\ HandlerNeedsAuthentication
    /\ CancelAuthorized

-----------------------------------------------------------------------------
(* What a step may never do.                                               *)

\* A request is signalled, or a subscription dropped before its session ends,
\* only by a $/cancelRequest of the session that owns it or of an admin --
\* although the target is looked up in one critical section, authorized outside
\* any, and acted on in a third, and although two sessions may use one id.
CancelStaysInSession ==
    [][ \A t \in Calls :
          (t \in cancelled' \ cancelled \/ t \in subs \ subs') =>
              \/ \E c \in Calls :
                    /\ pc[c] = "cancelAct" /\ pc'[c] = "done"
                    /\ Session(c) = Session(t) \/ Session(c) \in Admins
              \/ t \in subs /\ socket[Session(t)] = "sweeping"
              \/ t \in subs /\ \E c \in Calls :
                    pc[c] = "sweep" /\ pc'[c] = "done" /\ Session(c) = Session(t)
      ]_vars

\* Leaving dispatch past the gate (from an authorization decision on, or from
\* inside a control operation) produces exactly one audit record, whichever of
\* the many exits it is; an early rejection produces none, also one of a control operation,
\* and nothing is audited after the call is over.
PastGate(c) == pc[c] \notin {"idle", "gate", "done"}

AuditedExactlyOnce ==
    [][ \A c \in Calls :
          audits'[c] = audits[c] +
              IF PastGate(c) /\ pc'[c] = "done" /\ IsAudited(msg[c]) THEN 1 ELSE 0 ]_vars

\* Progress of a request that has completed is dropped, not sent
\* (_update_progress: "A no-op if the request is no longer in flight").
LateProgressDropped ==
    [][\A c \in Calls : count'[c] > count[c] => pc[c] = "running"]_vars

\* An entry leaves the outbound queue in two ways only: the drain takes the
\* oldest one, or its own request completes.  Completing one request never
\* loses the progress of another nor a published notification.
OnlyOwnProgressPurged ==
    [][ \A e \in outbound \ outbound' :
          \/ pc' = pc /\ Oldest(e)
          \/ e.rid # None /\ pc[e.origin] = "running" /\ pc'[e.origin] = "returned" ]_vars

SetupPending(s) == \E c \in Calls : pc[c] = "setup" /\ Session(c) = s

\* A closed session with no setup handler still running stays closed for good,
\* and no setup handler is ever started on it: the CLOSED test, the setup gate
\* and the close are three separate steps, and none of their orders reopens it.
ClosedIsFinalWithoutSetup ==
    [][ \A s \in Sessions :
          lifecycle[s] = "CLOSED" /\ ~SetupPending(s) =>
              lifecycle'[s] = "CLOSED" /\ ~SetupPending(s)' ]_vars

\* unsubscribe_all(): the server calls it "when a connection closes so
\* subscriptions don't leak".
NoSubscriptionLeak ==
    \A c \in subs : socket[Session(c)] # "dropped"

-----------------------------------------------------------------------------
(* Refinement.                                                             *)

Phase(c) ==
    CASE pc[c] = "running" -> "running"
      [] pc[c] \in {"returned", "done"} -> "over"
      [] OTHER -> "pending"

Channel == INSTANCE ProgressChannel WITH
    Requests <- Calls, Stamps <- 1..MaxOutbound,
    phase <- [c \in Calls |-> Phase(c)], queue <- outbound

\* When clients do not repeat an id, the outbound queue is the channel of
\* ProgressChannel: the registry of ids, the per-request counter that lets
\* _complete() skip the scan and the scan by id amount to "each request takes
\* its own unread progress with it", even for handlers that leave a thread behind.
ImplementsChannel == Channel!Spec

=============================================================================
