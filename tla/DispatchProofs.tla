--------------------------- MODULE DispatchProofs ---------------------------
(* Theorems about Dispatch, for any calls, sessions, ids and traffic.      *)
EXTENDS Dispatch, TLAPS

-----------------------------------------------------------------------------
(* Type correctness.                                                       *)

\* Init and every step keep every variable in its type.
LEMMA TypeInit == Init => TypeOK
  BY DispatchAssumption DEF Init, TypeOK, Stages, SessionLifecycle

LEMMA BeginType ==
    ASSUME TypeOK, NEW c \in Calls, NEW m \in Traffic, Begin(c, m)
    PROVE  TypeOK'
  <1>1. m \in Message /\ m # None
    BY DispatchAssumption
  <1>2. msg' = [msg EXCEPT ![c] = m]
    BY DEF Begin
  <1>3. pc' \in [Calls -> Stages] /\ reply' \in [Calls -> Replies \cup {None}]
    BY DEF Begin, TypeOK, Stages, Replies
  <1>4. \A d \in Calls : pc'[d] # "idle" => msg'[d] # None
    BY <1>1, <1>2 DEF Begin, TypeOK, Message
  <1>5. QED
    BY <1>1, <1>2, <1>3, <1>4
    DEF Begin, TypeOK, sessionVars, queueVars, cancelVars

\* The steps by which a thread leaves the shared state alone.
Quiet(c) ==
    \/ Gate(c) \/ Authorize(c) \/ NoHandler(c) \/ Finish(c) \/ Negotiate(c) \/ RunTransfer(c)
    \/ CancelAuthorize(c) \/ SetupGate(c) \/ CloseGate(c) \/ ServerInfo(c)

LEMMA QuietExits ==
    ASSUME TypeOK, NEW c \in Calls, Quiet(c)
    PROVE  /\ pc[c] # "idle"
           /\ UNCHANGED <<sessionVars, queueVars, cancelVars, subs>>
           /\ \/ \E stage \in Stages : GoTo(c, stage)
              \/ \E r \in Replies : Return(c, r) \/ AuditAndReturn(c, r)
  <1>1. CASE Gate(c)
    BY <1>1 DEF Gate, Wire, Stages, Replies
  <1>2. CASE Authorize(c)
    BY <1>2 DEF Authorize, Wire, Stages, Replies
  <1>3. CASE NoHandler(c)
    BY <1>3 DEF NoHandler, Wire, Replies
  <1>4. CASE Finish(c)
    BY <1>4 DEF Finish, Wire, Replies
  <1>5. CASE Negotiate(c)
    BY <1>5 DEF Negotiate, FailTransfer, Stages, Replies
  <1>6. CASE RunTransfer(c)
    BY <1>6 DEF RunTransfer, Replies
  <1>7. CASE CancelAuthorize(c)
    BY <1>7 DEF CancelAuthorize, Stages, Replies
  <1>8. CASE SetupGate(c)
    BY <1>8 DEF SetupGate, Wire, Stages, Replies
  <1>9. CASE CloseGate(c)
    BY <1>9 DEF CloseGate, Stages, Replies
  <1>10. CASE ServerInfo(c)
    BY <1>10 DEF ServerInfo, Stages, Replies
  <1>11. QED
    BY <1>1, <1>2, <1>3, <1>4, <1>5, <1>6, <1>7, <1>8, <1>9, <1>10 DEF Quiet

LEMMA ThreadType ==
    ASSUME TypeOK, NEW c \in Calls, Thread(c)
    PROVE  TypeOK'
  <1>1. CASE Quiet(c)
    <2>1. /\ pc' \in [Calls -> Stages] /\ msg' = msg
          /\ reply' \in [Calls -> Replies \cup {None}] /\ audits' \in [Calls -> Nat]
      BY <1>1, QuietExits DEF GoTo, Return, AuditAndReturn, TypeOK, Stages
    <2>2. \A d \in Calls : pc'[d] # "idle" => pc[d] # "idle"
      BY <1>1, QuietExits DEF GoTo, Return, AuditAndReturn, TypeOK
    <2>3. QED
      BY <1>1, <2>1, <2>2, QuietExits DEF TypeOK, sessionVars, queueVars, cancelVars
  <1>2. CASE Subscribe(c)
    BY <1>2 DEF Subscribe, AuditAndReturn, TypeOK, Stages, Replies,
                sessionVars, queueVars, cancelVars
  <1>3. CASE Register(c)
    <2>1. inflight' \in [Ids -> Calls \cup {None}]
      BY <1>3 DEF Register, Registered, TypeOK
    <2>2. QED
      BY <1>3, <2>1 DEF Register, GoTo, TypeOK, Stages, sessionVars, cancelVars
  <1>4. CASE Complete(c)
    <2>1. inflight' \in [Ids -> Calls \cup {None}]
      BY <1>4 DEF Complete, Unregistered, TypeOK
    <2>2. outbound' \subseteq Entry
      BY <1>4 DEF Complete, Purged, TypeOK
    <2>3. QED
      BY <1>4, <2>1, <2>2 DEF Complete, GoTo, TypeOK, Stages, sessionVars, cancelVars
  <1>5. CASE CancelLookup(c)
    <2>1. found' \in [Calls -> Calls \cup {None}]
      BY <1>5 DEF CancelLookup, Holder, TypeOK
    <2>2. /\ pc' \in [Calls -> Stages] /\ msg' = msg /\ audits' = audits
          /\ reply' \in [Calls -> Replies \cup {None}]
          /\ \A d \in Calls : pc'[d] # "idle" => pc[d] # "idle"
      BY <1>5 DEF CancelLookup, Return, GoTo, TypeOK, Stages, Replies
    <2>3. QED
      BY <1>5, <2>1, <2>2 DEF CancelLookup, Holder, TypeOK, sessionVars, queueVars
  <1>6. CASE CancelAct(c)
    <2>1. /\ pc' \in [Calls -> Stages] /\ msg' = msg /\ audits' \in [Calls -> Nat]
          /\ reply' \in [Calls -> Replies \cup {None}]
          /\ \A d \in Calls : pc'[d] # "idle" => pc[d] # "idle"
      BY <1>6 DEF CancelAct, AuditAndReturn, TypeOK, Stages, Replies
    <2>2. subs' \subseteq Calls /\ cancelled' \subseteq Calls
      BY <1>6 DEF CancelAct, CancelTarget, Signalled, TypeOK
    <2>3. QED
      BY <1>6, <2>1, <2>2 DEF CancelAct, TypeOK, sessionVars, queueVars
  <1>7. CASE SetupReturn(c)
    <2>1. msg[c] \in Message
      BY <1>7 DEF SetupReturn, TypeOK
    <2>2. lifecycle' \in [Sessions -> SessionLifecycle] /\ authenticated' \subseteq Sessions
      BY <1>7, <2>1 DEF SetupReturn, Session, Message, TypeOK
    <2>3. QED
      BY <1>7, <2>2 DEF SetupReturn, AuditAndReturn, TypeOK, Stages, Replies,
                        queueVars, cancelVars
  <1>8. CASE CloseMark(c)
    BY <1>8 DEF CloseMark, GoTo, Session, TypeOK, Stages, SessionLifecycle,
                queueVars, cancelVars
  <1>9. CASE CloseSweep(c)
    BY <1>9 DEF CloseSweep, AuditAndReturn, TypeOK, Stages, Replies,
                sessionVars, queueVars, cancelVars
  <1>10. QED
    BY <1>1, <1>2, <1>3, <1>4, <1>5, <1>6, <1>7, <1>8, <1>9 DEF Thread, Quiet

LEMMA NextType ==
    ASSUME TypeOK, [Next]_vars
    PROVE  TypeOK'
  <1>1. ASSUME NEW c \in Calls, NEW m \in Traffic, Begin(c, m) PROVE TypeOK'
    BY <1>1, BeginType
  <1>2. ASSUME NEW c \in Calls, Thread(c) PROVE TypeOK'
    BY <1>2, ThreadType
  <1>3. ASSUME NEW c \in Calls, Progress(c) PROVE TypeOK'
    <2>1. msg[c] \in Message /\ msg[c].rid \in Ids
      BY <1>3 DEF Progress, Emitting, TypeOK, Message, IsNote
    <2>2. outbound' \subseteq Entry
      BY <1>3, <2>1 DEF Progress, TypeOK, Entry
    <2>3. QED
      BY <1>3, <2>2 DEF Progress, TypeOK, requestVars, sessionVars, cancelVars
  <1>4. ASSUME NEW topic \in Topics, Publish(topic) PROVE TypeOK'
    BY <1>4 DEF Publish, TypeOK, Entry, requestVars, sessionVars, cancelVars
  <1>5. ASSUME NEW e \in outbound, Poll(e) PROVE TypeOK'
    BY <1>5 DEF Poll, TypeOK, requestVars, sessionVars, cancelVars
  <1>6. ASSUME NEW s \in Sessions, SocketDrop(s) PROVE TypeOK'
    BY <1>6 DEF SocketDrop, TypeOK, SessionLifecycle, requestVars, queueVars, cancelVars
  <1>7. ASSUME NEW s \in Sessions, SocketSweep(s) PROVE TypeOK'
    BY <1>7 DEF SocketSweep, TypeOK, requestVars, queueVars, cancelVars
  <1>8. CASE UNCHANGED vars
    BY <1>8 DEF TypeOK, vars, requestVars, sessionVars, queueVars, cancelVars
  <1>9. QED
    BY <1>1, <1>2, <1>3, <1>4, <1>5, <1>6, <1>7, <1>8 DEF Next

\* Every variable of the dispatch core keeps its type: in particular the in-flight
\* registry and the looked-up cancel targets only ever hold calls, and the outbound
\* queue only entries that name a call.
THEOREM TypeCorrect == Spec => []TypeOK
  BY TypeInit, NextType, PTL DEF Spec

-----------------------------------------------------------------------------
(* The registry of requests in flight.                                     *)

\* What every step of a dispatching thread has in common.
LEMMA ThreadFrame ==
    ASSUME TypeOK, NEW c \in Calls, Thread(c)
    PROVE  /\ pc[c] \notin {"idle", "done"}
           /\ msg' = msg /\ count' = count /\ stamp' = stamp
           /\ \E stage \in Stages \ {"idle"} : pc' = [pc EXCEPT ![c] = stage]
  <1>1. CASE Quiet(c)
    <2>1. pc[c] # "done"
      BY <1>1 DEF Quiet, Gate, Authorize, NoHandler, Finish, Negotiate, RunTransfer,
                  CancelAuthorize, SetupGate, CloseGate, ServerInfo
    <2>2. /\ pc[c] # "idle" /\ UNCHANGED queueVars /\ msg' = msg
          /\ \E stage \in Stages : pc' = [pc EXCEPT ![c] = stage]
      BY <1>1, QuietExits DEF GoTo, Return, AuditAndReturn, Stages
    <2>3. pc'[c] # "idle"
      BY <1>1 DEF Quiet, Gate, Authorize, NoHandler, Finish, Negotiate, FailTransfer,
                  RunTransfer, CancelAuthorize, SetupGate, CloseGate, ServerInfo,
                  GoTo, Return, AuditAndReturn, TypeOK
    <2>4. QED
      BY <2>1, <2>2, <2>3 DEF TypeOK, queueVars
  <1>2. CASE ~Quiet(c)
    BY <1>2 DEF Thread, Quiet, Subscribe, Register, Complete, CancelLookup, CancelAct,
                SetupReturn, CloseMark, CloseSweep, GoTo, Return, AuditAndReturn,
                queueVars, Stages
  <1>3. QED
    BY <1>1, <1>2

\* Only Register and Complete touch the registry or end a handler.
LEMMA OffRegistry ==
    ASSUME TypeOK, NEW c \in Calls, Thread(c), ~Register(c), ~Complete(c)
    PROVE  /\ UNCHANGED <<inflight, outbound>>
           /\ pc[c] # "running" /\ pc'[c] # "running"
  <1>1. CASE Quiet(c)
    <2>1. UNCHANGED <<inflight, outbound>>
      BY <1>1, QuietExits DEF queueVars
    <2>2. QED
      BY <1>1, <2>1 DEF Quiet, Gate, Authorize, NoHandler, Finish, Negotiate, FailTransfer,
                  RunTransfer, CancelAuthorize, SetupGate, CloseGate, ServerInfo,
                  GoTo, Return, AuditAndReturn, TypeOK
  <1>2. CASE ~Quiet(c)
    BY <1>2 DEF Thread, Quiet, Subscribe, CancelLookup, CancelAct,
                SetupReturn, CloseMark, CloseSweep, GoTo, Return, AuditAndReturn,
                queueVars, TypeOK
  <1>3. QED
    BY <1>1, <1>2

\* Steps of the threads that do not dispatch leave requests and registry alone.
Bystander ==
    \/ \E topic \in Topics : Publish(topic)
    \/ \E e \in outbound : Poll(e)
    \/ \E s \in Sessions : SocketDrop(s) \/ SocketSweep(s)

LEMMA BystanderFrame ==
    ASSUME Bystander
    PROVE  UNCHANGED <<requestVars, inflight, count, authenticated, cancelVars>>
  BY DEF Bystander, Publish, Poll, SocketDrop, SocketSweep, requestVars, sessionVars,
         queueVars, cancelVars

LEMMA RegistryStep ==
    ASSUME TypeOK, InflightOwnerRunning, [Next]_vars
    PROVE  InflightOwnerRunning'
  <1>1. ASSUME NEW c \in Calls, NEW m \in Traffic, Begin(c, m)
        PROVE  InflightOwnerRunning'
    <2>1. inflight' = inflight /\ pc[c] = "idle"
      BY <1>1 DEF Begin, queueVars
    <2>2. \A d \in Calls : d # c => pc'[d] = pc[d] /\ msg'[d] = msg[d]
      BY <1>1 DEF Begin, TypeOK
    <2>3. QED
      BY <2>1, <2>2 DEF InflightOwnerRunning, TypeOK
  <1>2. ASSUME NEW c \in Calls, Register(c)
        PROVE  InflightOwnerRunning'
    BY <1>2 DEF Register, Registered, IsNote, GoTo, InflightOwnerRunning, TypeOK
  <1>3. ASSUME NEW c \in Calls, Complete(c)
        PROVE  InflightOwnerRunning'
    BY <1>3, DispatchAssumption
    DEF Complete, Unregistered, IsNote, GoTo, InflightOwnerRunning, TypeOK
  <1>4. ASSUME NEW c \in Calls, Thread(c), ~Register(c), ~Complete(c)
        PROVE  InflightOwnerRunning'
    BY <1>4, ThreadFrame, OffRegistry DEF InflightOwnerRunning, TypeOK
  <1>5. ASSUME NEW c \in Calls, Progress(c)
        PROVE  InflightOwnerRunning'
    BY <1>5 DEF Progress, InflightOwnerRunning, requestVars
  <1>6. CASE Bystander
    BY <1>6, BystanderFrame DEF InflightOwnerRunning, requestVars
  <1>7. CASE UNCHANGED vars
    BY <1>7 DEF InflightOwnerRunning, vars, requestVars, queueVars
  <1>8. QED
    BY <1>1, <1>2, <1>3, <1>4, <1>5, <1>6, <1>7 DEF Next, Bystander

\* The in-flight registry never keeps a request whose handler has ended and files
\* each under its own id -- for any number of calls, even with repeated ids.
THEOREM RegistryCorrect == Spec => []InflightOwnerRunning
  <1>1. Init => InflightOwnerRunning
    BY DEF Init, InflightOwnerRunning
  <1>2. TypeOK /\ InflightOwnerRunning /\ [Next]_vars => InflightOwnerRunning'
    BY RegistryStep
  <1>3. QED
    BY <1>1, <1>2, TypeCorrect, PTL DEF Spec

-----------------------------------------------------------------------------
(* Ids clients do not repeat, and the progress queued under them.          *)

LEMMA BeginFrame ==
    ASSUME TypeOK, NEW c \in Calls, NEW m \in Traffic, Begin(c, m)
    PROVE  /\ pc[c] = "idle" /\ pc'[c] \in {"gate", "done"}
           /\ msg'[c] = m /\ m \in Message /\ m # None
           /\ \A d \in Calls : d # c => pc'[d] = pc[d] /\ msg'[d] = msg[d]
           /\ UNCHANGED <<audits, sessionVars, queueVars, cancelVars, subs>>
  BY DispatchAssumption DEF Begin, TypeOK

LEMMA IdsDistinctStep ==
    ASSUME TypeOK, IdsDistinct, [Next]_vars
    PROVE  IdsDistinct'
  <1>1. ASSUME NEW c \in Calls, NEW m \in Traffic, Begin(c, m)
        PROVE  IdsDistinct'
    <2>1. /\ ~ReuseIds /\ m.rid # None => \A d \in Calls : msg[d] # None => msg[d].rid # m.rid
      BY <1>1 DEF Begin, FreshId
    <2>2. QED
      BY <1>1, <2>1, BeginFrame DEF IdsDistinct
  <1>2. ASSUME msg' = msg PROVE IdsDistinct'
    BY <1>2 DEF IdsDistinct
  <1>3. ASSUME NEW c \in Calls, Thread(c) PROVE msg' = msg
    BY <1>3, ThreadFrame
  <1>4. ASSUME NEW c \in Calls, Progress(c) PROVE msg' = msg
    BY <1>4 DEF Progress, requestVars
  <1>5. Bystander => msg' = msg
    BY BystanderFrame DEF requestVars
  <1>6. UNCHANGED vars => msg' = msg
    BY DEF vars, requestVars
  <1>7. QED
    BY <1>1, <1>2, <1>3, <1>4, <1>5, <1>6 DEF Next, Bystander

LEMMA RunningRegisteredStep ==
    ASSUME TypeOK, IdsDistinct, ~ReuseIds, RunningIsRegistered, [Next]_vars
    PROVE  RunningIsRegistered'
  <1>1. ASSUME NEW c \in Calls, NEW m \in Traffic, Begin(c, m)
        PROVE  RunningIsRegistered'
    BY <1>1, BeginFrame DEF RunningIsRegistered, IsNote, queueVars
  <1>2. ASSUME NEW c \in Calls, Register(c)
        PROVE  RunningIsRegistered'
    <2>1. \A d \in Calls : pc[d] # "idle" => msg[d] # None /\ msg[d].rid \in Ids \cup {None}
      BY DEF TypeOK, Message
    <2>2. QED
      BY <1>2, <2>1
      DEF Register, Registered, RunningIsRegistered, IsNote, GoTo, IdsDistinct, TypeOK
  <1>3. ASSUME NEW c \in Calls, Complete(c)
        PROVE  RunningIsRegistered'
    <2>1. \A d \in Calls : pc[d] # "idle" => msg[d] # None /\ msg[d].rid \in Ids \cup {None}
      BY DEF TypeOK, Message
    <2>2. QED
      BY <1>3, <2>1
      DEF Complete, Unregistered, RunningIsRegistered, IsNote, GoTo, IdsDistinct, TypeOK
  <1>4. ASSUME NEW c \in Calls, Thread(c), ~Register(c), ~Complete(c)
        PROVE  RunningIsRegistered'
    BY <1>4, ThreadFrame, OffRegistry DEF RunningIsRegistered, IsNote, TypeOK
  <1>5. ASSUME NEW c \in Calls, Progress(c)
        PROVE  RunningIsRegistered'
    BY <1>5 DEF Progress, RunningIsRegistered, IsNote, requestVars
  <1>6. CASE Bystander
    BY <1>6, BystanderFrame DEF RunningIsRegistered, IsNote, requestVars
  <1>7. CASE UNCHANGED vars
    BY <1>7 DEF RunningIsRegistered, IsNote, vars, requestVars, queueVars
  <1>8. QED
    BY <1>1, <1>2, <1>3, <1>4, <1>5, <1>6, <1>7 DEF Next, Bystander

\* A handler that emits progress that is not dropped is running: by definition, or
\* because the entry found under its id can only be its own.
LEMMA LiveEmitterRuns ==
    ASSUME TypeOK, InflightOwnerRunning, IdsDistinct, ~(ReuseIds /\ BackgroundProgress),
           NEW c \in Calls, Progress(c)
    PROVE  pc[c] = "running"
  <1>1. CASE ~BackgroundProgress
    BY <1>1 DEF Progress, Emitting
  <1>2. CASE ~ReuseIds
    <2>1. msg[c] # None /\ msg[c].rid \in Ids
      BY DEF Progress, Emitting, IsNote, TypeOK, Message
    <2>2. PICK d \in Calls : d = inflight[msg[c].rid]
      BY <2>1 DEF Progress, Live, TypeOK
    <2>3. pc[d] = "running" /\ msg[d].rid = msg[c].rid
      BY <2>1, <2>2 DEF Progress, Live, InflightOwnerRunning
    <2>4. d = c
      BY <1>2, <2>1, <2>3, DispatchAssumption DEF IdsDistinct, TypeOK
    <2>5. QED BY <2>3, <2>4
  <1>3. QED
    BY <1>1, <1>2

LEMMA QueuedProgressStep ==
    ASSUME TypeOK, InflightOwnerRunning, IdsDistinct, QueuedProgressCounted, [Next]_vars
    PROVE  QueuedProgressCounted'
  <1> SUFFICES ASSUME ~(ReuseIds /\ BackgroundProgress)
               PROVE  \A e \in outbound' : e.rid # None =>
                         pc'[e.origin] = "running" /\ count'[e.origin] > 0
                         /\ e.rid = msg'[e.origin].rid
    BY DEF QueuedProgressCounted
  <1>1. \A e \in outbound : e.origin \in Calls /\ (e.rid # None =>
            pc[e.origin] = "running" /\ count[e.origin] > 0 /\ e.rid = msg[e.origin].rid)
    BY DEF QueuedProgressCounted, TypeOK, Entry
  <1>2. ASSUME NEW c \in Calls, NEW m \in Traffic, Begin(c, m), NEW e \in outbound',
               e.rid # None
        PROVE  pc'[e.origin] = "running" /\ count'[e.origin] > 0 /\ e.rid = msg'[e.origin].rid
    BY <1>1, <1>2, BeginFrame DEF queueVars
  <1>3. ASSUME NEW c \in Calls, Register(c), NEW e \in outbound', e.rid # None
        PROVE  pc'[e.origin] = "running" /\ count'[e.origin] > 0 /\ e.rid = msg'[e.origin].rid
    BY <1>1, <1>3 DEF Register, GoTo, TypeOK
  <1>4. ASSUME NEW c \in Calls, Complete(c), NEW e \in outbound', e.rid # None
        PROVE  pc'[e.origin] = "running" /\ count'[e.origin] > 0 /\ e.rid = msg'[e.origin].rid
    <2>1. e \in outbound /\ e.origin # c
      BY <1>1, <1>4 DEF Complete, Purged, IsNote
    <2>2. QED
      BY <1>1, <1>4, <2>1 DEF Complete, GoTo, TypeOK
  <1>5. ASSUME NEW c \in Calls, Thread(c), ~Register(c), ~Complete(c),
               NEW e \in outbound', e.rid # None
        PROVE  pc'[e.origin] = "running" /\ count'[e.origin] > 0 /\ e.rid = msg'[e.origin].rid
    BY <1>1, <1>5, ThreadFrame, OffRegistry DEF TypeOK
  <1>6. ASSUME NEW c \in Calls, Progress(c), NEW e \in outbound', e.rid # None
        PROVE  pc'[e.origin] = "running" /\ count'[e.origin] > 0 /\ e.rid = msg'[e.origin].rid
    <2>1. pc[c] = "running"
      BY <1>6, LiveEmitterRuns
    <2>2. e \in outbound \/ (e.origin = c /\ e.rid = msg[c].rid)
      BY <1>6 DEF Progress
    <2>3. \A d \in Calls : count'[d] >= count[d] /\ count'[c] > 0
      BY <1>6 DEF Progress, TypeOK
    <2>4. QED
      BY <1>1, <1>6, <2>1, <2>2, <2>3 DEF Progress, requestVars, TypeOK
  <1>7. ASSUME Bystander, NEW e \in outbound', e.rid # None
        PROVE  pc'[e.origin] = "running" /\ count'[e.origin] > 0 /\ e.rid = msg'[e.origin].rid
    <2>1. e \in outbound
      BY <1>7 DEF Bystander, Publish, Poll, SocketDrop, SocketSweep, queueVars
    <2>2. QED
      BY <1>1, <1>7, <2>1, BystanderFrame DEF requestVars
  <1>8. ASSUME UNCHANGED vars, NEW e \in outbound', e.rid # None
        PROVE  pc'[e.origin] = "running" /\ count'[e.origin] > 0 /\ e.rid = msg'[e.origin].rid
    BY <1>1, <1>8 DEF vars, requestVars, queueVars
  <1>9. QED
    BY <1>2, <1>3, <1>4, <1>5, <1>6, <1>7, <1>8 DEF Next, Bystander

LEMMA StampsStep ==
    ASSUME TypeOK, StampsBounded, [Next]_vars
    PROVE  StampsBounded'
  <1>1. ASSUME outbound' \subseteq outbound, stamp' = stamp PROVE StampsBounded'
    BY <1>1 DEF StampsBounded
  <1>2. ASSUME NEW c \in Calls, NEW m \in Traffic, Begin(c, m) PROVE StampsBounded'
    BY <1>1, <1>2, BeginFrame DEF queueVars
  <1>3. ASSUME NEW c \in Calls, Thread(c) PROVE StampsBounded'
    BY <1>1, <1>3, ThreadFrame, OffRegistry DEF Register, Complete, Purged
  <1>4. ASSUME NEW c \in Calls, Progress(c) PROVE StampsBounded'
    BY <1>4, DispatchAssumption DEF Progress, StampsBounded, TypeOK
  <1>5. ASSUME NEW topic \in Topics, Publish(topic) PROVE StampsBounded'
    BY <1>5, DispatchAssumption DEF Publish, StampsBounded, TypeOK
  <1>6. ASSUME NEW e \in outbound, Poll(e) PROVE StampsBounded'
    BY <1>1, <1>6 DEF Poll
  <1>7. ASSUME NEW s \in Sessions, SocketDrop(s) \/ SocketSweep(s) PROVE StampsBounded'
    BY <1>1, <1>7 DEF SocketDrop, SocketSweep, queueVars
  <1>8. CASE UNCHANGED vars
    BY <1>1, <1>8 DEF vars, queueVars
  <1>9. QED
    BY <1>2, <1>3, <1>4, <1>5, <1>6, <1>7, <1>8 DEF Next

-----------------------------------------------------------------------------
(* Sessions: nobody gets past the gate before a setup handler said so.     *)

LEMMA SubscribersStep ==
    ASSUME TypeOK, SubscribersDone, [Next]_vars
    PROVE  SubscribersDone'
  <1>1. ASSUME NEW c \in Calls, NEW m \in Traffic, Begin(c, m) PROVE SubscribersDone'
    BY <1>1, BeginFrame DEF SubscribersDone, TypeOK
  <1>2. ASSUME NEW c \in Calls, Thread(c) PROVE SubscribersDone'
    <2>1. \A d \in subs' : d \in subs \/ (d = c /\ pc'[c] = "done")
      <3>1. CASE Quiet(c)
        BY <3>1, QuietExits
      <3>2. CASE ~Quiet(c)
        BY <1>2, <3>2
        DEF Thread, Quiet, Subscribe, Register, Complete, CancelLookup, CancelAct, SetupReturn,
            CloseMark, CloseSweep, AuditAndReturn, TypeOK
      <3>3. QED BY <3>1, <3>2
    <2>2. \A d \in Calls : d # c => pc'[d] = pc[d]
      BY <1>2, ThreadFrame DEF TypeOK
    <2>3. c \notin subs
      BY <1>2, ThreadFrame DEF SubscribersDone
    <2>4. QED
      BY <2>1, <2>2, <2>3 DEF SubscribersDone, TypeOK
  <1>3. ASSUME NEW c \in Calls, Progress(c) PROVE SubscribersDone'
    BY <1>3 DEF Progress, SubscribersDone, requestVars
  <1>4. CASE Bystander
    <2>1. subs' \subseteq subs
      BY <1>4 DEF Bystander, Publish, Poll, SocketDrop, SocketSweep
    <2>2. QED
      BY <1>4, <2>1, BystanderFrame DEF SubscribersDone, requestVars
  <1>5. CASE UNCHANGED vars
    BY <1>5 DEF SubscribersDone, vars, requestVars
  <1>6. QED
    BY <1>1, <1>2, <1>3, <1>4, <1>5 DEF Next, Bystander

\* Only a setup handler establishes a session, and what it did is remembered.
LEMMA EstablishedStep ==
    ASSUME TypeOK, EstablishedBySetup, [Next]_vars
    PROVE  EstablishedBySetup' /\ authenticated \subseteq authenticated'
  <1>1. ASSUME NEW c \in Calls, SetupReturn(c)
        PROVE  EstablishedBySetup' /\ authenticated \subseteq authenticated'
    BY <1>1 DEF SetupReturn, EstablishedBySetup, TypeOK
  <1>2. ASSUME NEW c \in Calls, CloseMark(c)
        PROVE  EstablishedBySetup' /\ authenticated \subseteq authenticated'
    BY <1>2 DEF CloseMark, EstablishedBySetup, TypeOK
  <1>3. ASSUME NEW s \in Sessions, SocketDrop(s)
        PROVE  EstablishedBySetup' /\ authenticated \subseteq authenticated'
    BY <1>3 DEF SocketDrop, EstablishedBySetup, TypeOK
  <1>4. ASSUME NEW c \in Calls, Thread(c), ~SetupReturn(c), ~CloseMark(c)
        PROVE  UNCHANGED <<lifecycle, authenticated>>
    <2>1. CASE Quiet(c)
      BY <2>1, QuietExits DEF sessionVars
    <2>2. CASE ~Quiet(c)
      BY <1>4, <2>2 DEF Thread, Quiet, Subscribe, Register, Complete, CancelLookup,
                        CancelAct, CloseSweep, sessionVars
    <2>3. QED BY <2>1, <2>2
  <1>5. ASSUME NEW c \in Calls, NEW m \in Traffic, Begin(c, m)
        PROVE  UNCHANGED <<lifecycle, authenticated>>
    BY <1>5 DEF Begin, sessionVars
  <1>6. ASSUME NEW c \in Calls, Progress(c) PROVE UNCHANGED <<lifecycle, authenticated>>
    BY <1>6 DEF Progress, sessionVars
  <1>7. ASSUME NEW topic \in Topics, Publish(topic) PROVE UNCHANGED <<lifecycle, authenticated>>
    BY <1>7 DEF Publish, sessionVars
  <1>8. ASSUME NEW e \in outbound, Poll(e) PROVE UNCHANGED <<lifecycle, authenticated>>
    BY <1>8 DEF Poll, sessionVars
  <1>9. ASSUME NEW s \in Sessions, SocketSweep(s) PROVE UNCHANGED <<lifecycle, authenticated>>
    BY <1>9 DEF SocketSweep
  <1>10. UNCHANGED vars => UNCHANGED <<lifecycle, authenticated>>
    BY DEF vars, sessionVars
  <1>11. ASSUME UNCHANGED <<lifecycle, authenticated>>
         PROVE  EstablishedBySetup' /\ authenticated \subseteq authenticated'
    BY <1>11 DEF EstablishedBySetup
  <1>12. QED
    BY <1>1, <1>2, <1>3, <1>4, <1>5, <1>6, <1>7, <1>8, <1>9, <1>10, <1>11 DEF Next

LEMMA GateStep ==
    ASSUME TypeOK, SubscribersDone, EstablishedBySetup, HandlerNeedsAuthentication, [Next]_vars
    PROVE  HandlerNeedsAuthentication'
  <1> SUFFICES ASSUME HasSetup, NEW d \in Calls, Guarded(d)'
               PROVE  Session(d)' \in authenticated'
    BY DEF HandlerNeedsAuthentication
  <1>1. authenticated \subseteq authenticated'
    BY EstablishedStep
  <1>2. ASSUME Guarded(d), msg'[d] = msg[d]
        PROVE  Session(d)' \in authenticated'
    BY <1>1, <1>2 DEF HandlerNeedsAuthentication, Session
  <1>3. ASSUME NEW c \in Calls, NEW m \in Traffic, Begin(c, m)
        PROVE  Session(d)' \in authenticated'
    BY <1>2, <1>3, BeginFrame DEF Guarded, SubscribersDone
  <1>4. ASSUME NEW c \in Calls, Thread(c)
        PROVE  Session(d)' \in authenticated'
    <2>1. msg' = msg /\ (d # c => pc'[d] = pc[d])
      BY <1>4, ThreadFrame DEF TypeOK
    <2>2. CASE Gate(c)
      <3>1. subs' = subs /\ (Guarded(c)' /\ ~Guarded(c) => Open(c))
        BY <2>2, <2>1 DEF Gate, Return, GoTo, Guarded, TypeOK
      <3>2. CASE Guarded(d)
        BY <1>2, <2>1, <3>2
      <3>3. CASE ~Guarded(d)
        <4>1. d = c
          BY <2>1, <3>1, <3>3 DEF Guarded
        <4>2. "pre_auth" \notin msg[c].flags /\ Open(c)
          BY <2>1, <3>1, <3>3, <4>1 DEF Guarded
        <4>3. lifecycle[Session(c)] = "ESTABLISHED" /\ Session(c) \in Sessions
          BY <2>2, <4>2 DEF Open, Gate, TypeOK, Session, Message
        <4>4. QED
          BY <1>1, <2>1, <4>1, <4>3 DEF EstablishedBySetup, Session
      <3>4. QED BY <3>2, <3>3
    <2>3. CASE ~Gate(c)
      <3>1. CASE Quiet(c)
        <4>1. subs' = subs
          BY <3>1, QuietExits
        <4>2. Guarded(c)' => Guarded(c)
          BY <2>1, <2>3, <3>1, <4>1
          DEF Quiet, Authorize, NoHandler, Finish, Negotiate, FailTransfer, RunTransfer,
              CancelAuthorize, SetupGate, CloseGate, ServerInfo,
              GoTo, Return, AuditAndReturn, Guarded, TypeOK
        <4>3. QED
          BY <1>2, <2>1, <4>1, <4>2 DEF Guarded
      <3>2. CASE ~Quiet(c)
        <4>1. Guarded(d)' => Guarded(d)
          BY <1>4, <2>1, <3>2
          DEF Thread, Quiet, Subscribe, Register, Complete, CancelLookup, CancelAct,
              SetupReturn, CloseMark, CloseSweep, GoTo, Return, AuditAndReturn, Guarded, TypeOK
        <4>2. QED
          BY <1>2, <2>1, <4>1
      <3>3. QED BY <3>1, <3>2
    <2>4. QED BY <2>2, <2>3
  <1>5. ASSUME NEW c \in Calls, Progress(c)
        PROVE  Session(d)' \in authenticated'
    BY <1>2, <1>5 DEF Progress, Guarded, requestVars
  <1>6. CASE Bystander
    <2>1. subs' \subseteq subs
      BY <1>6 DEF Bystander, Publish, Poll, SocketDrop, SocketSweep
    <2>2. QED
      BY <1>2, <1>6, <2>1, BystanderFrame DEF Guarded, requestVars
  <1>7. CASE UNCHANGED vars
    BY <1>2, <1>7 DEF Guarded, vars, requestVars
  <1>8. QED
    BY <1>3, <1>4, <1>5, <1>6, <1>7 DEF Next, Bystander

-----------------------------------------------------------------------------
(* Cancellation.                                                           *)

LEMMA CancelStep ==
    ASSUME TypeOK, InflightOwnerRunning, SubscribersDone, CancelAuthorized, [Next]_vars
    PROVE  CancelAuthorized'
  <1>1. ASSUME NEW c \in Calls, NEW m \in Traffic, Begin(c, m) PROVE CancelAuthorized'
    <2>1. found' = found /\ \A d \in Calls : pc[d] # "idle" => msg'[d] = msg[d] /\ d # c
      BY <1>1, BeginFrame DEF cancelVars
    <2>2. \A d \in Calls : found[d] # None => found[d] \in Calls /\ found[d] # c
      BY <2>1, <1>1, BeginFrame DEF CancelAuthorized, TypeOK
    <2>3. QED
      BY <1>1, <2>1, <2>2, BeginFrame DEF CancelAuthorized, MayCancel, Session
  <1>2. ASSUME NEW c \in Calls, Thread(c) PROVE CancelAuthorized'
    <2>1. /\ msg' = msg /\ pc'[c] # "idle"
          /\ \A d \in Calls : d # c => pc'[d] = pc[d]
      BY <1>2, ThreadFrame DEF TypeOK
    <2>2. \A d \in Calls : found'[d] # None => found'[d] \in Calls /\ pc[found'[d]] # "idle"
      <3>1. CASE CancelLookup(c)
        BY <3>1 DEF CancelLookup, Holder, CancelAuthorized, InflightOwnerRunning, SubscribersDone, TypeOK
      <3>2. CASE Quiet(c)
        BY <3>2, QuietExits DEF CancelAuthorized, TypeOK, cancelVars
      <3>3. CASE ~Quiet(c) /\ ~CancelLookup(c)
        BY <1>2, <3>3
        DEF Thread, Quiet, Subscribe, Register, Complete, CancelAct, SetupReturn, CloseMark,
            CloseSweep, CancelAuthorized, TypeOK, cancelVars
      <3>4. QED BY <3>1, <3>2, <3>3
    <2>3. \A d \in Calls : pc'[d] = "cancelAct" => MayCancel(d)'
      <3>1. CASE CancelAuthorize(c)
        BY <2>1, <3>1
        DEF CancelAuthorize, GoTo, AuditAndReturn, CancelAuthorized, MayCancel, Session,
            TypeOK, cancelVars
      <3>2. CASE ~CancelAuthorize(c)
        <4>1. pc'[c] # "cancelAct"
          BY <1>2, <3>2
          DEF Thread, Gate, Authorize, Subscribe, NoHandler, Register, Complete, Finish,
              Negotiate, FailTransfer, RunTransfer, CancelLookup, CancelAct, SetupGate,
              SetupReturn, CloseGate, CloseMark, CloseSweep, ServerInfo,
              GoTo, Return, AuditAndReturn, TypeOK
        <4>2. \A d \in Calls : pc[d] = "cancelAct" /\ d # c => found'[d] = found[d]
          <5>1. CASE Quiet(c)
            BY <5>1, QuietExits DEF cancelVars
          <5>2. CASE ~Quiet(c)
            BY <1>2, <5>2
            DEF Thread, Quiet, Subscribe, Register, Complete, CancelLookup, CancelAct,
                SetupReturn, CloseMark, CloseSweep, TypeOK, cancelVars
          <5>3. QED BY <5>1, <5>2
        <4>3. QED
          BY <2>1, <4>1, <4>2 DEF CancelAuthorized, MayCancel, Session
      <3>3. QED BY <3>1, <3>2
    <2>4. QED
      BY <2>1, <2>2, <2>3 DEF CancelAuthorized
  <1>3. ASSUME NEW c \in Calls, Progress(c) PROVE CancelAuthorized'
    BY <1>3 DEF Progress, CancelAuthorized, MayCancel, Session, requestVars, cancelVars
  <1>4. CASE Bystander
    BY <1>4, BystanderFrame DEF CancelAuthorized, MayCancel, Session, requestVars, cancelVars
  <1>5. CASE UNCHANGED vars
    BY <1>5 DEF CancelAuthorized, MayCancel, Session, vars, requestVars, cancelVars
  <1>6. QED
    BY <1>1, <1>2, <1>3, <1>4, <1>5 DEF Next, Bystander

-----------------------------------------------------------------------------
(* The inductive invariant and what follows from it.                       *)

LEMMA IInvInit == Init => IInv
  BY TypeInit, DispatchAssumption
  DEF Init, IInv, InflightOwnerRunning, IdsDistinct, RunningIsRegistered,
      QueuedProgressCounted, StampsBounded, SubscribersDone, EstablishedBySetup,
      HandlerNeedsAuthentication, Guarded, CancelAuthorized

LEMMA IInvStep == IInv /\ [Next]_vars => IInv'
  BY NextType, RegistryStep, IdsDistinctStep, RunningRegisteredStep, QueuedProgressStep,
     StampsStep, SubscribersStep, EstablishedStep, GateStep, CancelStep
  DEF IInv

\* The conjunction the safety properties rest on holds for every value of the
\* constants: registry, queue, gate and cancellation are consistent together.
THEOREM Inductive == Spec => []IInv
  BY IInvInit, IInvStep, PTL DEF Spec

\* The session gate: whatever order setups, continues, closes and socket drops come
\* in, a method that is not pre_auth runs (and a subscription exists) only for a
\* session some setup handler established.
THEOREM GateHolds == Spec => []HandlerNeedsAuthentication
  <1>1. IInv => HandlerNeedsAuthentication
    BY DEF IInv
  <1>2. QED BY <1>1, Inductive, PTL

\* With unrepeated ids a running handler is always found under its id.
THEOREM RunningFound ==
    ASSUME ~ReuseIds
    PROVE  Spec => []RunningIsRegistered
  <1>1. IInv => RunningIsRegistered
    BY DEF IInv
  <1>2. QED BY <1>1, Inductive, PTL

\* No progress outlives its handler in the queue, unless a client repeats ids and
\* a handler leaves a thread behind that emits progress.
THEOREM NoStaleProgress ==
    ASSUME ~(ReuseIds /\ BackgroundProgress)
    PROVE  Spec => []QueuedProgressIsLive
  <1>1. IInv => QueuedProgressIsLive
    BY DEF IInv, QueuedProgressCounted, QueuedProgressIsLive
  <1>2. QED BY <1>1, Inductive, PTL

\* Late progress is dropped at the source, under the same condition.
THEOREM LateProgressNeverQueued ==
    ASSUME ~(ReuseIds /\ BackgroundProgress)
    PROVE  Spec => LateProgressDropped
  <1> DEFINE Dropped == \A c \in Calls : count'[c] > count[c] => pc[c] = "running"
  <1>1. ASSUME IInv, Next PROVE Dropped
    <2>1. ASSUME count' = count PROVE Dropped
      BY <1>1, <2>1 DEF IInv, TypeOK
    <2>2. ASSUME NEW c \in Calls, Progress(c) PROVE Dropped
      <3>1. pc[c] = "running"
        BY <1>1, <2>2, LiveEmitterRuns DEF IInv
      <3>2. \A d \in Calls : d # c => count'[d] = count[d]
        BY <1>1, <2>2 DEF Progress, IInv, TypeOK
      <3>3. QED
        BY <1>1, <3>1, <3>2 DEF IInv, TypeOK
    <2>3. ASSUME NEW c \in Calls, NEW m \in Traffic, Begin(c, m) PROVE Dropped
      BY <2>1, <2>3 DEF Begin, queueVars
    <2>4. ASSUME NEW c \in Calls, Thread(c) PROVE Dropped
      BY <1>1, <2>1, <2>4, ThreadFrame DEF IInv
    <2>5. CASE Bystander
      BY <2>1, <2>5, BystanderFrame
    <2>6. QED
      BY <1>1, <2>2, <2>3, <2>4, <2>5 DEF Next, Bystander
  <1>2. IInv /\ [Next]_vars => [Dropped]_vars
    BY <1>1
  <1>3. QED
    BY <1>2, Inductive, PTL DEF Spec, LateProgressDropped

\* A cancel only ever ends what its own session (or an admin's) may cancel, even
\* though the authorization is decided between two critical sections.
THEOREM CancelConfined == Spec => CancelStaysInSession
  <1> DEFINE Confined ==
        \A t \in Calls :
          (t \in cancelled' \ cancelled \/ t \in subs \ subs') =>
              \/ \E c \in Calls :
                    /\ pc[c] = "cancelAct" /\ pc'[c] = "done"
                    /\ Session(c) = Session(t) \/ Session(c) \in Admins
              \/ t \in subs /\ socket[Session(t)] = "sweeping"
              \/ t \in subs /\ \E c \in Calls :
                    pc[c] = "sweep" /\ pc'[c] = "done" /\ Session(c) = Session(t)
  <1>1. ASSUME IInv, Next PROVE Confined
    <2>1. ASSUME cancelled' = cancelled, subs \subseteq subs' PROVE Confined
      BY <2>1
    <2>2. ASSUME NEW c \in Calls, CancelAct(c) PROVE Confined
      <3>1. pc[c] = "cancelAct" /\ pc'[c] = "done"
        BY <1>1, <2>2 DEF CancelAct, AuditAndReturn, IInv, TypeOK
      <3>2. MayCancel(c)
        BY <1>1, <3>1 DEF IInv, CancelAuthorized
      <3>3. \A t \in Calls : (t \in cancelled' \ cancelled \/ t \in subs \ subs') =>
                t = found[c]
        BY <2>2 DEF CancelAct, CancelTarget, Signalled
      <3>4. QED
        BY <3>1, <3>2, <3>3 DEF MayCancel
    <2>3. ASSUME NEW c \in Calls, CloseSweep(c) PROVE Confined
      BY <1>1, <2>3 DEF CloseSweep, AuditAndReturn, SubsOf, cancelVars, IInv, TypeOK
    <2>4. ASSUME NEW c \in Calls, Thread(c), ~CancelAct(c), ~CloseSweep(c) PROVE Confined
      <3>1. CASE Quiet(c)
        BY <2>1, <3>1, <1>1, QuietExits DEF cancelVars, IInv
      <3>2. CASE ~Quiet(c)
        BY <2>1, <2>4, <3>2
        DEF Thread, Quiet, Subscribe, Register, Complete, CancelLookup, SetupReturn,
            CloseMark, cancelVars
      <3>3. QED BY <3>1, <3>2
    <2>5. ASSUME NEW c \in Calls, NEW m \in Traffic, Begin(c, m) PROVE Confined
      BY <2>1, <2>5 DEF Begin, cancelVars
    <2>6. ASSUME NEW c \in Calls, Progress(c) PROVE Confined
      BY <2>1, <2>6 DEF Progress, cancelVars
    <2>7. ASSUME NEW topic \in Topics, Publish(topic) PROVE Confined
      BY <2>1, <2>7 DEF Publish, cancelVars
    <2>8. ASSUME NEW e \in outbound, Poll(e) PROVE Confined
      BY <2>1, <2>8 DEF Poll, cancelVars
    <2>9. ASSUME NEW s \in Sessions, SocketDrop(s) PROVE Confined
      BY <2>1, <2>9 DEF SocketDrop, cancelVars
    <2>10. ASSUME NEW s \in Sessions, SocketSweep(s) PROVE Confined
      BY <2>10 DEF SocketSweep, SubsOf, cancelVars
    <2>11. QED
      BY <1>1, <2>2, <2>3, <2>4, <2>5, <2>6, <2>7, <2>8, <2>9, <2>10 DEF Next
  <1>2. IInv /\ [Next]_vars => [Confined]_vars
    BY <1>1
  <1>3. QED
    BY <1>2, Inductive, PTL DEF Spec, CancelStaysInSession

\* Every exit of dispatch() past the gate audits exactly once; no other step audits.
THEOREM AuditedOnce == Spec => AuditedExactlyOnce
  <1> DEFINE Audited ==
        \A c \in Calls :
          audits'[c] = audits[c] +
              IF PastGate(c) /\ pc'[c] = "done" /\ IsAudited(msg[c]) THEN 1 ELSE 0
  <1>1. ASSUME TypeOK, Next PROVE Audited
    <2>1. ASSUME audits' = audits, pc' = pc PROVE Audited
      BY <1>1, <2>1 DEF PastGate, TypeOK
    <2>2. ASSUME NEW c \in Calls, NEW m \in Traffic, Begin(c, m) PROVE Audited
      BY <1>1, <2>2, BeginFrame DEF PastGate, TypeOK
    <2>3. ASSUME NEW c \in Calls, AuditAndReturn(c, "RESULT") \/ AuditAndReturn(c, "ERROR")
                   \/ (\E r \in Replies : AuditAndReturn(c, r)), PastGate(c)
          PROVE  Audited
      BY <1>1, <2>3 DEF AuditAndReturn, PastGate, TypeOK, Replies
    <2>4. ASSUME NEW c \in Calls, NEW stage \in Stages \ {"done"}, GoTo(c, stage)
          PROVE  Audited
      BY <1>1, <2>4 DEF GoTo, PastGate, TypeOK
    <2>5. ASSUME NEW c \in Calls, NEW r \in Replies, Return(c, r), pc[c] = "gate"
          PROVE  Audited
      BY <1>1, <2>5 DEF Return, PastGate, TypeOK
    <2>6. ASSUME NEW c \in Calls, Thread(c) PROVE Audited
      <3>1. CASE pc[c] = "gate"
        BY <2>4, <2>5, <2>6, <3>1
        DEF Thread, Gate, CancelLookup, SetupGate, CloseGate, ServerInfo, Authorize, Subscribe,
            NoHandler, Register, Complete, Finish, Negotiate, RunTransfer, CancelAuthorize,
            CancelAct, SetupReturn, CloseMark, CloseSweep, Wire, Stages, Replies
      <3>2. CASE pc[c] # "gate"
        <4>1. PastGate(c)
          BY <1>1, <2>6, <3>2, ThreadFrame DEF PastGate
        <4>2. QED
          BY <2>3, <2>4, <2>6, <3>2, <4>1
          DEF Thread, Gate, CancelLookup, SetupGate, CloseGate, ServerInfo, Authorize,
              Subscribe, NoHandler, Register, Complete, Finish, Negotiate, FailTransfer,
              RunTransfer, CancelAuthorize, CancelAct, SetupReturn, CloseMark, CloseSweep,
              Wire, Stages, Replies
      <3>3. QED BY <3>1, <3>2
    <2>7. ASSUME NEW c \in Calls, Progress(c) PROVE Audited
      BY <2>1, <2>7 DEF Progress, requestVars
    <2>8. CASE Bystander
      BY <2>1, <2>8, BystanderFrame DEF requestVars
    <2>9. QED
      BY <1>1, <2>2, <2>6, <2>7, <2>8 DEF Next, Bystander
  <1>2. TypeOK /\ [Next]_vars => [Audited]_vars
    BY <1>1
  <1>3. QED
    BY <1>2, TypeCorrect, PTL DEF Spec, AuditedExactlyOnce

\* A closed session with no setup handler still running stays closed for good and
\* admits no setup step, whatever else happens to it.
THEOREM ClosedStaysClosed == Spec => ClosedIsFinalWithoutSetup
  <1> DEFINE Final ==
        \A s \in Sessions :
          lifecycle[s] = "CLOSED" /\ ~SetupPending(s) =>
              lifecycle'[s] = "CLOSED" /\ ~SetupPending(s)'
  <1>1. ASSUME TypeOK, Next, NEW s \in Sessions, lifecycle[s] = "CLOSED", ~SetupPending(s)
        PROVE  lifecycle'[s] = "CLOSED" /\ ~SetupPending(s)'
    <2> DEFINE Goal == lifecycle'[s] = "CLOSED" /\ ~SetupPending(s)'
    <2>1. ASSUME NEW c \in Calls, NEW m \in Traffic, Begin(c, m) PROVE Goal
      BY <1>1, <2>1, BeginFrame DEF SetupPending, Session, sessionVars
    <2>2. ASSUME NEW c \in Calls, Thread(c) PROVE Goal
      <3>1. msg' = msg /\ \A d \in Calls : d # c => pc'[d] = pc[d]
        BY <1>1, <2>2, ThreadFrame DEF TypeOK
      <3>2. pc'[c] = "setup" => Session(c) # s
        BY <1>1, <2>2
        DEF Thread, Gate, Authorize, Subscribe, NoHandler, Register, Complete, Finish,
            Negotiate, FailTransfer, RunTransfer, CancelLookup, CancelAuthorize, CancelAct,
            SetupGate, SetupDue, SetupReturn, CloseGate, CloseMark, CloseSweep, ServerInfo,
            GoTo, Return, AuditAndReturn, TypeOK
      <3>3. ~SetupPending(s)'
        BY <1>1, <3>1, <3>2 DEF SetupPending, Session
      <3>4. lifecycle'[s] = "CLOSED"
        <4>1. CASE Quiet(c)
          BY <1>1, <4>1, QuietExits DEF sessionVars
        <4>2. CASE ~Quiet(c)
          BY <1>1, <2>2, <4>2
          DEF Thread, Quiet, Subscribe, Register, Complete, CancelLookup, CancelAct,
              SetupReturn, CloseMark, CloseSweep, SetupPending, sessionVars, TypeOK
        <4>3. QED BY <4>1, <4>2
      <3>5. QED BY <3>3, <3>4
    <2>3. ASSUME NEW c \in Calls, Progress(c) PROVE Goal
      BY <1>1, <2>3 DEF Progress, SetupPending, Session, requestVars, sessionVars
    <2>4. CASE Bystander
      <3>1. lifecycle'[s] = "CLOSED"
        BY <1>1, <2>4
        DEF Bystander, Publish, Poll, SocketDrop, SocketSweep, sessionVars, TypeOK
      <3>2. QED
        BY <1>1, <2>4, <3>1, BystanderFrame DEF SetupPending, Session, requestVars
    <2>5. QED
      BY <1>1, <2>1, <2>2, <2>3, <2>4 DEF Next, Bystander
  <1>2. TypeOK /\ [Next]_vars => [Final]_vars
    BY <1>1
  <1>3. QED
    BY <1>2, TypeCorrect, PTL DEF Spec, ClosedIsFinalWithoutSetup

-----------------------------------------------------------------------------
(* The outbound queue is the channel of ProgressChannel.                   *)

\* The scan by id, skipped when the counter is zero, removes exactly what the
\* request itself emitted.
LEMMA PurgedIsOwn ==
    ASSUME IInv, ~ReuseIds, NEW c \in Calls, pc[c] = "running"
    PROVE  Purged(c) = {e \in outbound : e.rid # None => e.origin # c}
  <1>1. \A e \in outbound : e.origin \in Calls /\ (e.rid # None =>
            pc[e.origin] = "running" /\ count[e.origin] > 0 /\ e.rid = msg[e.origin].rid)
    BY DEF IInv, QueuedProgressCounted, TypeOK, Entry
  <1>2. \A d \in Calls : pc[d] = "running" => msg[d] # None
    BY DEF IInv, TypeOK
  <1>3. \A d \in Calls : pc[d] = "running" /\ msg[d].rid # None /\ msg[d].rid = msg[c].rid
            => d = c
    BY <1>2 DEF IInv, IdsDistinct
  <1>4. ASSUME NEW e \in outbound
        PROVE  e \in Purged(c) <=> (e.rid # None => e.origin # c)
    <2>1. CASE e.rid = None
      BY <2>1 DEF Purged, IsNote
    <2>2. CASE e.rid # None /\ e.origin = c
      <3>1. msg[c].rid = e.rid /\ count[c] > 0
        BY <1>1, <2>2
      <3>2. QED
        BY <2>2, <3>1 DEF Purged, IsNote
    <2>3. CASE e.rid # None /\ e.origin # c
      <3>1. msg[c].rid # e.rid
        BY <1>1, <1>3, <2>3
      <3>2. QED
        BY <2>3, <3>1 DEF Purged
    <2>4. QED BY <2>1, <2>2, <2>3
  <1>5. Purged(c) \subseteq outbound
    BY DEF Purged
  <1>6. QED BY <1>4, <1>5

\* A completion takes away the progress of the request that completes, and no other
\* entry leaves the queue but by the drain, oldest first.
THEOREM PurgeConfined ==
    ASSUME ~ReuseIds
    PROVE  Spec => OnlyOwnProgressPurged
  <1> DEFINE Own ==
        \A e \in outbound \ outbound' :
          \/ pc' = pc /\ Oldest(e)
          \/ e.rid # None /\ pc[e.origin] = "running" /\ pc'[e.origin] = "returned"
  <1>1. ASSUME IInv, Next PROVE Own
    <2>1. ASSUME outbound \subseteq outbound' PROVE Own
      BY <2>1
    <2>2. ASSUME NEW c \in Calls, Complete(c) PROVE Own
      <3>1. pc[c] = "running" /\ pc'[c] = "returned" /\ outbound' = Purged(c)
        BY <1>1, <2>2 DEF Complete, GoTo, IInv, TypeOK
      <3>2. QED
        BY <1>1, <3>1, PurgedIsOwn
    <2>3. ASSUME NEW c \in Calls, Thread(c), ~Complete(c) PROVE Own
      BY <1>1, <2>1, <2>3, OffRegistry DEF Register, IInv
    <2>4. ASSUME NEW c \in Calls, NEW m \in Traffic, Begin(c, m) PROVE Own
      BY <2>1, <2>4 DEF Begin, queueVars
    <2>5. ASSUME NEW c \in Calls, Progress(c) PROVE Own
      BY <2>1, <2>5 DEF Progress
    <2>6. ASSUME NEW topic \in Topics, Publish(topic) PROVE Own
      BY <2>1, <2>6 DEF Publish
    <2>7. ASSUME NEW e \in outbound, Poll(e) PROVE Own
      BY <2>7 DEF Poll, requestVars
    <2>8. ASSUME NEW s \in Sessions, SocketDrop(s) \/ SocketSweep(s) PROVE Own
      BY <2>1, <2>8 DEF SocketDrop, SocketSweep, queueVars
    <2>9. QED
      BY <1>1, <2>2, <2>3, <2>4, <2>5, <2>6, <2>7, <2>8 DEF Next
  <1>2. IInv /\ [Next]_vars => [Own]_vars
    BY <1>1
  <1>3. QED
    BY <1>2, Inductive, PTL DEF Spec, OnlyOwnProgressPurged

\* For clients that do not repeat ids, registry, counter and scan implement the
\* abstract channel: step by step, every step of Dispatch is a step of it or leaves
\* it alone.
THEOREM ChannelImplemented ==
    ASSUME ~ReuseIds
    PROVE  Spec => ImplementsChannel
  <1>1. Init => Channel!Init
    BY DEF Init, Channel!Init, Phase
  <1>2. ASSUME IInv, [Next]_vars PROVE [Channel!Next]_(Channel!vars)
    <2>1. ASSUME \A c \in Calls : Phase(c)' = Phase(c), outbound' = outbound
          PROVE  UNCHANGED Channel!vars
      BY <2>1 DEF Channel!vars
    <2>2. ASSUME NEW c \in Calls, Phase(c) = "pending", Phase(c)' = "over",
                 \A d \in Calls : d # c => Phase(d)' = Phase(d), outbound' = outbound
          PROVE  Channel!Next
      BY <2>2 DEF Channel!Next, Channel!Refuse, Channel!Move
    <2>3. ASSUME NEW c \in Calls, NEW m \in Traffic, Begin(c, m)
          PROVE  [Channel!Next]_(Channel!vars)
      <3>1. /\ outbound' = outbound /\ Phase(c) = "pending"
            /\ Phase(c)' \in {"pending", "over"}
            /\ \A d \in Calls : d # c => Phase(d)' = Phase(d)
        BY <1>2, <2>3, BeginFrame DEF Phase, IInv, queueVars
      <3>2. QED
        BY <2>1, <2>2, <3>1
    <2>4. ASSUME NEW c \in Calls, Register(c)
          PROVE  Channel!Next
      <3>1. /\ outbound' = outbound /\ Phase(c) = "pending" /\ Phase(c)' = "running"
            /\ \A d \in Calls : d # c => Phase(d)' = Phase(d)
        BY <1>2, <2>4 DEF Register, GoTo, Phase, IInv, TypeOK
      <3>2. QED
        BY <3>1 DEF Channel!Next, Channel!Start, Channel!Move
    <2>5. ASSUME NEW c \in Calls, Complete(c)
          PROVE  Channel!Next
      <3>1. /\ Phase(c) = "running" /\ Phase(c)' = "over"
            /\ \A d \in Calls : d # c => Phase(d)' = Phase(d)
        BY <1>2, <2>5 DEF Complete, GoTo, Phase, IInv, TypeOK
      <3>2. outbound' = {e \in outbound : e.rid # None => e.origin # c}
        BY <1>2, <2>5, PurgedIsOwn DEF Complete
      <3>3. QED
        BY <3>1, <3>2 DEF Channel!Next, Channel!End, Channel!Move
    <2>6. ASSUME NEW c \in Calls, Thread(c), ~Register(c), ~Complete(c)
          PROVE  [Channel!Next]_(Channel!vars)
      <3>1. /\ outbound' = outbound /\ pc[c] # "running" /\ pc'[c] # "running"
            /\ \A d \in Calls : d # c => pc'[d] = pc[d]
        BY <1>2, <2>6, OffRegistry, ThreadFrame DEF IInv, TypeOK
      <3>2. pc[c] = "returned" => pc'[c] = "done"
        BY <1>2, <2>6
        DEF Thread, Gate, Authorize, Subscribe, NoHandler, Finish, Negotiate, RunTransfer,
            CancelLookup, CancelAuthorize, CancelAct, SetupGate, SetupReturn, CloseGate,
            CloseMark, CloseSweep, ServerInfo, AuditAndReturn, IInv, TypeOK
      <3>3. pc[c] # "done"
        BY <1>2, <2>6, ThreadFrame DEF IInv
      <3>4. CASE pc[c] = "returned"
        BY <2>1, <3>1, <3>2, <3>4 DEF Phase
      <3>5. CASE pc[c] # "returned"
        <4>1. Phase(c) = "pending" /\ Phase(c)' \in {"pending", "over"}
          BY <3>1, <3>3, <3>5 DEF Phase
        <4>2. \A d \in Calls : d # c => Phase(d)' = Phase(d)
          BY <3>1 DEF Phase
        <4>3. QED
          BY <2>1, <2>2, <3>1, <4>1, <4>2
      <3>6. QED BY <3>4, <3>5
    <2>7. ASSUME NEW c \in Calls, Progress(c)
          PROVE  Channel!Next
      <3>1. pc' = pc /\ pc[c] = "running"
        BY <1>2, <2>7, LiveEmitterRuns DEF IInv, Progress, requestVars
      <3>2. msg[c].rid \in Ids
        BY <1>2, <2>7, <3>1 DEF Progress, IsNote, IInv, TypeOK, Message
      <3>3. /\ stamp + 1 \in 1..MaxOutbound /\ Channel!Newest(stamp + 1)
        BY <1>2, <2>7, DispatchAssumption DEF Progress, Channel!Newest, IInv, StampsBounded
      <3>4. /\ Phase(c) = "running" /\ \A d \in Calls : Phase(d)' = Phase(d)
            /\ outbound' = outbound \cup
                   {[stamp |-> stamp + 1, rid |-> msg[c].rid, origin |-> c]}
        BY <2>7, <3>1 DEF Progress, Phase
      <3>5. Channel!Emit(c)
        BY <3>2, <3>3, <3>4 DEF Channel!Emit
      <3>6. QED
        BY <3>5 DEF Channel!Next
    <2>8. ASSUME NEW topic \in Topics, Publish(topic)
          PROVE  Channel!Next
      <3> DEFINE audience == {d \in subs : msg[d].target = topic}
      <3>1. stamp + 1 \in 1..MaxOutbound /\ Channel!Newest(stamp + 1)
        BY <1>2, <2>8, DispatchAssumption DEF Publish, Channel!Newest, IInv, StampsBounded
      <3>2. /\ \A d \in Calls : Phase(d)' = Phase(d)
            /\ audience \in SUBSET Calls
            /\ outbound' = outbound \cup
                   {[stamp |-> stamp + 1, rid |-> None, origin |-> d] : d \in audience}
        BY <1>2, <2>8 DEF Publish, Phase, requestVars, IInv, TypeOK
      <3>3. Channel!Announce(audience)
        BY <3>1, <3>2 DEF Channel!Announce
      <3>4. QED
        BY <3>2, <3>3 DEF Channel!Next
    <2>9. ASSUME NEW e \in outbound, Poll(e)
          PROVE  Channel!Next
      <3>1. /\ \A d \in Calls : Phase(d)' = Phase(d)
            /\ \A f \in outbound : e.stamp <= f.stamp
            /\ outbound' = outbound \ {e}
        BY <2>9 DEF Poll, Oldest, Phase, requestVars
      <3>2. Channel!Deliver(e)
        BY <3>1 DEF Channel!Deliver
      <3>3. QED
        BY <3>2 DEF Channel!Next
    <2>10. ASSUME NEW s \in Sessions, SocketDrop(s) \/ SocketSweep(s)
           PROVE  UNCHANGED Channel!vars
      BY <2>1, <2>10 DEF SocketDrop, SocketSweep, Phase, requestVars, queueVars
    <2>11. CASE UNCHANGED vars
      BY <2>1, <2>11 DEF vars, Phase, requestVars, queueVars
    <2>12. QED
      BY <1>2, <2>3, <2>4, <2>5, <2>6, <2>7, <2>8, <2>9, <2>10, <2>11 DEF Next
  <1>3. QED
    BY <1>1, <1>2, Inductive, PTL DEF Spec, ImplementsChannel, Channel!Spec

-----------------------------------------------------------------------------
(* What an accepted cancel has done.                                       *)

CancelStages == {"gate", "cancelAuth", "cancelAct", "done"}

\* c was answered with a result.
Accepted(c) == pc[c] = "done" /\ msg[c].kind = "cancel" /\ reply[c] = "RESULT"

\* The target of c has ended, or has nothing left to wait for.
Ends(t) ==
    /\ t \notin subs
    /\ pc[t] \in {"running", "returned", "done"}
    /\ pc[t] = "running" => MayReturn(t)

CancelReaches == \A c \in Calls : Accepted(c) => found[c] # None /\ Ends(found[c])

\* Only handlers of calls run, only subscribes are subscriptions.
KindsInPlace ==
    \A c \in Calls :
        /\ pc[c] = "running" => msg[c].kind = "call"
        /\ c \in subs => msg[c].kind = "subscribe"
        /\ pc[c] # "idle" /\ msg[c].kind = "cancel" => pc[c] \in CancelStages

\* What a cancel finds has started, and a subscription it finds is not made again.
TargetsStarted ==
    \A c \in Calls : found[c] # None =>
        /\ pc[found[c]] \in {"running", "returned", "done"}
        /\ msg[found[c]].kind = "subscribe" => pc[found[c]] = "done"

\* Its object was signalled, whoever holds the id by now.
TargetsSignalled ==
    \A c \in Calls : Accepted(c) =>
        /\ found[c] # None /\ found[c] \notin subs
        /\ msg[found[c]].kind # "subscribe" => found[c] \in cancelled

ReachInv == IInv /\ KindsInPlace /\ TargetsStarted /\ TargetsSignalled

LEMMA ReachInit == Init => ReachInv
  <1>1. Init => IInv
    BY IInvInit
  <1>2. QED
    BY <1>1, DispatchAssumption
    DEF Init, ReachInv, KindsInPlace, TargetsStarted, TargetsSignalled, Accepted

\* What the steps of a thread have in common as far as cancels go.
LEMMA ThreadCancel ==
    ASSUME TypeOK, NEW c \in Calls, Thread(c)
    PROVE  /\ \A d \in Calls : d # c => reply'[d] = reply[d] /\ found'[d] = found[d]
           /\ ~CancelLookup(c) => found' = found
           /\ \A d \in subs' : d \in subs \/ (d = c /\ msg[c].kind = "subscribe")
           /\ cancelled \subseteq cancelled'
  <1>1. CASE Quiet(c)
    BY <1>1, QuietExits DEF GoTo, Return, AuditAndReturn, cancelVars, TypeOK
  <1>2. CASE Subscribe(c)
    BY <1>2 DEF Subscribe, AuditAndReturn, cancelVars, TypeOK
  <1>3. CASE Register(c) \/ Complete(c) \/ CancelLookup(c)
    BY <1>3 DEF Register, Complete, CancelLookup, GoTo, Return, cancelVars, TypeOK
  <1>4. CASE CancelAct(c)
    BY <1>4 DEF CancelAct, Signalled, AuditAndReturn, TypeOK
  <1>5. CASE SetupReturn(c) \/ CloseMark(c) \/ CloseSweep(c)
    BY <1>5 DEF SetupReturn, CloseMark, CloseSweep, GoTo, AuditAndReturn, cancelVars, TypeOK
  <1>6. QED
    BY <1>1, <1>2, <1>3, <1>4, <1>5 DEF Thread, Quiet

\* A cancel goes through its own stages, and only the last answers with a result.
LEMMA CancelFlow ==
    ASSUME TypeOK, NEW c \in Calls, Thread(c)
    PROVE  /\ pc'[c] = "running" => msg[c].kind = "call" \/ pc[c] = "running"
           /\ msg[c].kind = "cancel" /\ pc[c] \in CancelStages =>
                /\ pc'[c] \in CancelStages
                /\ pc'[c] = "done" /\ reply'[c] = "RESULT" => CancelAct(c)
  <1>1. ASSUME pc'[c] = "running" PROVE msg[c].kind = "call" \/ pc[c] = "running"
    <2>1. Register(c) \/ Complete(c)
      BY <1>1, OffRegistry
    <2>2. QED
      BY <2>1 DEF Register, Complete
  <1>2. ASSUME msg[c].kind = "cancel", pc[c] \in CancelStages
        PROVE  CancelLookup(c) \/ CancelAuthorize(c) \/ CancelAct(c)
    BY <1>2
    DEF Thread, Gate, Authorize, Subscribe, NoHandler, Register, Complete, Finish, Negotiate,
        RunTransfer, SetupGate, SetupReturn, CloseGate, CloseMark, CloseSweep, ServerInfo,
        CancelStages
  <1>3. CASE CancelLookup(c)
    BY <1>1, <1>3 DEF CancelLookup, GoTo, Return, CancelStages, TypeOK
  <1>4. CASE CancelAuthorize(c)
    BY <1>1, <1>4 DEF CancelAuthorize, GoTo, AuditAndReturn, CancelStages, TypeOK
  <1>5. CASE CancelAct(c)
    BY <1>1, <1>5 DEF CancelAct, AuditAndReturn, CancelStages, TypeOK
  <1>6. QED
    BY <1>1, <1>2, <1>3, <1>4, <1>5

\* Steps that no thread of a request takes.
LEMMA OthersCancel ==
    ASSUME (\E c \in Calls : Progress(c)) \/ Bystander \/ UNCHANGED vars
    PROVE  UNCHANGED <<msg, pc, reply, cancelled, found>> /\ subs' \subseteq subs
  <1>1. CASE (\E c \in Calls : Progress(c)) \/ UNCHANGED vars
    BY <1>1 DEF Progress, vars, requestVars, cancelVars
  <1>2. CASE Bystander
    <2>1. subs' \subseteq subs
      BY <1>2 DEF Bystander, Publish, Poll, SocketDrop, SocketSweep
    <2>2. QED
      BY <1>2, <2>1, BystanderFrame DEF requestVars, cancelVars
  <1>3. QED
    BY <1>1, <1>2

LEMMA ReachBegin ==
    ASSUME ReachInv, NEW c \in Calls, NEW m \in Traffic, Begin(c, m)
    PROVE  KindsInPlace' /\ TargetsStarted' /\ TargetsSignalled'
  <1> USE DEF ReachInv, IInv, TypeOK
  <1>1. /\ pc[c] = "idle" /\ pc'[c] \in {"gate", "done"}
        /\ UNCHANGED <<cancelled, found, subs>>
        /\ \A d \in Calls : d # c => pc'[d] = pc[d] /\ msg'[d] = msg[d]
    BY BeginFrame DEF cancelVars
  <1>2. /\ \A d \in Calls : d # c => reply'[d] = reply[d]
        /\ pc'[c] = "done" => reply'[c] # "RESULT"
    BY <1>1 DEF Begin
  <1>3. c \notin subs /\ \A d \in Calls : found[d] # None => found[d] \in Calls \ {c}
    BY <1>1 DEF SubscribersDone, TargetsStarted
  <1>4. KindsInPlace'
    BY <1>1, <1>3 DEF KindsInPlace, CancelStages
  <1>5. TargetsStarted'
    BY <1>1, <1>3 DEF TargetsStarted
  <1>6. TargetsSignalled'
    BY <1>1, <1>2, <1>3 DEF TargetsSignalled, Accepted
  <1>7. QED
    BY <1>4, <1>5, <1>6

\* The lookup finds a handler that runs, or a subscription that was made.
LEMMA LookupFinds ==
    ASSUME ReachInv, NEW c \in Calls, CancelLookup(c), found'[c] # None, found'[c] # found[c]
    PROVE  /\ found'[c] \in Calls \ {c}
           /\ \/ pc[found'[c]] = "running" /\ msg[found'[c]].kind = "call"
              \/ pc[found'[c]] = "done"
  <1> USE DEF ReachInv, IInv, TypeOK
  <1>1. found'[c] = Holder(msg[c].target) /\ pc[c] = "gate"
    BY DEF CancelLookup
  <1>2. CASE msg[c].target \in Ids /\ inflight[msg[c].target] # None
    BY <1>1, <1>2 DEF Holder, InflightOwnerRunning, KindsInPlace
  <1>3. CASE msg[c].target \in subs
    BY <1>1, <1>2, <1>3 DEF Holder, SubscribersDone
  <1>4. QED
    BY <1>1, <1>2, <1>3 DEF Holder

LEMMA ReachThread ==
    ASSUME ReachInv, NEW c \in Calls, Thread(c)
    PROVE  KindsInPlace' /\ TargetsStarted' /\ TargetsSignalled'
  <1> USE DEF ReachInv, IInv
  <1>1. /\ pc[c] \notin {"idle", "done"} /\ msg' = msg
        /\ \A d \in Calls : d # c => pc'[d] = pc[d]
    BY ThreadFrame DEF TypeOK
  <1>2. pc[c] \in {"running", "returned"} => pc'[c] \in {"running", "returned", "done"}
    BY DEF Thread, Gate, Authorize, Subscribe, NoHandler, Register, Complete, Finish, Negotiate,
           RunTransfer, CancelLookup, CancelAuthorize, CancelAct, SetupGate, SetupReturn,
           CloseGate, CloseMark, CloseSweep, ServerInfo, GoTo, AuditAndReturn, TypeOK
  <1>3. KindsInPlace'
    BY <1>1, ThreadCancel, CancelFlow DEF KindsInPlace, TypeOK
  <1>4. TargetsStarted'
    <2> SUFFICES ASSUME NEW d \in Calls, found'[d] # None
                 PROVE  /\ pc'[found'[d]] \in {"running", "returned", "done"}
                        /\ msg[found'[d]].kind = "subscribe" => pc'[found'[d]] = "done"
      BY <1>1 DEF TargetsStarted
    <2>1. CASE found'[d] = found[d]
      BY <1>1, <1>2, <2>1 DEF TargetsStarted, TypeOK
    <2>2. CASE found'[d] # found[d]
      <3>1. d = c /\ CancelLookup(c)
        BY <2>2, ThreadCancel
      <3>2. QED
        BY <1>1, <2>2, <3>1, LookupFinds
    <2>3. QED
      BY <2>1, <2>2
  <1>5. TargetsSignalled'
    <2> SUFFICES ASSUME NEW d \in Calls, Accepted(d)'
                 PROVE  /\ found'[d] # None /\ found'[d] \notin subs'
                        /\ msg[found'[d]].kind # "subscribe" => found'[d] \in cancelled'
      BY <1>1 DEF TargetsSignalled
    <2>1. CASE d = c
      <3>1. CancelAct(c)
        BY <1>1, <2>1, CancelFlow DEF Accepted, KindsInPlace
      <3>2. reply'[c] = "RESULT" /\ found' = found
        BY <2>1, <3>1 DEF Accepted, CancelAct
      <3>3. QED
        BY <2>1, <3>1, <3>2
        DEF CancelAct, CancelTarget, Signalled, AuditAndReturn, KindsInPlace, TypeOK
    <2>2. CASE d # c
      <3>1. Accepted(d) /\ found'[d] = found[d]
        BY <1>1, <2>2, ThreadCancel DEF Accepted
      <3>2. /\ found[d] # None /\ found[d] \notin subs
            /\ msg[found[d]].kind # "subscribe" => found[d] \in cancelled
        BY <3>1 DEF TargetsSignalled
      <3>3. ~ (found[d] = c /\ msg[c].kind = "subscribe")
        BY <1>1, <3>2 DEF TargetsStarted
      <3>4. QED
        BY <3>1, <3>2, <3>3, ThreadCancel
    <2>3. QED
      BY <2>1, <2>2
  <1>6. QED
    BY <1>3, <1>4, <1>5

LEMMA ReachStep == ReachInv /\ [Next]_vars => ReachInv'
  <1> SUFFICES ASSUME ReachInv, [Next]_vars PROVE ReachInv'
    OBVIOUS
  <1>1. IInv'
    BY IInvStep DEF ReachInv
  <1>2. CASE (\E c \in Calls : Progress(c)) \/ Bystander \/ UNCHANGED vars
    <2>1. UNCHANGED <<msg, pc, reply, cancelled, found>> /\ subs' \subseteq subs
      BY <1>2, OthersCancel
    <2>2. QED
      BY <1>1, <2>1
      DEF ReachInv, KindsInPlace, TargetsStarted, TargetsSignalled, Accepted
  <1>3. ASSUME \/ \E c \in Calls, m \in Traffic : Begin(c, m)
               \/ \E c \in Calls : Thread(c)
        PROVE  ReachInv'
    BY <1>1, <1>3, ReachBegin, ReachThread DEF ReachInv
  <1>4. QED
    BY <1>2, <1>3 DEF Next, Bystander

\* A $/cancelRequest that was answered with a result has reached the very request it looked
\* up: its subscription is gone for good, or its handler has ended or may return at once, even
\* when the lookup, the authorization and the signal were three critical sections
\* and another request has taken over the id meanwhile.
THEOREM CancelsReach == Spec => []CancelReaches
  <1>1. ReachInv => CancelReaches
    BY DEF ReachInv, CancelReaches, Ends, TargetsStarted, TargetsSignalled, KindsInPlace, MayReturn,
           IInv, TypeOK
  <1>2. Spec => []ReachInv
    BY ReachInit, ReachStep, PTL DEF Spec
  <1>3. QED
    BY <1>1, <1>2, PTL

=============================================================================
