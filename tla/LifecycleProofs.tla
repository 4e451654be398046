--------------------------- MODULE LifecycleProofs ---------------------------
(***************************************************************************)
(* What Lifecycle promises, proved for any number of connections and       *)
(* tasks, any transports and each of the three versions of asyncio.        *)
(*                                                                         *)
(* The argument for the end of aclose(): whatever is still open after a    *)
(* stop has a task that will get to it, one that is in start(), serves, or *)
(* runs an aclose() that is not yet past that transport.                   *)
(***************************************************************************)
EXTENDS Lifecycle, TLAPS

\* Nobody has stopped the server, or a task in one of these stages will.
Pending(stages) == stranded \/ ~stop \/ \E t \in Tasks : at[t] \in stages

Early == {"binding", "up"}

\* A listener is in its list, or start() is about to put it there.
ListenersKept ==
    ~stranded => \A k \in listening \ kept : k \notin bound /\ \E t \in Tasks : at[t] = "binding"

StopsAreSeen == \A t \in Tasks : at[t] \in {"waitServers", "waitWs", "gather", "closed"} => stop

\* How far an aclose() gets before it closes a listener, and before it forgets it.
ListenersPending ==
    \A k \in listening \cap kept :
        /\ k \in Streams => Pending(Early)
        /\ k = "ws" => Pending(Early \cup {"waitServers"})
        /\ k = "ktls" => Pending(Early \cup {"waitServers", "waitWs"})

KeptPending ==
    \A k \in kept :
        /\ k \in Streams => Pending(Early \cup {"waitServers"})
        /\ k \notin Streams => Pending(Early \cup {"waitServers", "waitWs"})

\* A connection that is alive belongs to a transport not yet forgotten, or is waited for.
ConnsPending ==
    \A c \in Conns :
        /\ Kind[c] \in Streams /\ Python >= 312 /\ fd[c] \notin {"none", "closed"}
              => stranded \/ Kind[c] \in kept \cup listening
        /\ Kind[c] = "ws" /\ task[c] \notin {"none", "ended"}
              => stranded \/ Kind[c] \in kept \cup listening
        /\ Kind[c] = "ktls" /\ task[c] \notin {"none", "ended"}
              => Kind[c] \in kept \/ \E t \in Tasks : at[t] = "gather" /\ c \in waits[t]

AcceptorKept == accepting = "waiting" => "ktls" \in kept

CloseInv ==
    /\ ListenersKept /\ StopsAreSeen /\ ListenersPending /\ KeptPending /\ ConnsPending
    /\ AcceptorKept

\* What a connection's task, hand-shake, descriptor and writer say of one another.
ConnOK(c) ==
    /\ task[c] = "none" => job[c] = "none" /\ fd[c] = "none"
    /\ task[c] = "handshaking" => job[c] \notin {"none", "cancelled"}
    /\ job[c] = "failed" => fd[c] # "open"
    /\ Kind[c] # "ktls" => /\ job[c] = "none"
                           /\ task[c] \notin {"accepted", "handshaking", "adopting"}
    /\ task[c] \in {"none", "accepted", "handshaking", "adopting"} => writer[c] = "none"
    /\ task[c] \in {"serving", "flushing"} => writer[c] # "none"
    /\ task[c] = "serving" => writer[c] # "stopped"
    /\ task[c] = "ended" => writer[c] # "running"
    /\ writer[c] \in {"none", "stopped"} => frames[c] = 0
    /\ task[c] = "ended" /\ fd[c] = "open" => job[c] \in {"queued", "running"}

HandleInv == LifecycleTypeOK /\ \A c \in Conns : ConnOK(c)

-----------------------------------------------------------------------------
(* Type correctness.                                                       *)

LEMMA KindType == \A c \in Conns : Kind[c] \in Transports
  BY LifecycleAssumption

LEMMA TypeInit == Init => LifecycleTypeOK
  <1> SUFFICES ASSUME Init PROVE LifecycleTypeOK
    OBVIOUS
  <1>1. frames \in [Conns -> 0 .. MaxFrames]
    BY LifecycleAssumption DEF Init
  <1>2. /\ started \in BOOLEAN /\ stop \in BOOLEAN /\ serving \in BOOLEAN
        /\ executor \in BOOLEAN /\ stranded \in BOOLEAN
    BY DEF Init
  <1>3. waits \in [Tasks -> SUBSET Conns]
    BY DEF Init
  <1>4. QED
    BY <1>1, <1>2, <1>3 DEF Init, LifecycleTypeOK

\* The steps of the program's tasks.
LEMMA TypeTask ==
    ASSUME LifecycleTypeOK, NEW t \in Tasks, TaskStep(t)
    PROVE  LifecycleTypeOK'
  <1> USE DEF LifecycleTypeOK, Goes, flagVars, listenVars, connVars
  <1>1. CASE Enter(t)
    BY <1>1 DEF Enter
  <1>2. CASE Bind(t)
    BY <1>2 DEF Bind, Listen, Keep, Started, Current
  <1>3. CASE BindFails(t)
    BY <1>3 DEF BindFails
  <1>4. CASE Halt(t)
    BY <1>4 DEF Halt, CloseTransports
  <1>5. CASE HaltEmpty(t)
    BY <1>5 DEF HaltEmpty
  <1>6. CASE StopWs(t)
    BY <1>6 DEF StopWs, CloseTransports
  <1>7. CASE StopKtls(t)
    <2>1. waits' \in [Tasks -> SUBSET Conns]
      BY <1>7 DEF StopKtls, Gathered
    <2>2. \A c \in Conns : /\ CancelledTask(c) \in {"flushing", "ended"}
                           /\ CancelledWriter(c) \in {"cancelled", writer[c]}
                           /\ CancelledFd(c) \in {"dropped", "lost", "closed", fd[c]}
      BY DEF CancelledTask, CancelledWriter, CancelledFd
    <2>3. QED
      BY <1>7, <2>1, <2>2 DEF StopKtls
  <1>8. CASE Return(t)
    BY <1>8 DEF Return
  <1>9. QED
    BY <1>1, <1>2, <1>3, <1>4, <1>5, <1>6, <1>7, <1>8 DEF TaskStep

\* The steps of a connection.
LEMMA TypeConn ==
    ASSUME LifecycleTypeOK, NEW c \in Conns, ConnStep(c)
    PROVE  LifecycleTypeOK'
  <1> USE DEF LifecycleTypeOK, Becomes, SetFd, Serve, New, Rest, flagVars, listenVars
  <1>1. CASE Accept(c) \/ AcceptKtls(c)
    BY <1>1 DEF Accept, AcceptKtls
  <1>2. CASE Handshake(c) \/ JobStarts(c) \/ JobCancelled(c) \/ JobEnds(c)
    BY <1>2 DEF Handshake, JobStarts, JobCancelled, JobEnds
  <1>3. CASE Adopt(c) \/ Adopted(c)
    BY <1>3 DEF Adopt, Adopted
  <1>4. CASE Send(c) \/ EndServe(c)
    <2>1. frames' \in [Conns -> 0 .. MaxFrames]
      BY <1>4, LifecycleAssumption DEF Send, EndServe
    <2>2. QED
      BY <1>4, <2>1 DEF Send, EndServe
  <1>5. CASE WriterSends(c) \/ WriterEnds(c)
    <2>1. frames' \in [Conns -> 0 .. MaxFrames]
      BY <1>5, LifecycleAssumption DEF WriterSends, WriterEnds
    <2>2. QED
      BY <1>5, <2>1 DEF WriterSends, WriterEnds
  <1>6. CASE Finish(c) \/ Detach(c)
    BY <1>6 DEF Finish, Detach
  <1>7. QED
    BY <1>1, <1>2, <1>3, <1>4, <1>5, <1>6 DEF ConnStep

LEMMA TypeStep ==
    ASSUME LifecycleTypeOK, [Next]_vars
    PROVE  LifecycleTypeOK'
  <1>1. CASE UNCHANGED vars
    BY <1>1 DEF LifecycleTypeOK, vars, flagVars, listenVars, connVars
  <1>2. QED
    BY <1>1, TypeTask, TypeConn DEF Next, Over

\* Every variable of the server's life keeps its type: what is in a list was bound, a queue
\* stays within its bound and the writer never takes the sentinel for a frame.
THEOREM LifecycleTypeCorrect == Spec => []LifecycleTypeOK
  BY TypeInit, TypeStep, PTL DEF Spec

-----------------------------------------------------------------------------
(* Connections.                                                            *)

LEMMA ConnInit == Init => HandleInv
  <1>1. ASSUME Init, NEW c \in Conns PROVE ConnOK(c)
    BY <1>1 DEF Init, ConnOK
  <1>2. QED
    BY <1>1, TypeInit DEF HandleInv

\* Of a task's steps Halt and StopWs only begin to close transports; StopKtls cancels.
LEMMA ConnTask ==
    ASSUME HandleInv, NEW t \in Tasks, TaskStep(t), NEW c \in Conns
    PROVE  ConnOK(c)'
  <1> USE DEF HandleInv, LifecycleTypeOK
  <1>0. ConnOK(c)
    OBVIOUS
  <1>1. CASE Enter(t) \/ Bind(t) \/ BindFails(t) \/ HaltEmpty(t) \/ Return(t)
    BY <1>0, <1>1 DEF Enter, Bind, Listen, Keep, Started, BindFails, HaltEmpty, Return, connVars,
                      ConnOK
  <1>2. CASE Halt(t) \/ StopWs(t)
    <2>1. /\ task' = task /\ job' = job /\ writer' = writer /\ frames' = frames
          /\ fd'[c] = fd[c] \/ (fd[c] = "open" /\ fd'[c] = "closing")
      BY <1>2 DEF Halt, StopWs, CloseTransports
    <2>2. QED
      BY <1>0, <2>1 DEF ConnOK
  <1>3. CASE StopKtls(t) /\ c \in Gathered
    <2>1. /\ task'[c] = CancelledTask(c) /\ writer'[c] = CancelledWriter(c)
          /\ fd'[c] = CancelledFd(c) /\ job' = job /\ frames' = frames
      BY <1>3 DEF StopKtls
    <2>2. Kind[c] = "ktls" /\ task[c] \notin {"none", "ended"}
      BY <1>3 DEF Gathered
    <2>3. CASE task[c] = "accepted"
      BY <1>0, <2>1, <2>2, <2>3 DEF ConnOK, CancelledTask, CancelledWriter, CancelledFd
    <2>4. CASE task[c] = "handshaking"
      BY <1>0, <2>1, <2>2, <2>4 DEF ConnOK, CancelledTask, CancelledWriter, CancelledFd
    <2>5. CASE task[c] = "adopting"
      BY <1>0, <2>1, <2>2, <2>5 DEF ConnOK, CancelledTask, CancelledWriter, CancelledFd
    <2>6. CASE task[c] = "serving"
      BY <1>0, <2>1, <2>2, <2>6 DEF ConnOK, CancelledTask, CancelledWriter, CancelledFd
    <2>7. CASE task[c] = "flushing"
      BY <1>0, <2>1, <2>2, <2>7 DEF ConnOK, CancelledTask, CancelledWriter, CancelledFd
    <2>8. QED
      BY <2>2, <2>3, <2>4, <2>5, <2>6, <2>7
  <1>4. CASE StopKtls(t) /\ c \notin Gathered
    BY <1>0, <1>4 DEF StopKtls, ConnOK
  <1>5. QED
    BY <1>1, <1>2, <1>3, <1>4 DEF TaskStep

\* A connection's step touches only that connection.
LEMMA OwnStep ==
    ASSUME HandleInv, NEW d \in Conns, ConnStep(d), NEW c \in Conns, c # d
    PROVE  /\ task'[c] = task[c] /\ job'[c] = job[c] /\ fd'[c] = fd[c]
           /\ writer'[c] = writer[c] /\ frames'[c] = frames[c]
  <1> USE DEF HandleInv, LifecycleTypeOK, Becomes, SetFd, Serve, New
  <1>1. CASE Accept(d) \/ AcceptKtls(d)
    BY <1>1 DEF Accept, AcceptKtls
  <1>2. CASE Handshake(d) \/ JobStarts(d) \/ JobCancelled(d) \/ JobEnds(d)
    BY <1>2 DEF Handshake, JobStarts, JobCancelled, JobEnds
  <1>3. CASE Adopt(d) \/ Adopted(d)
    BY <1>3 DEF Adopt, Adopted
  <1>4. CASE Send(d) \/ EndServe(d) \/ WriterSends(d) \/ WriterEnds(d)
    BY <1>4 DEF Send, EndServe, WriterSends, WriterEnds
  <1>5. CASE Finish(d) \/ Detach(d)
    BY <1>5 DEF Finish, Detach
  <1>6. QED
    BY <1>1, <1>2, <1>3, <1>4, <1>5 DEF ConnStep

LEMMA ConnConn ==
    ASSUME HandleInv, NEW d \in Conns, ConnStep(d), NEW c \in Conns
    PROVE  ConnOK(c)'
  <1>0. ConnOK(c)
    BY DEF HandleInv
  <1>1. CASE c # d
    BY <1>0, <1>1, OwnStep DEF ConnOK
  <1> USE DEF HandleInv, LifecycleTypeOK, Becomes, SetFd, Serve, New, ConnOK
  <1>2. CASE c = d /\ (Accept(c) \/ AcceptKtls(c))
    <2>1. task[c] = "none" /\ (Accept(c) => Kind[c] # "ktls") /\ (AcceptKtls(c) => Kind[c] = "ktls")
      BY <1>2 DEF Accept, AcceptKtls
    <2>2. QED
      BY <1>0, <1>2, <2>1 DEF Accept, AcceptKtls
  <1>3. CASE c = d /\ (Handshake(c) \/ JobStarts(c) \/ JobCancelled(c) \/ JobEnds(c))
    BY <1>0, <1>3 DEF Handshake, JobStarts, JobCancelled, JobEnds
  <1>4. CASE c = d /\ (Adopt(c) \/ Adopted(c))
    BY <1>0, <1>4 DEF Adopt, Adopted
  <1>5. CASE c = d /\ (Send(c) \/ EndServe(c))
    BY <1>0, <1>5 DEF Send, EndServe
  <1>6. CASE c = d /\ (WriterSends(c) \/ WriterEnds(c))
    BY <1>0, <1>6 DEF WriterSends, WriterEnds
  <1>7. CASE c = d /\ (Finish(c) \/ Detach(c))
    BY <1>0, <1>7 DEF Finish, Detach
  <1>8. QED
    BY <1>1, <1>2, <1>3, <1>4, <1>5, <1>6, <1>7 DEF ConnStep

LEMMA HandleStep ==
    ASSUME HandleInv, [Next]_vars
    PROVE  HandleInv'
  <1>1. LifecycleTypeOK'
    BY TypeStep DEF HandleInv
  <1>2. ASSUME NEW c \in Conns PROVE ConnOK(c)'
    <2>1. CASE UNCHANGED vars
      BY <2>1 DEF HandleInv, ConnOK, vars, connVars
    <2>2. QED
      BY <2>1, ConnTask, ConnConn DEF Next, Over
  <1>3. QED
    BY <1>1, <1>2 DEF HandleInv

LEMMA HandleInvariant == Spec => []HandleInv
  BY ConnInit, HandleStep, PTL DEF Spec

\* A connection that is over has closed its descriptor, unless a worker still shakes hands on it.
THEOREM HandlesOwned == Spec => []HandlesHaveOwners
  <1>1. HandleInv => HandlesHaveOwners
    BY DEF HandleInv, ConnOK, HandlesHaveOwners
  <1>2. QED
    BY <1>1, HandleInvariant, PTL

\* What was queued before a connection closed was sent, or the connection was lost or cancelled.
THEOREM Flushed == Spec => []FlushedBeforeClose
  <1>1. HandleInv => FlushedBeforeClose
    <2>1. ASSUME HandleInv, NEW c \in Conns, task[c] = "ended", frames[c] > 0
          PROVE  writer[c] \in {"failed", "cancelled"}
      <3>1. frames[c] # 0
        BY <2>1
      <3>2. writer[c] \notin {"none", "stopped", "running"}
        BY <2>1, <3>1 DEF HandleInv, ConnOK
      <3>3. QED
        BY <2>1, <3>2 DEF HandleInv, LifecycleTypeOK
    <2>2. QED
      BY <2>1 DEF FlushedBeforeClose
  <1>2. QED
    BY <1>1, HandleInvariant, PTL

-----------------------------------------------------------------------------
(* The end of aclose().                                                    *)

LEMMA CloseInit == Init => CloseInv
  BY DEF Init, CloseInv, ListenersKept, StopsAreSeen, ListenersPending, KeptPending,
         ConnsPending, AcceptorKept

LEMMA CloseEnter ==
    ASSUME HandleInv, CloseInv, NEW t \in Tasks, Enter(t)
    PROVE  CloseInv'
  <1> USE DEF HandleInv, LifecycleTypeOK, CloseInv, Enter, Goes, Early, listenVars, connVars, flagVars
  <1>1. StopsAreSeen' /\ AcceptorKept' /\ ListenersKept'
    BY DEF StopsAreSeen, AcceptorKept, ListenersKept
  <1>2. ASSUME NEW stages, Pending(stages), Early \subseteq stages PROVE Pending(stages)'
    BY <1>2 DEF Pending
  <1>3. ListenersPending' /\ KeptPending'
    BY <1>2 DEF ListenersPending, KeptPending
  <1>4. ConnsPending'
    BY DEF ConnsPending
  <1>5. QED
    BY <1>1, <1>3, <1>4

LEMMA CloseBind ==
    ASSUME HandleInv, CloseInv, NEW t \in Tasks, Bind(t)
    PROVE  CloseInv'
  <1> USE DEF HandleInv, LifecycleTypeOK, CloseInv, Goes, Early, listenVars, connVars, flagVars
  <1>1. at[t] = "binding"
    BY DEF Bind, Listen, Keep, Started
  <1>2. stop' = stop /\ stranded' = stranded /\ waits' = waits /\ task' = task /\ fd' = fd
    BY DEF Bind, Listen, Keep, Started
  <1>3. at' = at \/ (Started(t) /\ at' = [at EXCEPT ![t] = "up"])
    BY DEF Bind, Listen, Keep, Started
  <1>4. ASSUME NEW stages, Early \subseteq stages PROVE Pending(stages)'
    BY <1>1, <1>2, <1>3, <1>4 DEF Pending
  <1>5. ListenersPending' /\ KeptPending'
    BY <1>4 DEF ListenersPending, KeptPending
  <1>6. StopsAreSeen'
    BY <1>2, <1>3 DEF StopsAreSeen
  <1>7. listening \subseteq listening' /\ kept \subseteq kept'
    BY DEF Bind, Listen, Keep, Started
  <1>8. ConnsPending'
    <2>1. \A u \in Tasks : at[u] = "gather" => at'[u] = "gather"
      BY <1>1, <1>3
    <2>2. QED
      BY <1>2, <1>7, <2>1 DEF ConnsPending
  <1>9. AcceptorKept'
    BY DEF Bind, Listen, Keep, Started, AcceptorKept
  <1>10. ListenersKept'
    <2>1. CASE \E k \in Transports : Listen(t, k) \/ Keep(t, k)
      BY <1>1, <2>1 DEF Listen, Keep, Current, ListenersKept
    <2>2. CASE Started(t)
      BY <2>2 DEF Started, ListenersKept
    <2>3. QED
      BY <2>1, <2>2 DEF Bind
  <1>11. QED
    BY <1>5, <1>6, <1>8, <1>9, <1>10

LEMMA CloseBindFails ==
    ASSUME HandleInv, CloseInv, NEW t \in Tasks, BindFails(t)
    PROVE  CloseInv'
  <1> USE DEF HandleInv, LifecycleTypeOK, CloseInv, BindFails, Goes, Early, listenVars, connVars,
              flagVars
  <1>1. ASSUME NEW stages, Pending(stages) PROVE Pending(stages)'
    BY <1>1 DEF Pending
  <1>2. ListenersPending' /\ KeptPending'
    BY <1>1 DEF ListenersPending, KeptPending
  <1>3. StopsAreSeen' /\ AcceptorKept' /\ ListenersKept'
    BY DEF StopsAreSeen, AcceptorKept, ListenersKept
  <1>4. ConnsPending'
    BY DEF ConnsPending
  <1>5. QED
    BY <1>2, <1>3, <1>4

LEMMA CloseHalt ==
    ASSUME HandleInv, CloseInv, NEW t \in Tasks, Halt(t)
    PROVE  CloseInv'
  <1> USE DEF HandleInv, LifecycleTypeOK, CloseInv, Halt, Goes, Early
  <1>1. /\ at'[t] = "waitServers" /\ \A u \in Tasks : u # t => at'[u] = at[u]
        /\ at[t] \in {"idle", "raised", "up"}
    OBVIOUS
  <1>2. StopsAreSeen' /\ AcceptorKept'
    BY DEF StopsAreSeen, AcceptorKept
  <1>3. ListenersKept'
    BY <1>1 DEF ListenersKept
  <1>4. ASSUME NEW stages, "waitServers" \in stages PROVE Pending(stages)'
    BY <1>1, <1>4 DEF Pending
  <1>5. KeptPending'
    BY <1>4 DEF KeptPending
  <1>6. ListenersPending'
    BY <1>4 DEF ListenersPending
  <1>7. ConnsPending'
    <2>1. /\ task' = task /\ waits' = waits /\ kept' = kept /\ stranded' = stranded
          /\ kept \cup listening \subseteq kept' \cup listening'
          /\ \A u \in Tasks : at[u] = "gather" => at'[u] = "gather"
      BY <1>1
    <2>2. \A c \in Conns : fd[c] \in {"none", "closed"} => fd'[c] = fd[c]
      BY DEF CloseTransports
    <2>3. QED
      BY <2>1, <2>2 DEF ConnsPending
  <1>8. QED
    BY <1>2, <1>3, <1>5, <1>6, <1>7

LEMMA CloseHaltEmpty ==
    ASSUME HandleInv, CloseInv, NEW t \in Tasks, HaltEmpty(t)
    PROVE  CloseInv'
  <1> USE DEF HandleInv, LifecycleTypeOK, CloseInv, HaltEmpty, Goes, listenVars, connVars
  <1>1. /\ at'[t] = "closed" /\ \A u \in Tasks : u # t => at'[u] = at[u]
        /\ at[t] \in {"idle", "raised", "up"}
    OBVIOUS
  <1>2. StopsAreSeen' /\ AcceptorKept' /\ ListenersPending' /\ KeptPending'
    BY DEF StopsAreSeen, AcceptorKept, ListenersPending, KeptPending
  <1>3. ListenersKept'
    BY <1>1 DEF ListenersKept
  <1>4. ConnsPending'
    BY <1>1 DEF ConnsPending
  <1>5. QED
    BY <1>2, <1>3, <1>4

LEMMA CloseStopWs ==
    ASSUME HandleInv, CloseInv, NEW t \in Tasks, StopWs(t)
    PROVE  CloseInv'
  <1> USE DEF HandleInv, LifecycleTypeOK, CloseInv, StopWs, Goes, Early, flagVars
  <1>1. /\ at'[t] = "waitWs" /\ at[t] = "waitServers"
        /\ \A u \in Tasks : u # t => at'[u] = at[u]
    OBVIOUS
  <1>2. StopsAreSeen' /\ AcceptorKept'
    BY <1>1 DEF StopsAreSeen, AcceptorKept, Streams
  <1>3. /\ \A k \in kept \cap Streams : k \notin listening
        /\ listening' \subseteq listening
        /\ kept' = kept \ Streams
    BY DEF ServersClosed
  <1>4. ListenersKept'
    BY <1>1, <1>3 DEF ListenersKept
  <1>5. ASSUME NEW stages, "waitWs" \in stages PROVE Pending(stages)'
    BY <1>1, <1>5 DEF Pending
  <1>6. KeptPending'
    BY <1>3, <1>5 DEF KeptPending
  <1>7. ListenersPending'
    BY <1>3, <1>5 DEF ListenersPending
  <1>8. ConnsPending'
    <2>1. /\ task' = task /\ waits' = waits /\ stranded' = stranded
          /\ \A u \in Tasks : at[u] = "gather" => at'[u] = "gather"
      BY <1>1
    <2>2. \A c \in Conns : fd[c] \in {"none", "closed"} => fd'[c] = fd[c]
      BY DEF CloseTransports
    <2>3. ASSUME NEW c \in Conns, Kind[c] \in Streams, Python >= 312, fd'[c] \notin {"none", "closed"}
          PROVE  stranded \/ Kind[c] \in kept' \cup listening'
      <3>1. fd[c] \notin {"none", "closed"}
        BY <2>2, <2>3
      <3>2. Kind[c] \notin kept
        BY <3>1, <2>3 DEF ServersClosed
      <3>3. stranded \/ Kind[c] \in listening
        BY <3>1, <3>2, <2>3 DEF ConnsPending
      <3>4. QED
        BY <3>2, <3>3
    <2>4. "ws" \in kept => "ws" \in kept'
      BY <1>3 DEF Streams
    <2>5. "ktls" \in kept => "ktls" \in kept'
      BY <1>3 DEF Streams
    <2>6. ASSUME NEW c \in Conns, Kind[c] = "ws", task[c] \notin {"none", "ended"}
          PROVE  stranded \/ Kind[c] \in kept' \cup listening'
      BY <2>4, <2>6 DEF ConnsPending
    <2>7. ASSUME NEW c \in Conns, Kind[c] = "ktls", task[c] \notin {"none", "ended"}
          PROVE  Kind[c] \in kept' \/ \E u \in Tasks : at'[u] = "gather" /\ c \in waits'[u]
      BY <2>1, <2>5, <2>7 DEF ConnsPending
    <2>8. QED
      BY <2>1, <2>3, <2>6, <2>7 DEF ConnsPending
  <1>9. QED
    BY <1>2, <1>4, <1>6, <1>7, <1>8

LEMMA CloseStopKtls ==
    ASSUME HandleInv, CloseInv, NEW t \in Tasks, StopKtls(t)
    PROVE  CloseInv'
  <1> USE DEF HandleInv, LifecycleTypeOK, CloseInv, StopKtls, Goes, Early, flagVars
  <1>1. /\ at'[t] = "gather" /\ at[t] = "waitWs"
        /\ \A u \in Tasks : u # t => at'[u] = at[u]
        /\ waits'[t] = Gathered /\ \A u \in Tasks : u # t => waits'[u] = waits[u]
    OBVIOUS
  <1>2. StopsAreSeen' /\ AcceptorKept'
    BY <1>1 DEF StopsAreSeen, AcceptorKept
  <1>3. /\ listening' \subseteq listening
        /\ kept' \subseteq Streams /\ kept \cap Streams \subseteq kept'
        /\ \A k \in kept \ kept' : k \notin listening'
    <2>1. \A k \in kept : k \in {"unix", "tcp", "ws", "ktls"}
      BY LifecycleAssumption
    <2>2. QED
      BY <2>1 DEF WsClosed, Streams
  <1>4. ListenersKept'
    BY <1>1, <1>3 DEF ListenersKept
  <1>5. ASSUME NEW stages, Pending(stages), "waitWs" \notin stages PROVE Pending(stages)'
    BY <1>1, <1>5 DEF Pending
  <1>6. KeptPending' /\ ListenersPending'
    <2>1. \A k \in kept' : k \in kept /\ k \in Streams /\ k # "ws" /\ k # "ktls"
      BY <1>3 DEF Streams
    <2>2. KeptPending'
      BY <1>5, <2>1 DEF KeptPending
    <2>3. ListenersPending'
      BY <1>3, <1>5, <2>1 DEF ListenersPending
    <2>4. QED
      BY <2>2, <2>3
  <1>7. ConnsPending'
    <2>1. ASSUME NEW c \in Conns, Kind[c] \in Streams, Python >= 312, fd'[c] \notin {"none", "closed"}
          PROVE  stranded' \/ Kind[c] \in kept' \cup listening'
      <3>1. fd'[c] = fd[c]
        BY <2>1 DEF Gathered, Streams
      <3>2. stranded \/ Kind[c] \in kept \cup listening
        BY <2>1, <3>1 DEF ConnsPending
      <3>3. Kind[c] \in listening => Kind[c] \in listening'
        BY <2>1 DEF Streams
      <3>4. QED
        BY <1>3, <2>1, <3>2, <3>3
    <2>2. ASSUME NEW c \in Conns, Kind[c] = "ws", task'[c] \notin {"none", "ended"}
          PROVE  stranded' \/ Kind[c] \in kept' \cup listening'
      <3>1. task'[c] = task[c]
        BY <2>2 DEF Gathered
      <3>2. stranded \/ Kind[c] \in kept \cup listening
        BY <2>2, <3>1 DEF ConnsPending
      <3>3. "ws" \notin kept
        BY <2>2, <3>1 DEF WsClosed
      <3>4. QED
        BY <2>2, <3>2, <3>3
    <2>3. ASSUME NEW c \in Conns, Kind[c] = "ktls", task'[c] \notin {"none", "ended"}
          PROVE  \E u \in Tasks : at'[u] = "gather" /\ c \in waits'[u]
      <3>1. c \in Gathered
        BY <2>3 DEF Gathered
      <3>2. QED
        BY <1>1, <3>1
    <2>4. QED
      BY <2>1, <2>2, <2>3 DEF ConnsPending
  <1>8. QED
    BY <1>2, <1>4, <1>6, <1>7

LEMMA CloseReturn ==
    ASSUME HandleInv, CloseInv, NEW t \in Tasks, Return(t)
    PROVE  CloseInv'
  <1> USE DEF HandleInv, LifecycleTypeOK, CloseInv, Return, Goes, Early, listenVars, connVars
  <1>1. StopsAreSeen' /\ AcceptorKept' /\ ListenersKept'
    BY DEF StopsAreSeen, AcceptorKept, ListenersKept
  <1>2. ASSUME NEW stages, Pending(stages), "gather" \notin stages PROVE Pending(stages)'
    BY <1>2 DEF Pending
  <1>3. KeptPending' /\ ListenersPending'
    BY <1>2 DEF KeptPending, ListenersPending
  <1>4. ConnsPending'
    BY DEF ConnsPending
  <1>5. QED
    BY <1>1, <1>3, <1>4

\* A connection's step leaves the lists alone; what it may begin, its listener answers for.
LEMMA CloseConn ==
    ASSUME HandleInv, CloseInv, NEW d \in Conns, ConnStep(d)
    PROVE  CloseInv'
  <1> USE DEF HandleInv, CloseInv, Rest, flagVars, listenVars
  <1>1. /\ UNCHANGED <<stop, stranded, bound, listening, kept, at, waits>>
        /\ accepting' = "waiting" => accepting = "waiting"
    BY DEF ConnStep, Accept, AcceptKtls, Handshake, JobStarts, JobCancelled, JobEnds, Adopt,
           Adopted, Send, EndServe, WriterSends, WriterEnds, Finish, Detach
  <1>2. StopsAreSeen' /\ AcceptorKept' /\ ListenersKept'
    BY <1>1 DEF StopsAreSeen, AcceptorKept, ListenersKept
  <1>3. KeptPending' /\ ListenersPending'
    BY <1>1 DEF KeptPending, ListenersPending, Pending
  <1>4. /\ Kind[d] \in Streams /\ fd'[d] \notin {"none", "closed"}
              => fd[d] \notin {"none", "closed"} \/ Kind[d] \in listening
        /\ task'[d] \notin {"none", "ended"}
              => \/ task[d] \notin {"none", "ended"}
                 \/ Kind[d] \in listening /\ (Kind[d] = "ktls" => Kind[d] \in kept)
    <2>0. Kind[d] \in Streams => Kind[d] # "ktls"
      BY DEF Streams
    <2> USE DEF LifecycleTypeOK, ConnOK, Becomes, SetFd, Serve, New
    <2>1. CASE Accept(d) \/ AcceptKtls(d)
      BY <2>1 DEF Accept, AcceptKtls, AcceptorKept
    <2>2. CASE Handshake(d) \/ Adopt(d) \/ Adopted(d)
      BY <2>0, <2>2 DEF Handshake, Adopt, Adopted
    <2>3. CASE JobStarts(d) \/ JobCancelled(d) \/ JobEnds(d)
      BY <2>0, <2>3 DEF JobStarts, JobCancelled, JobEnds
    <2>4. CASE Send(d) \/ WriterSends(d) \/ WriterEnds(d)
      BY <2>4 DEF Send, WriterSends, WriterEnds
    <2>5. CASE EndServe(d)
      BY <2>5 DEF EndServe
    <2>6. CASE Finish(d)
      BY <2>6 DEF Finish
    <2>7. CASE Detach(d)
      BY <2>7 DEF Detach
    <2>8. QED
      BY <2>1, <2>2, <2>3, <2>4, <2>5, <2>6, <2>7 DEF ConnStep
  <1>5. ConnsPending'
    <2>1. ASSUME NEW c \in Conns, c # d
          PROVE  task'[c] = task[c] /\ fd'[c] = fd[c]
      BY <2>1, OwnStep
    <2>2. ASSUME NEW c \in Conns, Kind[c] \in Streams, Python >= 312, fd'[c] \notin {"none", "closed"}
          PROVE  stranded' \/ Kind[c] \in kept' \cup listening'
      BY <1>1, <1>4, <2>1, <2>2 DEF ConnsPending
    <2>3. ASSUME NEW c \in Conns, Kind[c] = "ws", task'[c] \notin {"none", "ended"}
          PROVE  stranded' \/ Kind[c] \in kept' \cup listening'
      BY <1>1, <1>4, <2>1, <2>3 DEF ConnsPending
    <2>4. ASSUME NEW c \in Conns, Kind[c] = "ktls", task'[c] \notin {"none", "ended"}
          PROVE  Kind[c] \in kept' \/ \E t \in Tasks : at'[t] = "gather" /\ c \in waits'[t]
      BY <1>1, <1>4, <2>1, <2>4 DEF ConnsPending
    <2>5. QED
      BY <2>2, <2>3, <2>4 DEF ConnsPending
  <1>6. QED
    BY <1>2, <1>3, <1>5

LEMMA CloseStep ==
    ASSUME HandleInv, CloseInv, [Next]_vars
    PROVE  CloseInv'
  <1>1. CASE UNCHANGED vars
    BY <1>1 DEF CloseInv, ListenersKept, StopsAreSeen, ListenersPending, KeptPending, Pending,
                ConnsPending, AcceptorKept, vars, flagVars, listenVars, connVars
  <1>2. ASSUME NEW t \in Tasks, TaskStep(t) PROVE CloseInv'
    BY <1>2, CloseEnter, CloseBind, CloseBindFails, CloseHalt, CloseHaltEmpty, CloseStopWs,
       CloseStopKtls, CloseReturn DEF TaskStep
  <1>3. QED
    BY <1>1, <1>2, CloseConn DEF Next, Over

LEMMA CloseInvariant == Spec => []CloseInv
  BY CloseInit, CloseStep, HandleInvariant, PTL DEF Spec

\* Once nobody uses the server and an aclose() has returned nothing listens, no stream
\* connection is open where asyncio waits for its clients, and every task of a kTLS or
\* WebSocket connection has ended.
THEOREM CloseCloses == Spec => []ClosedAfterAclose
  <1>1. HandleInv /\ CloseInv => ClosedAfterAclose
    <2> SUFFICES ASSUME HandleInv, CloseInv, Closed
                 PROVE  /\ listening = {}
                        /\ \A c \in Conns :
                             /\ Kind[c] \in Streams /\ Python >= 312 => fd[c] \in {"none", "closed"}
                             /\ Kind[c] \notin Streams => task[c] \in {"none", "ended"}
      BY DEF ClosedAfterAclose
    <2> USE DEF CloseInv
    <2>1. stop /\ ~stranded
      BY DEF Closed, StopsAreSeen
    <2>2. ~Pending(Early \cup {"waitServers"}) /\ ~Pending(Early \cup {"waitServers", "waitWs"})
      BY <2>1 DEF Closed, Pending, Early
    <2>3. kept = {}
      BY <2>2 DEF KeptPending
    <2>4. listening = {}
      BY <2>1, <2>3 DEF ListenersKept, Closed
    <2>5. ASSUME NEW c \in Conns, Kind[c] \notin Streams PROVE task[c] \in {"none", "ended"}
      <3>1. Transports \subseteq {"unix", "tcp", "ktls", "ws"}
        BY LifecycleAssumption
      <3>2. Kind[c] \in {"ws", "ktls"}
        BY <2>5, <3>1, KindType DEF Streams
      <3>3. QED
        BY <2>1, <2>3, <2>4, <3>2 DEF ConnsPending, Closed
    <2>6. QED
      BY <2>1, <2>3, <2>4, <2>5 DEF ConnsPending
  <1>2. QED
    BY <1>1, HandleInvariant, CloseInvariant, PTL

-----------------------------------------------------------------------------
(* Nobody aclose() waits for waits for ever.                                *)

\* Before start() there is nothing to stop; a stop that waits has woken serve_forever().
Woken ==
    /\ ~started => /\ kept = {} /\ listening = {}
                   /\ \A t \in Tasks : at[t] # "binding"
                   /\ \A c \in Conns : task[c] = "none"
    /\ \A t \in Tasks : at[t] \in {"waitServers", "waitWs", "gather"} => started /\ serving

\* Transports that aclose() closes before it waits for them: 3.12 and earlier leave
\* the clients of asyncio's servers alone.
ClosedFirst(kind) == kind = "ws" \/ (kind \in Streams /\ Python = 313)

\* With its listener such a transport closes the connections accepted there.
OpenHeard ==
    \A c \in Conns :
        /\ ClosedFirst(Kind[c]) /\ fd[c] = "open" => Kind[c] \in listening
        /\ Kind[c] # "ktls" => /\ fd[c] \notin {"dropped", "lost"}
                               /\ task[c] # "none" => fd[c] # "none"

\* A task that aclose() waits for has been cancelled.
GatheredEnd ==
    \A t \in Tasks : at[t] = "gather" => \A c \in waits[t] : task[c] \in {"flushing", "ended"}

StopInv == HandleInv /\ CloseInv /\ Woken /\ OpenHeard /\ GatheredEnd

\* Who may go on: each line is the guard of actions that are fair.
TaskGoesOn(t) ==
    \/ at[t] = "binding"
    \/ at[t] = "up" /\ serving
    \/ at[t] = "waitServers" /\ ServersClosed
    \/ at[t] = "waitWs" /\ WsClosed
    \/ at[t] = "gather" /\ \A c \in waits[t] : task[c] = "ended"

ConnGoesOn(c) ==
    \/ fd[c] = "closing"
    \/ task[c] = "serving" /\ fd[c] = "closed"
    \/ task[c] = "flushing"

\* Python 3.12: wait_closed() waits for clients that nobody closes.
ClientStays ==
    Python = 312 /\ \E c \in Conns : Kind[c] \in kept \cap Streams /\ fd[c] = "open"

Stopping == \E t \in Tasks : at[t] \in {"waitServers", "waitWs", "gather"}

AcloseAttended ==
    Stopping /\ ~stranded =>
        (\E t \in Tasks : TaskGoesOn(t)) \/ (\E c \in Conns : ConnGoesOn(c)) \/ ClientStays

LEMMA StopInit == Init => StopInv
  <1> SUFFICES ASSUME Init PROVE StopInv
    OBVIOUS
  <1>1. HandleInv /\ CloseInv
    BY ConnInit, CloseInit
  <1>2. QED
    BY <1>1 DEF Init, StopInv, Woken, OpenHeard, GatheredEnd

\* What each step of a task of the program does to the three new parts.
LEMMA WokenTask ==
    ASSUME HandleInv, Woken, NEW t \in Tasks, TaskStep(t)
    PROVE  Woken'
  <1> USE DEF HandleInv, LifecycleTypeOK, Woken, Goes
  <1>1. CASE Enter(t)
    BY <1>1 DEF Enter, flagVars, listenVars, connVars
  <1>2. CASE Bind(t)
    BY <1>2 DEF Bind, Listen, Keep, Started, flagVars, connVars
  <1>3. CASE BindFails(t) \/ Return(t) \/ HaltEmpty(t)
    BY <1>3 DEF BindFails, Return, HaltEmpty, flagVars, listenVars, connVars
  <1>4. CASE Halt(t)
    <2>1. started
      BY <1>4 DEF Halt, Gathered
    <2>2. QED
      BY <1>4, <2>1 DEF Halt
  <1>5. CASE StopWs(t) \/ StopKtls(t)
    BY <1>5 DEF StopWs, StopKtls, flagVars
  <1>6. QED
    BY <1>1, <1>2, <1>3, <1>4, <1>5 DEF TaskStep

LEMMA HeardTask ==
    ASSUME HandleInv, OpenHeard, NEW t \in Tasks, TaskStep(t)
    PROVE  OpenHeard'
  <1> USE DEF HandleInv, LifecycleTypeOK
  <1>1. CASE Enter(t) \/ Bind(t) \/ BindFails(t) \/ Return(t) \/ HaltEmpty(t)
    <2>1. listening \subseteq listening' /\ fd' = fd /\ task' = task
      BY <1>1 DEF Enter, Bind, Listen, Keep, Started, BindFails, Return, HaltEmpty, listenVars,
                  connVars
    <2>2. QED
      BY <2>1 DEF OpenHeard
  <1>2. CASE Halt(t) \/ StopWs(t)
    <2> SUFFICES ASSUME NEW c \in Conns
                 PROVE  /\ ClosedFirst(Kind[c]) /\ fd'[c] = "open" => Kind[c] \in listening'
                        /\ Kind[c] # "ktls" => /\ fd'[c] \notin {"dropped", "lost"}
                                               /\ task'[c] # "none" => fd'[c] # "none"
      BY DEF OpenHeard
    <2>1. task' = task /\ (fd'[c] = fd[c] \/ fd'[c] = "closing")
      BY <1>2 DEF Halt, StopWs, CloseTransports
    <2>2. ASSUME ClosedFirst(Kind[c]), fd'[c] = "open" PROVE Kind[c] \in listening'
      <3>1. fd[c] = "open" /\ Kind[c] \in listening
        BY <2>1, <2>2 DEF OpenHeard
      <3>2. CASE Halt(t)
        BY <2>2, <3>1, <3>2 DEF Halt, CloseTransports, ClosedFirst, Streams
      <3>3. CASE StopWs(t)
        BY <2>2, <3>1, <3>3 DEF StopWs, CloseTransports
      <3>4. QED
        BY <1>2, <3>2, <3>3
    <2>3. QED
      BY <2>1, <2>2 DEF OpenHeard
  <1>3. CASE StopKtls(t)
    <2>1. \A c \in Conns : Kind[c] # "ktls" => task'[c] = task[c] /\ fd'[c] = fd[c]
      BY <1>3 DEF StopKtls, Gathered
    <2>2. \A k : k \in listening /\ k # "ktls" => k \in listening'
      BY <1>3 DEF StopKtls
    <2>3. \A k : ClosedFirst(k) => k # "ktls"
      BY DEF ClosedFirst, Streams
    <2>4. QED
      BY <2>1, <2>2, <2>3 DEF OpenHeard
  <1>4. QED
    BY <1>1, <1>2, <1>3 DEF TaskStep

LEMMA EndTask ==
    ASSUME HandleInv, GatheredEnd, NEW t \in Tasks, TaskStep(t)
    PROVE  GatheredEnd'
  <1> USE DEF HandleInv, LifecycleTypeOK, Goes
  <1>1. CASE StopKtls(t)
    <2>1. \A c \in Conns :
             c \in Gathered \/ task[c] \in {"flushing", "ended"} => task'[c] \in {"flushing", "ended"}
      BY <1>1 DEF StopKtls, CancelledTask
    <2>2. /\ waits'[t] = Gathered /\ Gathered \subseteq Conns
          /\ \A u \in Tasks : u # t => waits'[u] = waits[u] /\ at'[u] = at[u]
      BY <1>1 DEF StopKtls, Gathered
    <2>3. QED
      BY <2>1, <2>2 DEF GatheredEnd
  <1>2. CASE \/ Enter(t) \/ Bind(t) \/ BindFails(t) \/ Return(t) \/ Halt(t) \/ HaltEmpty(t)
             \/ StopWs(t)
    <2>1. /\ task' = task /\ waits' = waits
          /\ \A u \in Tasks : at'[u] = "gather" => at[u] = "gather"
      BY <1>2 DEF Enter, Bind, Listen, Keep, Started, BindFails, Return, Halt, HaltEmpty, StopWs,
                  connVars
    <2>2. QED
      BY <2>1 DEF GatheredEnd
  <1>3. QED
    BY <1>1, <1>2 DEF TaskStep

\* A connection begins at its listener and opens no descriptor afterwards.
LEMMA StopConn ==
    ASSUME HandleInv, CloseInv, Woken, OpenHeard, GatheredEnd, NEW d \in Conns, ConnStep(d)
    PROVE  Woken' /\ OpenHeard' /\ GatheredEnd'
  <1> USE DEF HandleInv
  <1>1. UNCHANGED <<started, serving, listening, kept, at, waits>>
    BY DEF ConnStep, Accept, AcceptKtls, Handshake, JobStarts, JobCancelled, JobEnds, Adopt,
           Adopted, Send, EndServe, WriterSends, WriterEnds, Finish, Detach, Rest, flagVars,
           listenVars
  <1>2. /\ task[d] = "none" => task'[d] = "none" \/ Kind[d] \in listening
        /\ fd'[d] = "open" => fd[d] = "open" \/ Kind[d] \in listening
        /\ task[d] \in {"flushing", "ended"} => task'[d] \in {"flushing", "ended"}
        /\ Kind[d] # "ktls" => /\ fd'[d] \in {"dropped", "lost"} => fd[d] = fd'[d]
                               /\ task'[d] # "none" =>
                                     fd'[d] # "none" \/ (task[d] # "none" /\ fd[d] = "none")
    <2> USE DEF LifecycleTypeOK, ConnOK, Becomes, SetFd, Serve, New
    <2>1. CASE Accept(d) \/ AcceptKtls(d)
      BY <2>1 DEF Accept, AcceptKtls
    <2>2. CASE Handshake(d) \/ Adopt(d) \/ Adopted(d)
      BY <2>2 DEF Handshake, Adopt, Adopted
    <2>3. CASE JobStarts(d) \/ JobCancelled(d) \/ JobEnds(d)
      BY <2>3 DEF JobStarts, JobCancelled, JobEnds
    <2>4. CASE Send(d) \/ WriterSends(d) \/ WriterEnds(d) \/ EndServe(d)
      BY <2>4 DEF Send, WriterSends, WriterEnds, EndServe
    <2>5. CASE Finish(d) \/ Detach(d)
      BY <2>5 DEF Finish, Detach
    <2>6. QED
      BY <2>1, <2>2, <2>3, <2>4, <2>5 DEF ConnStep
  <1>3. ASSUME NEW c \in Conns, c # d PROVE task'[c] = task[c] /\ fd'[c] = fd[c]
    BY <1>3, OwnStep
  <1>4. Woken'
    BY <1>1, <1>2, <1>3 DEF Woken
  <1>5. OpenHeard'
    BY <1>1, <1>2, <1>3 DEF OpenHeard
  <1>6. GatheredEnd'
    BY <1>1, <1>2, <1>3 DEF GatheredEnd, LifecycleTypeOK
  <1>7. QED
    BY <1>4, <1>5, <1>6

LEMMA StopStep ==
    ASSUME StopInv, [Next]_vars
    PROVE  StopInv'
  <1> USE DEF StopInv
  <1>1. HandleInv' /\ CloseInv'
    BY HandleStep, CloseStep
  <1>2. Woken' /\ OpenHeard' /\ GatheredEnd'
    <2>1. CASE UNCHANGED vars
      BY <2>1 DEF vars, flagVars, listenVars, connVars, Woken, OpenHeard, GatheredEnd
    <2>2. QED
      BY <2>1, WokenTask, HeardTask, EndTask, StopConn DEF Next, Over
  <1>3. QED
    BY <1>1, <1>2

\* Whoever an aclose() waits for goes on.
LEMMA StopAttended ==
    ASSUME StopInv
    PROVE  AcloseAttended
  <1> USE DEF StopInv, HandleInv, LifecycleTypeOK
  <1> DEFINE GoesOn ==
        (\E t \in Tasks : TaskGoesOn(t)) \/ (\E c \in Conns : ConnGoesOn(c)) \/ ClientStays
  <1> SUFFICES ASSUME ~stranded PROVE Stopping => GoesOn
    BY DEF AcloseAttended
  <1>1. ASSUME NEW t \in Tasks, at[t] \in {"waitServers", "waitWs", "gather"}
        PROVE  stop /\ serving
    BY <1>1 DEF CloseInv, StopsAreSeen, Woken
  \* A server that still listens has been started by somebody who will stop it himself.
  <1>2. ASSUME NEW t \in Tasks, at[t] = "waitServers" PROVE GoesOn
    <2>1. stop /\ serving
      BY <1>1, <1>2
    <2>2. CASE ServersClosed
      BY <1>2, <2>2 DEF TaskGoesOn
    <2>3. CASE ~ServersClosed
      <3>1. PICK k \in kept \cap Streams :
              \/ k \in listening
              \/ Python >= 312 /\ \E c \in Conns : Kind[c] = k /\ fd[c] \notin {"none", "closed"}
        BY <2>3 DEF ServersClosed
      <3>2. CASE k \in listening
        <4>1. \E u \in Tasks : at[u] \in Early
          BY <2>1, <3>1, <3>2 DEF CloseInv, ListenersPending, Pending
        <4>2. QED
          BY <2>1, <4>1 DEF Early, TaskGoesOn
      <3>3. CASE k \notin listening
        <4>1. PICK c \in Conns : Kind[c] = k /\ fd[c] \notin {"none", "closed"}
          BY <3>1, <3>3
        <4>2. Python \in {312, 313}
          BY <3>1, <3>3, LifecycleAssumption
        <4>3. fd[c] \in {"open", "closing"}
          BY <3>1, <4>1 DEF OpenHeard, Streams
        <4>4. CASE fd[c] = "closing"
          BY <4>4 DEF ConnGoesOn
        <4>5. CASE fd[c] = "open"
          <5>1. Python = 312
            BY <3>1, <3>3, <4>1, <4>2, <4>5 DEF OpenHeard, ClosedFirst
          <5>2. QED
            BY <3>1, <4>1, <4>5, <5>1 DEF ClientStays
        <4>6. QED
          BY <4>3, <4>4, <4>5
      <3>4. QED
        BY <3>2, <3>3
    <2>4. QED
      BY <2>2, <2>3
  <1>3. ASSUME NEW t \in Tasks, at[t] = "waitWs" PROVE GoesOn
    <2>1. stop /\ serving
      BY <1>1, <1>3
    <2>2. CASE WsClosed
      BY <1>3, <2>2 DEF TaskGoesOn
    <2>3. CASE ~WsClosed
      <3>1. /\ "ws" \in kept
            /\ \/ "ws" \in listening
               \/ \E c \in Conns : Kind[c] = "ws" /\ task[c] \notin {"none", "ended"}
        BY <2>3 DEF WsClosed
      <3>2. CASE "ws" \in listening
        <4>1. \E u \in Tasks : at[u] \in Early \cup {"waitServers"}
          BY <2>1, <3>1, <3>2 DEF CloseInv, ListenersPending, Pending
        <4>2. QED
          BY <1>2, <2>1, <4>1 DEF Early, TaskGoesOn
      <3>3. CASE "ws" \notin listening
        <4>1. PICK c \in Conns : Kind[c] = "ws" /\ task[c] \notin {"none", "ended"}
          BY <3>1, <3>3
        <4>2. task[c] \in {"serving", "flushing"}
          BY <4>1 DEF ConnOK
        <4>3. fd[c] \in {"open", "closing", "closed"}
          BY <4>1 DEF OpenHeard
        <4>4. fd[c] # "open"
          BY <3>3, <4>1 DEF OpenHeard, ClosedFirst
        <4>5. QED
          BY <4>2, <4>3, <4>4 DEF ConnGoesOn
      <3>4. QED
        BY <3>2, <3>3
    <2>4. QED
      BY <2>2, <2>3
  <1>4. ASSUME NEW t \in Tasks, at[t] = "gather" PROVE GoesOn
    <2>1. waits[t] \subseteq Conns /\ \A c \in waits[t] : task[c] \in {"flushing", "ended"}
      BY <1>4 DEF GatheredEnd
    <2>2. QED
      BY <1>4, <2>1 DEF TaskGoesOn, ConnGoesOn
  <1>5. QED
    BY <1>2, <1>3, <1>4 DEF Stopping

\* Several aclose() calls, a start() they overlap and the connections never wait for one another
\* in a circle: while an aclose() waits, and no start() has failed behind it, some task can go
\* on or some connection end, however far its hand-shake or its writer was; but on Python 3.12
\* a client of asyncio's servers may stay for ever.  ShutdownCompletes adds fairness to this.
THEOREM ShutdownAttended == Spec => []AcloseAttended
  <1>1. Spec => []StopInv
    BY StopInit, StopStep, PTL DEF Spec
  <1>2. QED
    BY <1>1, StopAttended, PTL

=============================================================================
